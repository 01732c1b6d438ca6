----------------------------- MODULE SsoSettings -----------------------------
(***************************************************************************)
(* Single sign-on settings: the table settings, which holds this server's  *)
(* own SAML metadata under two names.  Upsert is a READ COMMITTED          *)
(* transaction that locks the row it finds with SELECT ... FOR UPDATE;     *)
(* nothing is locked when there is no row, and no column is unique.  Ids   *)
(* are random, so a query by name that takes the first row takes the one   *)
(* with the smallest id, which need not be the oldest.                     *)
(***************************************************************************)
EXTENDS Naturals, FiniteSets, Tables

CONSTANTS
  SsoSessions,    \* clients, each with one request at a time
  Kinds,          \* names of settings: saml_idp, saml_sp
  Contents,       \* what can be stored in a setting
  RowIds          \* ids of rows, numbers: handed out in any order

ASSUME SsoAssumption == RowIds \subseteq Nat /\ IsFiniteSet(RowIds)

VARIABLES
  settings,    \* table settings
  xreq,        \* the upsert each session is in
  latest,      \* content of the last upsert of each kind, if any
  rivals       \* if others inserted a row of the kind during its last upsert: what others wrote meanwhile

ssoVars == <<settings, xreq, latest, rivals>>
-----------------------------------------------------------------------------
Nothing == 0   \* not a content
Setting == [name : Kinds, extend : Contents]
Rows(kind) == {i \in DOMAIN settings : settings[i].name = kind}

(* First orders by primary key. *)
First(ids) == CHOOSE i \in ids : \A j \in ids : i <= j
GetByName(kind) == IF Rows(kind) = {} THEN Nothing ELSE settings[First(Rows(kind))].extend

(* An upsert: its next call and the row it found; of its kind, the rows    *)
(* others have inserted since it looked (new) and what others have written *)
(* since then (rivals).                                                    *)
Upsert(at, kind, content, row) ==
  [at |-> at, kind |-> kind, content |-> content, row |-> row, new |-> {}, rivals |-> {}]
SsoIdle == [at |-> "idle"]
SsoGoes(s, r) == xreq' = [xreq EXCEPT ![s] = r]
SettingLocked(i) == \E s \in SsoSessions : xreq[s].at = "update setting" /\ xreq[s].row = i

SsoInit ==
  /\ settings = <<>>
  /\ xreq = [s \in SsoSessions |-> SsoIdle]
  /\ latest = [k \in Kinds |-> Nothing]
  /\ rivals = [k \in Kinds |-> {}]

SsoCallFails(s) ==
  /\ xreq[s].at # "idle"
  /\ SsoGoes(s, SsoIdle)
  /\ UNCHANGED <<settings, latest, rivals>>

(* The certificate is parsed first, here a good one; then Upsert looks for *)
(* the row ...                                                             *)
MetadataUpsert(s, kind, content) ==
  /\ xreq[s].at = "idle"
  /\ SsoGoes(s, IF Rows(kind) = {} THEN Upsert("insert setting", kind, content, 0)
                ELSE Upsert("lock setting", kind, content, First(Rows(kind))))
  /\ UNCHANGED <<settings, latest, rivals>>

(* ... and waits until nobody else has it locked.  *)
LockSetting(s) ==
  /\ xreq[s].at = "lock setting" /\ ~SettingLocked(xreq[s].row)
  /\ xreq' = [xreq EXCEPT ![s].at = "update setting"]
  /\ UNCHANGED <<settings, latest, rivals>>

(* An upsert commits, and others of its kind are under way. *)
Overtaken(r, rows, content) == [r EXCEPT !.new = @ \cup rows, !.rivals = @ \cup {content}]
Commits(s) ==
  LET r == xreq[s]
      inserted == DOMAIN settings' \ DOMAIN settings
  IN
  /\ latest' = [latest EXCEPT ![r.kind] = r.content]
  /\ rivals' = [rivals EXCEPT ![r.kind] = IF r.new # {} THEN r.rivals ELSE {}]
  /\ xreq' = [t \in SsoSessions |->
                IF t = s THEN SsoIdle
                ELSE IF xreq[t].at # "idle" /\ xreq[t].kind = r.kind THEN Overtaken(xreq[t], inserted, r.content)
                ELSE xreq[t]]

(* If there was none Upsert creates it ... *)
InsertSetting(s) ==
  LET r == xreq[s] IN
  /\ r.at = "insert setting"
  /\ \E i \in RowIds \ DOMAIN settings : settings' = Put(settings, i, [name |-> r.kind, extend |-> r.content])
  /\ Commits(s)

(* Fault seeded for the checks: the update goes by a copy without an id. *)
UpdateSettingOther(s) ==
  /\ xreq[s].at = "update setting"
  /\ \E i \in DOMAIN settings : settings' = [settings EXCEPT ![i].extend = xreq[s].content]
  /\ Commits(s)

(* ... or sets the content of the row it has locked. *)
UpdateSetting(s) ==
  /\ xreq[s].at = "update setting"
  /\ settings' = [settings EXCEPT ![xreq[s].row].extend = xreq[s].content]
  /\ Commits(s)

SsoNext ==
  \E s \in SsoSessions :
    \/ \E k \in Kinds, c \in Contents : MetadataUpsert(s, k, c)
    \/ LockSetting(s) \/ InsertSetting(s) \/ UpdateSetting(s) \/ SsoCallFails(s)

SsoSpec == SsoInit /\ [][SsoNext]_ssoVars
-----------------------------------------------------------------------------
(* Whoever reads a setting reads the content of its last upsert.  Only if  *)
(* others inserted a row of it while that upsert was under way (two first  *)
(* upserts that both find no row leave two rows of one name for good, and  *)
(* the ids decide which one is read) it may be what others wrote during    *)
(* it, never anything older; the next upsert that no insertion overtakes   *)
(* is read again.                                                          *)
SettingIsLatest == \A k \in Kinds : GetByName(k) \in {latest[k]} \cup rivals[k]

(* A further row of one name comes only of an upsert that looked before    *)
(* any of the others was there.                                            *)
RowsDistinct == \A s \in SsoSessions : InsertSetting(s) => Rows(xreq[s].kind) \subseteq xreq[s].new

(* This server's metadata is what the upserts asked for, but for first     *)
(* upserts that overlap.                                                   *)
SettingsExplained == [][RowsDistinct /\ SettingIsLatest']_ssoVars
=============================================================================
