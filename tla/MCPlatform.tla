------------------------------ MODULE MCPlatform ------------------------------
(* Small instances of storage backends, tags and groups, single sign-on    *)
(* settings, the HTTP layer and SAML.  They have no state in common, so a  *)
(* behaviour is about one of them.  The number of requests of several      *)
(* steps is bounded.                                                       *)
EXTENDS StorageBackends, AssetGrouping, SsoSettings, HttpApi, SamlSignOn, TLC

CONSTANTS s1, s2, a1, a2, n1, n2, srv, opt, MaxStoreRequests, MaxTagRequests, MaxSsoRequests

VARIABLES
  side,    \* the part the behaviour is about
  begun    \* requests of several steps begun so far

mcVars == <<storeVars, tagVars, ssoVars, httpVars, samlVars, side, begun>>

MCInit ==
  /\ StoreInit /\ TagInit /\ SsoInit /\ HttpInit /\ SamlInit
  /\ side \in {"storage", "tags", "sso", "http", "saml"} /\ begun = 0
  /\ side # "saml" => cookie = "none" /\ spRow = SpRowOf("hooks", "sp", GeneratedSp)

Begins(sessions, before, after) == \E s \in sessions : before[s].at = "idle" /\ after[s].at # "idle"
Count(begins, max) == begun' = begun + (IF begins THEN 1 ELSE 0) /\ begun' <= max

MCNext ==
  /\ UNCHANGED side
  /\ \/ /\ side = "storage" /\ StoreNext /\ Count(Begins(StoreSessions, sreq, sreq'), MaxStoreRequests)
        /\ UNCHANGED <<tagVars, ssoVars, httpVars, samlVars>>
     \/ /\ side = "tags" /\ TagNext /\ Count(Begins(TagSessions, treq, treq'), MaxTagRequests)
        /\ UNCHANGED <<storeVars, ssoVars, httpVars, samlVars>>
     \/ /\ side = "sso" /\ SsoNext /\ Count(Begins(SsoSessions, xreq, xreq'), MaxSsoRequests)
        /\ UNCHANGED <<storeVars, tagVars, httpVars, samlVars>>
     \/ side = "http" /\ HttpNext /\ UNCHANGED <<storeVars, tagVars, ssoVars, samlVars, begun>>
     \/ side = "saml" /\ SamlNext /\ UNCHANGED <<storeVars, tagVars, ssoVars, httpVars, begun>>
MCSpec == MCInit /\ [][MCNext]_mcVars

(* Sessions, directories and names of tags are only compared with each other. *)
Symmetric == Permutations(StoreSessions) \cup Permutations(Homes) \cup Permutations(TagNames)
=============================================================================
