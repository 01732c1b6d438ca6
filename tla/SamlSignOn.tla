----------------------------- MODULE SamlSignOn -----------------------------
(***************************************************************************)
(* A SAML sign-on: a service provider (this software or another) makes a   *)
(* request, and this server answers it as the identity provider.  The      *)
(* handler decodes the request, looks who is signed in, checks the request *)
(* and writes the response.                                                *)
(*                                                                         *)
(* Validate and getACSEndpoint have value receivers: what they find out    *)
(* (the parsed request, the metadata, the endpoint) is lost when they      *)
(* return.  frame is the IdpAuthnRequest of SAMLProtocolSSOAuth, and       *)
(* Validated(frame) the copy that Validate works on.                       *)
(*                                                                         *)
(* Addresses, XML and certificates are abstracted to which of a few they   *)
(* are.  An address has a canonical spelling, which url.Parse and String   *)
(* give, and may be stored in another one.                                 *)
(***************************************************************************)
EXTENDS Integers, Sequences

CONSTANTS
  MaxIssueDelay,   \* saml.MaxIssueDelay: how old a request may be
  MaxClockSkew,    \* saml.MaxClockSkew
  MaxSamlTime      \* bound on the clock

ASSUME SamlAssumption ==
  /\ MaxIssueDelay \in Nat /\ MaxClockSkew \in Nat /\ MaxSamlTime \in Nat
  /\ MaxIssueDelay < MaxClockSkew

VARIABLES
  samlAt,    \* how far the sign-on has come, or how it ended
  clock,
  spRow,     \* the one row of service_provider
  authn,     \* the request on its way
  cookie,    \* what the browser's cookie leads to
  frame      \* the IdpAuthnRequest of the handler

samlVars == <<samlAt, clock, spRow, authn, cookie, frame>>
-----------------------------------------------------------------------------
(* Endpoints of a service provider; 0 is no location and no index. *)
Endpoint(binding, location, index, default) ==
  [binding |-> binding, location |-> location, index |-> index, default |-> default]
NoEndpoint == Endpoint("none", 0, 0, FALSE)
OffersBinding(e) == e.binding \in {"post", "redirect"}
EndpointLists ==
  {<<>>} \cup
  {<<Endpoint(b, l, 1, d)>> : b \in {"post", "redirect", "artifact"}, l \in {1, 2}, d \in BOOLEAN} \cup
  {<<Endpoint(b, 1, 1, FALSE), Endpoint(c, 2, 2, d)>> :
     b \in {"post", "artifact"}, c \in {"post", "redirect", "artifact"}, d \in BOOLEAN}

(* xmlSpSamlGenerate: what this software tells of itself. *)
GeneratedSp == <<Endpoint("post", 1, 1, FALSE)>>

(* A row of service_provider, key and metadata being in its extension: as  *)
(* the hooks write them, under the name of the protocol, or plainly.       *)
SpRowOf(layout, key, endpoints) == [layout |-> layout, key |-> key, endpoints |-> endpoints]

(* AfterFind decodes the whole extension as the settings of the protocol.  *)
AfterFindSp(row) ==
  IF row.layout = "plain" THEN [key |-> row.key, parses |-> TRUE, endpoints |-> row.endpoints]
  ELSE [key |-> "", parses |-> FALSE, endpoints |-> <<>>]

GetByKey(issuer) == AfterFindSp(spRow).key = issuer

(* An AuthnRequest.  own: made by this software; via: the binding.         *)
Authn(own, via, formed, destination, version, issuer, issued, index, url) ==
  [own |-> own, via |-> via, formed |-> formed, destination |-> destination, version |-> version,
   issuer |-> issuer, issued |-> issued, index |-> index, url |-> url]
NoAuthn == Authn(FALSE, "none", FALSE, "", "", "", 0, 0, 0)

(* What others send: anything in one respect.                              *)
OtherRequests ==
  [own : {FALSE}, via : {"post"}, formed : {TRUE}, destination : {"sso"}, version : {"2.0"},
   issuer : {"sp"}, issued : 0..MaxSamlTime, index : 0..3, url : 0..3]
  \cup [own : {FALSE}, via : {"post"}, formed : BOOLEAN, destination : {"", "sso", "elsewhere"},
        version : {"2.0", "1.1"}, issuer : {"", "sp", "stranger"}, issued : {1}, index : {0}, url : {1}]

Frame(now, request, endpoints, acs, assertion) ==
  [now |-> now, request |-> request, endpoints |-> endpoints, acs |-> acs, assertion |-> assertion]
NoFrame == Frame(0, NoAuthn, <<>>, NoEndpoint, FALSE)
-----------------------------------------------------------------------------
SamlInit ==
  /\ samlAt = "begin" /\ clock = 1
  /\ spRow \in {SpRowOf("plain", "sp", es) : es \in EndpointLists} \cup {SpRowOf("hooks", "sp", GeneratedSp)}
  /\ authn = NoAuthn /\ frame = NoFrame
  /\ cookie \in {"none", "invalid", "unknown", "user"}

SamlGoes(next) == samlAt' = next

(* ServiceProviderSsoSamlInitiator: the identity provider, which must be   *)
(* enabled and speak SAML, lists where it takes requests; a redirect is    *)
(* preferred to a form.  The issuer is the endpoint as it is stored.       *)
Initiate(enabled, protocol, lists, issuer) ==
  /\ samlAt = "begin"
  /\ LET via == IF "redirect" \in lists THEN "redirect" ELSE "post"
         destination == IF via \in lists THEN "sso" ELSE ""
     IN IF enabled /\ protocol = "saml"
          THEN /\ authn' = Authn(TRUE, via, TRUE, destination, "2.0", issuer, clock, 0, 1)
               /\ SamlGoes("sent")
          ELSE authn' = authn /\ SamlGoes("refused")
  /\ UNCHANGED <<clock, spRow, cookie, frame>>

ReceiveFromOther(m) ==
  /\ samlAt = "begin" /\ authn' = m /\ SamlGoes("sent")
  /\ UNCHANGED <<clock, spRow, cookie, frame>>

SamlTick ==
  /\ samlAt \in {"sent", "handled", "called"} /\ clock < MaxSamlTime /\ clock' = clock + 1
  /\ UNCHANGED <<samlAt, spRow, authn, cookie, frame>>

(* The route takes forms only; a form whose action is empty stays with the *)
(* browser.                                                                *)
Arrive ==
  /\ samlAt = "sent"
  /\ SamlGoes(IF authn.via = "redirect" THEN "no route"
              ELSE IF authn.destination = "" /\ authn.own THEN "no address" ELSE "handled")
  /\ UNCHANGED <<clock, spRow, authn, cookie, frame>>

(* IdpServeSAMLProtocolSSO: whoever is not signed in is sent to the page   *)
(* for it.  The metadata may be missing or not parse.                      *)
IdpServeSAMLProtocolSSO ==
  /\ samlAt = "handled"
  /\ \/ SamlGoes("no metadata")
     \/ cookie # "user" /\ SamlGoes("to sign in")
     \/ cookie = "user" /\ SamlGoes("called")
  /\ UNCHANGED <<clock, spRow, authn, cookie, frame>>

NewIdpAuthnRequest ==
  /\ samlAt = "called" /\ SamlGoes("validate")
  /\ frame' = Frame(clock, NoAuthn, <<>>, NoEndpoint, FALSE)
  /\ UNCHANGED <<clock, spRow, authn, cookie>>

(* The first endpoint of the first of some selections that is not empty. *)
Least(S) == CHOOSE i \in S : \A j \in S : i <= j
FirstEndpoint(endpoints, selections) ==
  LET met == {k \in DOMAIN selections : selections[k] # {}} IN
  IF met = {} THEN NoEndpoint ELSE endpoints[Least(selections[Least(met)])]

(* The endpoints with the index or the location a request names, and those *)
(* whose binding can be used.                                              *)
ByIndex(request, endpoints) == {i \in DOMAIN endpoints : request.index # 0 /\ endpoints[i].index = request.index}
ByURL(request, endpoints) == {i \in DOMAIN endpoints : request.url # 0 /\ endpoints[i].location = request.url}
Offered(endpoints) == {i \in DOMAIN endpoints : OffersBinding(endpoints[i])}

(* Fault seeded for the checks: any usable endpoint will do when the one   *)
(* that is asked for is not there.                                         *)
getACSEndpointAny(request, endpoints) ==
  FirstEndpoint(endpoints, <<ByIndex(request, endpoints), ByURL(request, endpoints), Offered(endpoints)>>)

(* getACSEndpoint: by index, by location, or, when neither is given, the   *)
(* default one or any, if its binding can be used.                         *)
getACSEndpoint(request, endpoints) ==
  LET any == {i \in Offered(endpoints) : request.index = 0 /\ request.url = 0}
      defaults == {i \in any : endpoints[i].default}
  IN FirstEndpoint(endpoints, <<ByIndex(request, endpoints), ByURL(request, endpoints), defaults, any>>)

(* The copy of a frame that Validate has filled in. *)
Validated(f) ==
  LET sp == AfterFindSp(spRow) IN
  Frame(f.now, authn, sp.endpoints, getACSEndpoint(authn, sp.endpoints), f.assertion)

Passes(v) ==
  /\ v.request.formed
  /\ v.request.destination \in {"", "sso"}
  /\ v.request.issued + MaxIssueDelay >= v.now
  /\ v.request.version = "2.0"
  /\ GetByKey(v.request.issuer) /\ AfterFindSp(spRow).parses
  /\ v.acs # NoEndpoint

ValidateAuthn ==
  /\ samlAt = "validate"
  /\ SamlGoes(IF Passes(Validated(frame)) THEN "write" ELSE "refused")
  /\ UNCHANGED <<clock, spRow, authn, cookie, frame>>

(* WriteResponse, PostBinding, MakeResponse, MakeAssertionEl: assertion    *)
(* and endpoint are dereferenced, and other bindings than POST refused.    *)
WriteResult(f) ==
  IF ~f.assertion \/ f.acs = NoEndpoint THEN "panicked"
  ELSE IF f.acs.binding = "post" THEN "answered" ELSE "refused"

WriteSamlResponse ==
  /\ samlAt = "write" /\ SamlGoes(WriteResult(frame))
  /\ UNCHANGED <<clock, spRow, authn, cookie, frame>>

SamlNext ==
  \/ \E e \in BOOLEAN, p \in {"saml", "oauth2"}, l \in SUBSET {"redirect", "post"}, i \in {"sp", "SP"} :
       Initiate(e, p, l, i)
  \/ \E m \in OtherRequests : ReceiveFromOther(m)
  \/ SamlTick \/ Arrive \/ IdpServeSAMLProtocolSSO \/ NewIdpAuthnRequest \/ ValidateAuthn
  \/ WriteSamlResponse

SamlSpec == SamlInit /\ [][SamlNext]_samlVars
-----------------------------------------------------------------------------
(* MakeAssertion, which nothing calls yet: what an assertion about a       *)
(* request that has passed would say.                                      *)

(* The window of validity. *)
Window(now, issued) ==
  IF now - MaxClockSkew < issued
    THEN [notBefore |-> issued, notOnOrAfter |-> issued + MaxIssueDelay]
    ELSE [notBefore |-> now - MaxClockSkew, notOnOrAfter |-> now + MaxIssueDelay]

(* Attributes, as pairs of a name and a value.  A service asks for names   *)
(* in a format; the ones that are known are answered with what the session *)
(* has, empty or not.  Then come the attributes of the session that are    *)
(* not empty.                                                              *)
Session(name, mail) ==
  [UserName |-> name, UserEmail |-> mail, UserSurname |-> name, UserGivenName |-> name,
   UserCommonName |-> name]
Field ==
  [email |-> "UserEmail", emailaddress |-> "UserEmail", name |-> "UserCommonName",
   cn |-> "UserCommonName", givenname |-> "UserGivenName", surname |-> "UserSurname", uid |-> "UserName"]
Asked(name, format) == [name |-> name, format |-> format]
Service(default, asks) == [default |-> default, asks |-> asks]

(* Fault seeded for the checks: the first service is taken. *)
ConsumingServiceFirst(services) == IF services = <<>> THEN Service(FALSE, <<>>) ELSE services[1]

(* The first default service, or else the first. *)
ConsumingService(services) ==
  LET defaults == {i \in DOMAIN services : services[i].default} IN
  IF services = <<>> THEN Service(FALSE, <<>>) ELSE services[IF defaults = {} THEN 1 ELSE Least(defaults)]

Known(asks) == {i \in DOMAIN asks : asks[i].format \in {"basic", "unspecified"} /\ asks[i].name \in DOMAIN Field}
RequestedAttributes(asks, session) == {<<asks[i].name, session[Field[asks[i].name]]>> : i \in Known(asks)}
NotEmpty(session) == {f \in DOMAIN session : session[f] # ""}
SessionAttributes(session) == {<<f, session[f]>> : f \in NotEmpty(session)}

MakeAssertion(v, services, session) ==
  [attributes |-> RequestedAttributes(ConsumingService(services).asks, session) \cup SessionAttributes(session),
   recipient |-> v.acs.location, audience |-> spRow.key, inResponseTo |-> v.request,
   conditions |-> Window(v.now, v.request.issued), confirmUntil |-> v.now + MaxIssueDelay]

(* getSPEncryptionCert: the first key for encryption; if it is empty, the  *)
(* first one for any use that is not.  A key without certificates is an    *)
(* index out of range in the first loop only.                              *)
KeyDescriptor(use, cert) == [use |-> use, cert |-> cert]
getSPEncryptionCert(keys) ==
  LET first == {i \in DOMAIN keys : keys[i].use = "encryption"}
      other == {i \in DOMAIN keys : keys[i].use = "" /\ keys[i].cert = "good"}
  IN IF first # {} /\ keys[Least(first)].cert # "empty" THEN keys[Least(first)]
     ELSE IF other # {} THEN keys[Least(other)] ELSE KeyDescriptor("", "absent")
-----------------------------------------------------------------------------
(* What services may ask for, and the keys a service provider may list. *)
Asks == {<<>>} \cup {<<a>> : a \in [name : {"email", "uid", "shoe size"}, format : {"basic", "uri"}]}
Services == [default : BOOLEAN, asks : Asks]
Keys == [use : {"encryption", "signing", ""}, cert : {"absent", "empty", "good"}]

(* What reaches WriteResponse was sent to this server, by a service        *)
(* provider that is registered here under its own name, is not older than  *)
(* MaxIssueDelay however long it was on its way, and can be answered where *)
(* it asks: at a registered endpoint that it names by index or location,   *)
(* or, naming none, at one that takes forms or redirects.                  *)
AnswerableOnly ==
  samlAt \in {"write", "panicked", "answered"} =>
    /\ authn.destination # "elsewhere" /\ authn.issuer = spRow.key
    /\ frame.now - authn.issued <= MaxIssueDelay
    /\ \E e \in {spRow.endpoints[i] : i \in DOMAIN spRow.endpoints} :
         IF authn.index = 0 /\ authn.url = 0 THEN OffersBinding(e)
         ELSE authn.index = e.index \/ authn.url = e.location

(* The service provider and the identity provider of this software fit: a  *)
(* form that the one makes and the other, where the first is registered    *)
(* with the metadata it generates, gets in time from someone signed in is  *)
(* not refused, if the endpoint is stored in its canonical spelling.       *)
OwnRequestFits ==
  samlAt = "refused" /\ authn.own =>
    \/ spRow # SpRowOf("plain", "sp", GeneratedSp)
    \/ authn.issuer # spRow.key
    \/ frame.now - authn.issued > MaxIssueDelay

(* Validate of the identity provider refuses what cannot be answered, and  *)
(* takes what the service provider of the same software sends.             *)
RequestsJudged == AnswerableOnly /\ OwnRequestFits

(* An assertion about a request that passed is valid for MaxIssueDelay,    *)
(* from when the request says it was issued: it is valid now unless the    *)
(* service provider's clock is ahead or the time has just run out, and its *)
(* confirmation holds at least as long.  The window of the server's own    *)
(* clock is never the one taken, since MaxIssueDelay < MaxClockSkew.       *)
AssertionWindow ==
  samlAt = "write" =>
    LET a == MakeAssertion(Validated(frame), <<>>, Session("name", ""))
        w == a.conditions
    IN /\ w.notOnOrAfter = w.notBefore + MaxIssueDelay /\ w.notBefore = authn.issued
       /\ authn.issued <= frame.now =>
            /\ w.notBefore <= frame.now /\ a.confirmUntil >= w.notOnOrAfter
            /\ frame.now < w.notOnOrAfter \/ frame.now = authn.issued + MaxIssueDelay
       /\ a.recipient \in {spRow.endpoints[i].location : i \in DOMAIN spRow.endpoints}

(* An assertion answers what the service it is for asks: the default one   *)
(* if there is one, and nothing that only another service asked for.  A    *)
(* value is empty only where it was asked for.                             *)
AnswersWhatIsAsked ==
  samlAt = "write" =>
    \A services \in {<<s>> : s \in Services} \cup (Services \X Services) :
      LET given == MakeAssertion(Validated(frame), services, Session("name", "")).attributes
          names == {a[1] : a \in given}
          default == {s \in {services[i] : i \in DOMAIN services} : s.default}
      IN /\ \A n \in DOMAIN Field : n \in names =>
              \E s \in IF default = {} THEN {services[1]} ELSE default :
                \E i \in DOMAIN s.asks : s.asks[i] = Asked(n, "basic")
         /\ \A n \in DOMAIN Field, f \in {"basic"} :
              (\A i \in DOMAIN services : services[i].asks = <<Asked(n, f)>>) => n \in names
         /\ \A a \in given : a[2] = "" => a[1] = "email"

(* The assertion is encrypted for a key the service provider meant for it: *)
(* never for one that is only for signatures, whatever keys it lists, and  *)
(* it is encrypted if there is a good key for encryption before others.    *)
EncryptedForRightKey ==
  samlAt = "write" =>
    \A keys \in {<<>>} \cup {<<k>> : k \in Keys} \cup (Keys \X Keys) :
      /\ getSPEncryptionCert(keys).use # "signing"
      /\ (\A i \in DOMAIN keys : keys[i].use = "encryption" => keys[i].cert = "good")
         /\ (\E i \in DOMAIN keys : keys[i].use = "encryption")
         => getSPEncryptionCert(keys) = KeyDescriptor("encryption", "good")

(* The assertion fits the request in time, in the attributes it carries    *)
(* and in the key it is encrypted for.                                     *)
AssertionFits == AssertionWindow /\ AnswersWhatIsAsked /\ EncryptedForRightKey
=============================================================================
