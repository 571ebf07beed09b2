----------------------------- MODULE Apis_proof -----------------------------
(***************************************************************************)
(* Theorems about the two APIs of the homework, for any number of callers: *)
(* MyApi's users, whatever forms are sent, and the table that DbExplorer   *)
(* serves, whatever its columns and whatever bodies are sent.              *)
(***************************************************************************)
EXTENDS MyApi, DbExplorer, SequenceTheorems, FiniteSetTheorems, TLAPS

(***************************************************************************)
(* MyApi.                                                                  *)
(***************************************************************************)
AnyForm == {[none |-> 0]} \cup UNION {Forms[p] : p \in DOMAIN Forms}
Login == {f.login : f \in AnyForm}
Pcs == {"idle", "form", "Profile", "read", "Create", "check", "insert", "end"}
Answers == {"none", "200", "400", "403", "404", "406", "409", "500"}
Request == [pc : Pcs, srv : {"MyApi", "OtherApi"}, func : {"none", "Profile", "Create"},
            form : AnyForm, id : Nat, answer : Answers, seen : SUBSET Login]

UsersTyped ==
  /\ nextID \in Nat /\ 42 < nextID
  /\ \A l \in DOMAIN users : users[l].id \in 42 .. nextID - 1 /\ users[l].status \in {0, 10, 20}

RequestsTyped ==
  /\ api \in [ApiCaller -> Request]
  /\ mu \in [w : ApiCaller \cup {NoWriter}, r : SUBSET ApiCaller]

InCreate == {"Create", "check", "insert"}

(* What a place in a handler says of the request that is there. *)
HandlerTyped(a) ==
  /\ a.pc # "end" => a.answer = "none"
  /\ a.pc = "idle" => a.func = "none"
  /\ a.pc = "form" => a.func # "none"
  /\ a.pc \in InCreate => /\ a.srv = "MyApi" /\ a.func = "Create"
                          /\ a.form.status \in {Unset, "user", "moderator", "admin"}
  /\ a.pc \in {"Profile", "read"} => a.srv = "MyApi" /\ a.func = "Profile"
  /\ a.func = "Profile" => a.srv = "MyApi"
HandlersTyped == \A c \in ApiCaller : HandlerTyped(api[c])

(* Who is past the lock holds it, and what it has read under it is true.   *)
Exclusive ==
  \A c \in ApiCaller :
    /\ api[c].pc \in {"check", "insert"} => mu.w = c
    /\ api[c].pc = "insert" => api[c].id = nextID /\ api[c].form.login \notin DOMAIN users

IdsDiffer == \A k, l \in DOMAIN users : users[k].id = users[l].id => k = l

CreatedStays ==
  \A c \in ApiCaller :
    api[c].srv = "MyApi" /\ api[c].func = "Create" /\ api[c].answer = "200" =>
      /\ api[c].form.login \in DOMAIN users
      /\ users[api[c].form.login] = [id |-> api[c].id, status |-> StatusOf(api[c].form)]

ProfileTrue ==
  \A c \in ApiCaller : 
    /\ api[c].seen \subseteq DOMAIN users
    /\ api[c].func = "Profile" /\ api[c].pc = "end" =>
         /\ api[c].answer = "404" => api[c].form.login \notin api[c].seen
         /\ api[c].answer = "200" => /\ api[c].form.login \in DOMAIN users
                                     /\ users[api[c].form.login].id = api[c].id

ApiIInv == /\ UsersTyped /\ RequestsTyped /\ HandlersTyped /\ Exclusive
           /\ IdsDiffer /\ CreatedStays /\ ProfileTrue

(* When one request moves, only that one has to be looked at.              *)
LEMMA OneRequestMoves ==
  ASSUME HandlersTyped, NEW c \in ApiCaller,
         \A d \in ApiCaller \ {c} : api'[d] = api[d],
         HandlerTyped(api'[c])
  PROVE  HandlersTyped'
<1> SUFFICES ASSUME NEW d \in ApiCaller PROVE HandlerTyped(api'[d])
  BY DEF HandlersTyped
<1>1. CASE d = c
  BY <1>1
<1>2. CASE d # c
  <2>1. api'[d] = api[d]
    BY <1>2
  <2> QED
    BY <2>1 DEF HandlersTyped
<1> QED
  BY <1>1, <1>2

LEMMA Routes ==
  ASSUME NEW r
  PROVE  /\ MyApiServeHTTP(r) \in {"404", "406", "403", "Profile", "Create"}
         /\ OtherApiServeHTTP(r) \in {"404", "406", "403", "Create"}
<1>0. /\ \A m \in Methods : m.func \in {"Profile", "Create"}
      /\ \A m \in Methods : m.recv = "OtherApi" => m.func = "Create"
  <2> DEFINE profile == Method("MyApi", "Profile", Api("/user/profile", FALSE, ""))
             create == Method("MyApi", "Create", Api("/user/create", TRUE, "POST"))
             other == Method("OtherApi", "Create", Api("/user/create", TRUE, "POST"))
  <2>1. /\ profile.func = "Profile" /\ profile.recv = "MyApi"
        /\ create.func = "Create" /\ other.func = "Create"
    BY DEF Method
  <2>2. Methods = {profile, create, other}
    BY DEF Methods
  <2> HIDE DEF profile, create, other
  <2> QED
    BY <2>1, <2>2
<1>1. \A m \in tmpls(Methods, "MyApi") : m.func \in {"Profile", "Create"}
  BY <1>0 DEF tmpls
<1>2. \A m \in tmpls(Methods, "OtherApi") : m.func = "Create"
  BY <1>0 DEF tmpls
<1>3. ASSUME NEW apis, NEW funcs, \A m \in apis : m.func \in funcs
      PROVE  ServeHTTP(apis, r) \in {"404", "406", "403"} \cup funcs
  <2> DEFINE cases == {m \in apis : m.api.url = r.path}
             m == CHOOSE c \in cases : TRUE
  <2>1. CASE cases = {}
    BY <2>1 DEF ServeHTTP
  <2>2. CASE cases # {}
    <3>1. m \in cases /\ m.func \in funcs
      BY <1>3, <2>2
    <3> HIDE DEF m
    <3>2. ServeHTTP(apis, r) =
            CASE cases = {} -> "404"
              [] cases # {} /\ m.api.method \notin {"", r.method} -> "406"
              [] cases # {} /\ m.api.method \in {"", r.method} /\ m.api.auth /\ ~r.auth -> "403"
              [] OTHER -> m.func
      BY DEF ServeHTTP, m
    <3> QED
      BY <2>2, <3>1, <3>2
  <2> QED
    BY <2>1, <2>2
<1>4. MyApiServeHTTP(r) \in {"404", "406", "403"} \cup {"Profile", "Create"}
  BY <1>1, <1>3 DEF MyApiServeHTTP
<1>5. OtherApiServeHTTP(r) \in {"404", "406", "403"} \cup {"Create"}
  BY <1>2, <1>3 DEF OtherApiServeHTTP
<1> QED
  BY <1>4, <1>5

LEMMA InitApiIInv == ApiInit => ApiIInv
<1> SUFFICES ASSUME ApiInit PROVE ApiIInv
  OBVIOUS
<1>1. DOMAIN users = {"rvasily"} /\ users["rvasily"] = [id |-> 42, status |-> 20] /\ nextID = 43
  BY DEF ApiInit
<1>2. UsersTyped /\ IdsDiffer
  BY <1>1 DEF UsersTyped, IdsDiffer
<1>3. \A c \in ApiCaller :
        /\ api[c] \in Request
        /\ api[c].pc = "idle" /\ api[c].func = "none" /\ api[c].answer = "none" /\ api[c].seen = {}
  <2>1. [none |-> 0] \in AnyForm
    BY DEF AnyForm
  <2> QED
    BY <2>1 DEF ApiInit, Request, Pcs, Answers
<1>4. RequestsTyped
  BY <1>3 DEF ApiInit, RequestsTyped
<1>5. HandlersTyped /\ Exclusive /\ CreatedStays /\ ProfileTrue
  BY <1>3 DEF HandlersTyped, HandlerTyped, InCreate, Exclusive, CreatedStays, ProfileTrue
<1> QED
  BY <1>2, <1>4, <1>5 DEF ApiIInv

(* What all that reads of a request, when caller c answers or moves.       *)
LEMMA EndIs ==
  ASSUME api \in [ApiCaller -> Request], NEW c \in ApiCaller, NEW answer \in Answers, End(c, answer)
  PROVE  /\ api' \in [ApiCaller -> Request]
         /\ \A d \in ApiCaller \ {c} : api'[d] = api[d]
         /\ api'[c] = [api[c] EXCEPT !.pc = "end", !.answer = answer]
         /\ api'[c].pc = "end" /\ api'[c].answer = answer /\ api'[c].srv = api[c].srv
         /\ api'[c].func = api[c].func /\ api'[c].form = api[c].form /\ api'[c].id = api[c].id
         /\ api'[c].seen = api[c].seen
<1>1. api' = [api EXCEPT ![c] = [api[c] EXCEPT !.pc = "end", !.answer = answer]]
  BY DEF End
<1>2. api[c] \in Request
  OBVIOUS
<1>3. [api[c] EXCEPT !.pc = "end", !.answer = answer] \in Request
  BY <1>2 DEF Request, Pcs
<1> QED
  BY <1>1, <1>2, <1>3 DEF Request

LEMMA MoveIs ==
  ASSUME api \in [ApiCaller -> Request], NEW c \in ApiCaller, NEW pc \in Pcs,
         api' = [api EXCEPT ![c].pc = pc]
  PROVE  /\ api' \in [ApiCaller -> Request]
         /\ \A d \in ApiCaller \ {c} : api'[d] = api[d]
         /\ api'[c].pc = pc /\ api'[c].answer = api[c].answer /\ api'[c].srv = api[c].srv
         /\ api'[c].func = api[c].func /\ api'[c].form = api[c].form /\ api'[c].id = api[c].id
         /\ api'[c].seen = api[c].seen
<1>1. api[c] \in Request
  OBVIOUS
<1>2. [api[c] EXCEPT !.pc = pc] \in Request
  BY <1>1 DEF Request
<1> QED
  BY <1>1, <1>2 DEF Request

LEMMA NobodyElseMoves ==
  ASSUME ApiIInv, UNCHANGED <<users, nextID, mu>>, NEW c \in ApiCaller,
         api' \in [ApiCaller -> Request],
         \A d \in ApiCaller \ {c} : api'[d] = api[d],
         api'[c].pc \in {"form", "Profile", "Create", "end"},
         api'[c].pc # "end" => api'[c].answer = "none" /\ api'[c].func # "none",
         api'[c].pc = "Create" =>
           /\ api'[c].srv = "MyApi" /\ api'[c].func = "Create"
           /\ api'[c].form.status \in {Unset, "user", "moderator", "admin"},
         api'[c].pc = "Profile" => api'[c].func = "Profile",
         api'[c].func = "Profile" => api'[c].srv = "MyApi",
         api'[c].srv = "MyApi" => api'[c].answer # "200",
         api'[c].answer = "404" => api'[c].func # "Profile",
         api'[c].func = "Profile" => api'[c].answer # "200",
         api'[c].seen \subseteq DOMAIN users
  PROVE  ApiIInv'
<1>1. UsersTyped' /\ IdsDiffer'
  BY DEF ApiIInv, UsersTyped, IdsDiffer
<1>2. RequestsTyped'
  BY DEF ApiIInv, RequestsTyped
<1>3. HandlersTyped'
  <2>1. HandlerTyped(api'[c])
    BY DEF HandlerTyped, InCreate
  <2> QED
    BY <2>1, OneRequestMoves DEF ApiIInv
<1>4. Exclusive'
  BY DEF ApiIInv, Exclusive
<1>5. CreatedStays'
  BY DEF ApiIInv, CreatedStays, StatusOf
<1>6. ProfileTrue'
  BY DEF ApiIInv, ProfileTrue
<1> QED
  BY <1>1, <1>2, <1>3, <1>4, <1>5, <1>6 DEF ApiIInv

(* A request is turned away or asked of a handler, with a form that is     *)
(* sent to that handler.                                                   *)
LEMMA ServeIs ==
  ASSUME NEW c \in ApiCaller, Serve(c)
  PROVE  \E srv \in {"MyApi", "OtherApi"}, to \in {"404", "406", "403", "Profile", "Create"} :
           /\ srv = "OtherApi" => to # "Profile"
           /\ IF to \in {"404", "406", "403"}
              THEN End(c, to)
              ELSE \E form \in Forms[Params(srv, to)] :
                     api' = [api EXCEPT ![c] = [@ EXCEPT !.pc = "form", !.srv = srv, !.func = to,
                                                         !.form = form, !.seen = CreatedBefore]]
<1>1. PICK srv \in {"MyApi", "OtherApi"}, auth \in BOOLEAN, method \in {"GET", "POST"},
           path \in {"/user/profile", "/user/create", "/user/"} :
       LET r == [path |-> path, auth |-> auth, method |-> method]
           to == IF srv = "MyApi" THEN MyApiServeHTTP(r) ELSE OtherApiServeHTTP(r)
       IN  IF to \in {"404", "406", "403"}
           THEN End(c, to)
           ELSE \E form \in Forms[Params(srv, to)] :
                  api' = [api EXCEPT ![c] = [@ EXCEPT !.pc = "form", !.srv = srv, !.func = to,
                                                      !.form = form, !.seen = CreatedBefore]]
  BY DEF Serve
<1> DEFINE r == [path |-> path, auth |-> auth, method |-> method]
           to == IF srv = "MyApi" THEN MyApiServeHTTP(r) ELSE OtherApiServeHTTP(r)
<1>2. IF to \in {"404", "406", "403"}
      THEN End(c, to)
      ELSE \E form \in Forms[Params(srv, to)] :
             api' = [api EXCEPT ![c] = [@ EXCEPT !.pc = "form", !.srv = srv, !.func = to,
                                                 !.form = form, !.seen = CreatedBefore]]
  BY <1>1
<1>3. /\ to \in {"404", "406", "403", "Profile", "Create"}
      /\ srv = "OtherApi" => to # "Profile"
  BY Routes
<1> HIDE DEF to
<1> QED
  BY <1>2, <1>3

LEMMA ServeKeeps == ASSUME ApiIInv, NEW c \in ApiCaller, Serve(c) PROVE ApiIInv'
<1>t. /\ api \in [ApiCaller -> Request] /\ api[c].pc = "idle" /\ api[c].answer = "none"
      /\ UNCHANGED <<users, nextID, mu>>
      /\ api[c].seen \subseteq DOMAIN users /\ api[c].func = "none"
  BY DEF Serve, ApiAt, ApiIInv, RequestsTyped, HandlersTyped, HandlerTyped, ProfileTrue
<1>0. PICK srv \in {"MyApi", "OtherApi"}, to \in {"404", "406", "403", "Profile", "Create"} :
        /\ srv = "OtherApi" => to # "Profile"
        /\ IF to \in {"404", "406", "403"}
           THEN End(c, to)
           ELSE \E form \in Forms[Params(srv, to)] :
                  api' = [api EXCEPT ![c] = [@ EXCEPT !.pc = "form", !.srv = srv, !.func = to,
                                                      !.form = form, !.seen = CreatedBefore]]
  BY ServeIs
<1>1. IF to \in {"404", "406", "403"}
      THEN End(c, to)
      ELSE \E form \in Forms[Params(srv, to)] :
             api' = [api EXCEPT ![c] = [@ EXCEPT !.pc = "form", !.srv = srv, !.func = to,
                                                 !.form = form, !.seen = CreatedBefore]]
  BY <1>0
<1>2. /\ to \in {"404", "406", "403", "Profile", "Create"}
      /\ srv = "OtherApi" => to # "Profile"
  BY <1>0
<1>3. CASE to \in {"404", "406", "403"}
  <2>1. to \in Answers /\ End(c, to)
    BY <1>1, <1>3 DEF Answers
  <2>2. to # "200" /\ to # "none"
    BY <1>3
  <2> QED
    BY <1>t, <2>1, <2>2, EndIs, NobodyElseMoves
<1>4. CASE to \in {"Profile", "Create"}
  <2>1. PICK form \in Forms[Params(srv, to)] :
          api' = [api EXCEPT ![c] = [api[c] EXCEPT !.pc = "form", !.srv = srv, !.func = to,
                                                   !.form = form, !.seen = CreatedBefore]]
    BY <1>1, <1>4
  <2>2. form \in AnyForm
    <3>1. Params(srv, to) \in DOMAIN Forms
      BY ApiAssumption DEF Params
    <3> QED
      BY <3>1 DEF AnyForm
  <2>3. CreatedBefore \subseteq DOMAIN users
    BY DEF CreatedBefore, ApiIInv, CreatedStays
  <2>4. CreatedBefore \subseteq Login
    BY <1>t DEF CreatedBefore, Login, Request
  <2> DEFINE asked == [api[c] EXCEPT !.pc = "form", !.srv = srv, !.func = to,
                                     !.form = form, !.seen = CreatedBefore]
  <2>5. /\ asked \in Request
        /\ asked.pc = "form" /\ asked.srv = srv /\ asked.func = to /\ asked.seen = CreatedBefore
        /\ asked.answer = "none"
    <3>1. api[c] \in Request
      BY <1>t
    <3> QED
      BY <1>t, <1>4, <2>2, <2>4, <3>1 DEF Request, Pcs
  <2> HIDE DEF asked
  <2>6. api' = [api EXCEPT ![c] = asked]
    BY <2>1 DEF asked
  <2>7. /\ api' \in [ApiCaller -> Request] /\ api'[c] = asked
        /\ \A d \in ApiCaller \ {c} : api'[d] = api[d]
    BY <1>t, <2>5, <2>6
  <2> QED
    BY <1>t, <1>2, <2>3, <2>5, <2>7, NobodyElseMoves
<1> QED
  BY <1>2, <1>3, <1>4

LEMMA ValidateFormKeeps == ASSUME ApiIInv, NEW c \in ApiCaller, ValidateForm(c) PROVE ApiIInv'
<1>t. /\ api \in [ApiCaller -> Request] /\ api[c].pc = "form" /\ api[c].answer = "none"
      /\ UNCHANGED <<users, nextID, mu>>
      /\ api[c].seen \subseteq DOMAIN users
      /\ api[c].func = "Profile" => api[c].srv = "MyApi"
      /\ api[c].srv \in {"MyApi", "OtherApi"} /\ api[c].func \in {"none", "Profile", "Create"}
  BY DEF ValidateForm, ApiAt, ApiIInv, RequestsTyped, HandlersTyped, HandlerTyped, ProfileTrue, Request
<1>1. \/ End(c, "400") \/ End(c, "500")
      \/ api[c].srv = "OtherApi" /\ End(c, "200")
      \/ /\ Validate(Params(api[c].srv, api[c].func), api[c].form)
         /\ api[c].srv = "MyApi" /\ api' = [api EXCEPT ![c].pc = api[c].func]
  BY <1>t DEF ValidateForm
<1>2. CASE End(c, "400") \/ End(c, "500")
  <2>1. PICK answer \in {"400", "500"} : End(c, answer)
    BY <1>2
  <2>2. answer \in Answers /\ answer \notin {"none", "200", "404"}
    BY <2>1 DEF Answers
  <2>3. /\ api' \in [ApiCaller -> Request] /\ \A d \in ApiCaller \ {c} : api'[d] = api[d]
        /\ api'[c].pc = "end" /\ api'[c].answer = answer /\ api'[c].srv = api[c].srv
        /\ api'[c].func = api[c].func /\ api'[c].seen = api[c].seen
    BY <1>t, <2>1, <2>2, EndIs
  <2> QED
    BY <1>t, <2>2, <2>3, NobodyElseMoves
<1>3. CASE api[c].srv = "OtherApi" /\ End(c, "200")
  <2>1. "200" \in Answers
    BY DEF Answers
  <2> QED
    BY <1>t, <1>3, <2>1, EndIs, NobodyElseMoves
<1>4. CASE /\ Validate(Params(api[c].srv, api[c].func), api[c].form)
           /\ api[c].srv = "MyApi" /\ api' = [api EXCEPT ![c].pc = api[c].func]
  <2>1. api[c].func # "none"
    BY <1>t DEF ApiIInv, HandlersTyped, HandlerTyped
  <2>2. api[c].func = "Create" => api[c].form.status \in {Unset, "user", "moderator", "admin"}
    BY <1>4 DEF Validate, Params, validateCreateParams
  <2>3. api[c].func \in Pcs
    BY <1>t, <2>1 DEF Pcs
  <2>4. /\ api' \in [ApiCaller -> Request] /\ \A d \in ApiCaller \ {c} : api'[d] = api[d]
        /\ api'[c].pc = api[c].func /\ api'[c].answer = "none" /\ api'[c].srv = "MyApi"
        /\ api'[c].func = api[c].func /\ api'[c].seen = api[c].seen
        /\ api'[c].form = api[c].form
    BY <1>t, <1>4, <2>3, MoveIs
  <2> QED
    BY <1>t, <2>1, <2>2, <2>4, NobodyElseMoves
<1> QED
  BY <1>1, <1>2, <1>3, <1>4

(* Caller c takes or leaves the mutex and goes on in its handler.          *)
LEMMA HandlerMoves ==
  ASSUME ApiIInv, UNCHANGED <<users, nextID>>, NEW c \in ApiCaller,
         api' \in [ApiCaller -> Request],
         \A d \in ApiCaller \ {c} : api'[d] = api[d],
         api'[c].srv = api[c].srv, api'[c].func = api[c].func, api'[c].form = api[c].form,
         api'[c].seen = api[c].seen, RequestsTyped', HandlersTyped', Exclusive',
         api'[c].answer = "200" => api'[c].func = "Profile",
         api'[c].func = "Profile" /\ api'[c].pc = "end" =>
           /\ api'[c].answer = "404" => api'[c].form.login \notin api'[c].seen
           /\ api'[c].answer = "200" => /\ api'[c].form.login \in DOMAIN users
                                        /\ users[api'[c].form.login].id = api'[c].id
  PROVE  ApiIInv'
<1>1. UsersTyped' /\ IdsDiffer'
  BY DEF ApiIInv, UsersTyped, IdsDiffer
<1>2. CreatedStays'
  BY DEF ApiIInv, CreatedStays, StatusOf
<1>3. ProfileTrue'
  BY DEF ApiIInv, ProfileTrue
<1> QED
  BY <1>1, <1>2, <1>3 DEF ApiIInv

LEMMA RLockKeeps == ASSUME ApiIInv, NEW c \in ApiCaller, RLock(c) PROVE ApiIInv'
<1>1. /\ api \in [ApiCaller -> Request] /\ api[c].pc = "Profile" /\ mu.w = NoWriter
      /\ api' = [api EXCEPT ![c].pc = "read"] /\ UNCHANGED <<users, nextID>>
      /\ mu' = [mu EXCEPT !.r = @ \cup {c}] /\ api[c].answer = "none" /\ api[c].func = "Profile"
      /\ api[c].srv = "MyApi"
  BY DEF RLock, ApiAt, ApiIInv, RequestsTyped, HandlersTyped, HandlerTyped
<1>2. "read" \in Pcs
  BY DEF Pcs
<1>3. /\ api' \in [ApiCaller -> Request] /\ \A d \in ApiCaller \ {c} : api'[d] = api[d]
      /\ api'[c].pc = "read" /\ api'[c].answer = "none" /\ api'[c].srv = api[c].srv
      /\ api'[c].func = "Profile" /\ api'[c].form = api[c].form /\ api'[c].seen = api[c].seen
  BY <1>1, <1>2, MoveIs
<1>4. RequestsTyped' /\ mu'.w = mu.w
  BY <1>1, <1>3 DEF ApiIInv, RequestsTyped
<1>5. HandlersTyped'
  <2>1. HandlerTyped(api'[c])
    BY <1>1, <1>3 DEF HandlerTyped, InCreate
  <2> QED
    BY <1>3, <2>1, OneRequestMoves DEF ApiIInv
<1>6. Exclusive'
  BY <1>1, <1>3, <1>4 DEF ApiIInv, Exclusive
<1> QED
  BY <1>1, <1>3, <1>4, <1>5, <1>6, HandlerMoves

LEMMA ProfileKeeps == ASSUME ApiIInv, NEW c \in ApiCaller, Profile(c) PROVE ApiIInv'
<1> DEFINE login == api[c].form.login
<1>1. /\ api \in [ApiCaller -> Request] /\ api[c].pc = "read" /\ UNCHANGED <<users, nextID>>
      /\ mu' = [mu EXCEPT !.r = @ \ {c}] /\ api[c].func = "Profile" /\ api[c].srv = "MyApi"
      /\ api[c].seen \subseteq DOMAIN users
  BY DEF Profile, ApiAt, ApiIInv, RequestsTyped, HandlersTyped, HandlerTyped, ProfileTrue
<1>2. mu'.w = mu.w /\ mu' \in [w : ApiCaller \cup {NoWriter}, r : SUBSET ApiCaller]
  BY <1>1 DEF ApiIInv, RequestsTyped
<1>3. /\ api' \in [ApiCaller -> Request] /\ \A d \in ApiCaller \ {c} : api'[d] = api[d]
      /\ api'[c].pc = "end" /\ api'[c].srv = "MyApi" /\ api'[c].func = "Profile"
      /\ api'[c].form = api[c].form /\ api'[c].seen = api[c].seen
      /\ \/ api'[c].answer = "404" /\ login \notin DOMAIN users
         \/ api'[c].answer = "200" /\ login \in DOMAIN users /\ users[login].id = api'[c].id
  <2>1. CASE Exists(login)
    <3>1. users[login].id \in Nat /\ login \in DOMAIN users
      BY <2>1 DEF Exists, ApiIInv, UsersTyped
    <3> DEFINE found == [api[c] EXCEPT !.pc = "end", !.answer = "200", !.id = users[login].id]
    <3>2. api' = [api EXCEPT ![c] = found]
      BY <2>1 DEF Profile
    <3>3. /\ found \in Request /\ found.pc = "end" /\ found.srv = "MyApi" /\ found.func = "Profile"
          /\ found.form = api[c].form /\ found.seen = api[c].seen
          /\ found.answer = "200" /\ found.id = users[login].id
      <4>1. api[c] \in Request
        BY <1>1
      <4> QED
        BY <1>1, <3>1, <4>1 DEF Request, Pcs, Answers
    <3> HIDE DEF found
    <3>4. api'[c] = found /\ api' \in [ApiCaller -> Request] /\ \A d \in ApiCaller \ {c} : api'[d] = api[d]
      BY <1>1, <3>2, <3>3
    <3> QED
      BY <3>1, <3>3, <3>4
  <2>2. CASE ~Exists(login)
    <3>1. End(c, "404") /\ "404" \in Answers
      BY <2>2 DEF Profile, Answers
    <3> QED
      BY <1>1, <2>2, <3>1, EndIs DEF Exists
  <2> QED
    BY <2>1, <2>2
<1>4. RequestsTyped'
  BY <1>2, <1>3 DEF RequestsTyped
<1>5. HandlersTyped'
  <2>1. HandlerTyped(api'[c])
    BY <1>3 DEF HandlerTyped, InCreate
  <2> QED
    BY <1>3, <2>1, OneRequestMoves DEF ApiIInv
<1>6. Exclusive'
  BY <1>1, <1>2, <1>3 DEF ApiIInv, Exclusive
<1> QED
  BY <1>1, <1>3, <1>4, <1>5, <1>6, HandlerMoves

LEMMA LockKeeps == ASSUME ApiIInv, NEW c \in ApiCaller, Lock(c) PROVE ApiIInv'
<1>1. /\ api \in [ApiCaller -> Request] /\ api[c].pc = "Create" /\ mu.w = NoWriter
      /\ api' = [api EXCEPT ![c].pc = "check"] /\ UNCHANGED <<users, nextID>>
      /\ mu' = [mu EXCEPT !.w = c] /\ api[c].answer = "none"
      /\ api[c].srv = "MyApi" /\ api[c].func = "Create"
      /\ api[c].form.status \in {Unset, "user", "moderator", "admin"}
  BY DEF Lock, NobodyIn, ApiAt, ApiIInv, RequestsTyped, HandlersTyped, HandlerTyped, InCreate
<1>2. "check" \in Pcs
  BY DEF Pcs
<1>3. /\ api' \in [ApiCaller -> Request] /\ \A d \in ApiCaller \ {c} : api'[d] = api[d]
      /\ api'[c].pc = "check" /\ api'[c].answer = "none" /\ api'[c].srv = "MyApi"
      /\ api'[c].func = "Create" /\ api'[c].form = api[c].form /\ api'[c].seen = api[c].seen
  BY <1>1, <1>2, MoveIs
<1>4. RequestsTyped' /\ mu'.w = c
  BY <1>1, <1>3 DEF ApiIInv, RequestsTyped
<1>5. HandlersTyped'
  <2>1. HandlerTyped(api'[c])
    BY <1>1, <1>3 DEF HandlerTyped, InCreate
  <2> QED
    BY <1>3, <2>1, OneRequestMoves DEF ApiIInv
<1>6. Exclusive'
  BY <1>1, <1>3, <1>4, ApiAssumption DEF ApiIInv, Exclusive
<1> QED
  BY <1>1, <1>3, <1>4, <1>5, <1>6, HandlerMoves

LEMMA CheckExistsKeeps == ASSUME ApiIInv, NEW c \in ApiCaller, CheckExists(c) PROVE ApiIInv'
<1>1. /\ api \in [ApiCaller -> Request] /\ api[c].pc = "check" /\ api[c].answer = "none"
      /\ UNCHANGED <<users, nextID>> /\ mu.w = c /\ nextID \in Nat
      /\ api[c].srv = "MyApi" /\ api[c].func = "Create"
      /\ api[c].form.status \in {Unset, "user", "moderator", "admin"}
  BY DEF CheckExists, ApiAt, ApiIInv, UsersTyped, RequestsTyped, HandlersTyped, HandlerTyped, InCreate, Exclusive
<1>a. \A d \in ApiCaller \ {c} : api[d].pc \notin {"check", "insert"}
  BY <1>1 DEF ApiIInv, Exclusive
<1>2. CASE Exists(api[c].form.login)
  <2>1. End(c, "409") /\ mu' = [mu EXCEPT !.w = NoWriter] /\ "409" \in Answers
    BY <1>2 DEF CheckExists, Unlocked, Answers
  <2>2. /\ api' \in [ApiCaller -> Request] /\ \A d \in ApiCaller \ {c} : api'[d] = api[d]
        /\ api'[c].pc = "end" /\ api'[c].answer = "409" /\ api'[c].srv = "MyApi"
        /\ api'[c].func = "Create" /\ api'[c].form = api[c].form /\ api'[c].seen = api[c].seen
    BY <1>1, <2>1, EndIs
  <2>3. RequestsTyped'
    BY <2>1, <2>2 DEF ApiIInv, RequestsTyped
  <2>4. HandlersTyped'
    <3>1. HandlerTyped(api'[c])
      BY <2>2 DEF HandlerTyped, InCreate
    <3> QED
      BY <2>2, <3>1, OneRequestMoves DEF ApiIInv
  <2>5. Exclusive'
    BY <1>a, <2>2 DEF Exclusive
  <2> QED
    BY <1>1, <2>2, <2>3, <2>4, <2>5, HandlerMoves
<1>3. CASE ~Exists(api[c].form.login)
  <2> DEFINE free == [api[c] EXCEPT !.pc = "insert", !.id = nextID]
  <2>1. api' = [api EXCEPT ![c] = free] /\ mu' = mu /\ api[c].form.login \notin DOMAIN users
    BY <1>3 DEF CheckExists, Exists
  <2>2. /\ free \in Request /\ free.pc = "insert" /\ free.id = nextID /\ free.answer = "none"
        /\ free.srv = "MyApi" /\ free.func = "Create" /\ free.form = api[c].form
        /\ free.seen = api[c].seen /\ free.form.status \in {Unset, "user", "moderator", "admin"}
    <3>1. api[c] \in Request
      BY <1>1
    <3> QED
      BY <1>1, <3>1 DEF Request, Pcs
  <2> HIDE DEF free
  <2>3. /\ api' \in [ApiCaller -> Request] /\ api'[c] = free
        /\ \A d \in ApiCaller \ {c} : api'[d] = api[d]
    BY <1>1, <2>1, <2>2
  <2>4. RequestsTyped'
    BY <2>1, <2>3 DEF ApiIInv, RequestsTyped
  <2>a. /\ api'[c].pc = "insert" /\ api'[c].answer = "none" /\ api'[c].srv = "MyApi"
        /\ api'[c].func = "Create" /\ api'[c].form = api[c].form /\ api'[c].seen = api[c].seen
        /\ api'[c].form.status \in {Unset, "user", "moderator", "admin"}
    BY <2>2, <2>3
  <2>5. HandlersTyped'
    <3>1. HandlerTyped(api'[c])
      BY <2>a DEF HandlerTyped
    <3> QED
      BY <2>3, <3>1, OneRequestMoves DEF ApiIInv
  <2>6. Exclusive'
    BY <1>1, <2>1, <2>2, <2>3 DEF ApiIInv, Exclusive
  <2> QED
    BY <1>1, <2>3, <2>4, <2>5, <2>6, <2>a, HandlerMoves
<1> QED
  BY <1>2, <1>3

LEMMA InsertKeeps == ASSUME ApiIInv, NEW c \in ApiCaller, Insert(c) PROVE ApiIInv'
<1> DEFINE login == api[c].form.login
           user == [id |-> nextID, status |-> StatusOf(api[c].form)]
<1>1. /\ api \in [ApiCaller -> Request] /\ api[c].pc = "insert" /\ api[c].id = nextID
      /\ nextID \in Nat /\ 42 < nextID /\ login \notin DOMAIN users /\ mu.w = c
      /\ api[c].srv = "MyApi" /\ api[c].func = "Create"
      /\ api[c].form.status \in {Unset, "user", "moderator", "admin"}
  BY DEF Insert, ApiAt, ApiIInv, UsersTyped, RequestsTyped, HandlersTyped, HandlerTyped, InCreate, Exclusive
<1>n. nextID \in Nat /\ 42 < nextID
  BY DEF ApiIInv, UsersTyped
<1>2. /\ nextID' = nextID + 1 /\ mu' = [mu EXCEPT !.w = NoWriter]
      /\ users' = [l \in DOMAIN users \cup {login} |-> IF l = login THEN user ELSE users[l]]
      /\ End(c, "200") /\ "200" \in Answers
  BY <1>1 DEF Insert, FollowingID, Unlocked, Answers
<1>3. /\ api' \in [ApiCaller -> Request] /\ \A d \in ApiCaller \ {c} : api'[d] = api[d]
      /\ api'[c].pc = "end" /\ api'[c].answer = "200" /\ api'[c].srv = "MyApi"
      /\ api'[c].func = "Create" /\ api'[c].form = api[c].form /\ api'[c].id = nextID
      /\ api'[c].seen = api[c].seen
  BY <1>1, <1>2, EndIs
<1>4. user.id = nextID /\ user.status \in {0, 10, 20}
  <2>1. StatusOf(api[c].form) \in {0, 10, 20}
    <3>1. api[c].form.status \in {Unset, "user", "moderator", "admin"}
      BY <1>1
    <3>2. Status["user"] = 0 /\ Status["moderator"] = 10 /\ Status["admin"] = 20
      BY DEF Status
    <3>3. StatusOf(api[c].form) \in {Status["user"], Status["moderator"], Status["admin"]}
      BY <3>1 DEF StatusOf
    <3> QED
      BY <3>2, <3>3
  <2> QED
    BY <2>1
<1>5. DOMAIN users' = DOMAIN users \cup {login} /\ users'[login] = user
  BY <1>2
<1>6. \A l \in DOMAIN users : users'[l] = users[l]
  BY <1>1, <1>2
<1>7. \A l \in DOMAIN users : users[l].id \in 42 .. nextID - 1 /\ users[l].status \in {0, 10, 20}
  BY DEF ApiIInv, UsersTyped
<1>8. user = [id |-> api'[c].id, status |-> StatusOf(api'[c].form)]
  BY <1>3
<1> HIDE DEF user, login
<1>9. UsersTyped'
  <2>1. nextID' \in Nat /\ 42 < nextID' /\ 42 .. nextID - 1 \subseteq 42 .. nextID' - 1
        /\ nextID \in 42 .. nextID' - 1
    <3>1. nextID' = nextID + 1
      BY <1>2
    <3> QED
      BY <1>n, <3>1
  <2> QED
    BY <1>4, <1>5, <1>6, <1>7, <2>1 DEF UsersTyped
<1>10. IdsDiffer'
  <2>1. nextID \notin 42 .. nextID - 1
    BY <1>n
  <2>2. \A l \in DOMAIN users : users'[l].id # users'[login].id
    BY <1>4, <1>5, <1>6, <1>7, <2>1
  <2> QED
    BY <1>5, <1>6, <2>2 DEF ApiIInv, IdsDiffer
<1>11. RequestsTyped'
  BY <1>2, <1>3 DEF ApiIInv, RequestsTyped
<1>12. HandlersTyped'
  <2>1. HandlerTyped(api'[c])
    BY <1>3 DEF HandlerTyped, InCreate
  <2> QED
    BY <1>3, <2>1, OneRequestMoves DEF ApiIInv
<1>13. Exclusive'
  <2>1. \A d \in ApiCaller \ {c} : api[d].pc \notin {"check", "insert"}
    BY <1>1 DEF ApiIInv, Exclusive
  <2> QED
    BY <1>3, <2>1 DEF Exclusive
<1>14. CreatedStays'
  <2>1. \A d \in ApiCaller \ {c} :
          api[d].srv = "MyApi" /\ api[d].func = "Create" /\ api[d].answer = "200" =>
            /\ api[d].form.login \in DOMAIN users'
            /\ users'[api[d].form.login] = [id |-> api[d].id, status |-> StatusOf(api[d].form)]
    BY <1>5, <1>6 DEF ApiIInv, CreatedStays
  <2>2. \A d \in ApiCaller \ {c} : StatusOf(api'[d].form) = StatusOf(api[d].form)
    BY <1>3
  <2>3. api'[c].form.login = login
    BY <1>3 DEF login
  <2> QED
    BY <1>3, <1>5, <1>8, <2>1, <2>2, <2>3 DEF CreatedStays
<1>15. ProfileTrue'
  BY <1>3, <1>5, <1>6 DEF ApiIInv, ProfileTrue
<1> QED
  BY <1>9, <1>10, <1>11, <1>12, <1>13, <1>14, <1>15 DEF ApiIInv

LEMMA NextApiIInv == ApiIInv /\ [ApiNext]_apiVars => ApiIInv'
<1> SUFFICES ASSUME ApiIInv, [ApiNext]_apiVars PROVE ApiIInv'
  OBVIOUS
<1>1. CASE ApiNext
  BY <1>1, ServeKeeps, ValidateFormKeeps, RLockKeeps, ProfileKeeps, LockKeeps, CheckExistsKeeps,
     InsertKeeps DEF ApiNext, ApiStep
<1>2. CASE UNCHANGED apiVars
  <2>1. UNCHANGED <<users, nextID, mu, api>>
    BY <1>2 DEF apiVars
  <2> QED
    BY <2>1 DEF ApiIInv, UsersTyped, RequestsTyped, HandlersTyped, HandlerTyped, Exclusive, IdsDiffer,
       CreatedStays, StatusOf, ProfileTrue
<1> QED
  BY <1>1, <1>2

(* However many callers create users at once, no two users have one id,    *)
(* and each caller who was told 200 is told of the user who has its login: *)
(* the check and the insertion are under one lock (Create, in api.go).  A  *)
(* profile that is asked for after its creation was answered is found, and *)
(* shows the one id that its login ever has (Profile).  Every status is    *)
(* one of the three that the validator lets through.                       *)
THEOREM UsersAreKept == ApiSpec => []UsersKept
<1>1. ApiIInv => CreatesDistinct
  BY DEF ApiIInv, IdsDiffer, CreatedStays, CreatesDistinct
<1>2. ApiIInv => ProfileSeesCreated
  BY DEF ApiIInv, ProfileTrue, ProfileSeesCreated, ApiAt
<1>3. ApiIInv => ApiTypeOK
  BY DEF ApiIInv, UsersTyped, RequestsTyped, Request, Pcs, Answers, ApiTypeOK
<1>4. ApiIInv => UsersKept
  BY <1>1, <1>2, <1>3 DEF UsersKept
<1> QED
  BY <1>4, InitApiIInv, NextApiIInv, PTL DEF ApiSpec

(***************************************************************************)
(* What the generator makes of api.go.                                     *)
(***************************************************************************)
LEMMA KeptOfOne ==
  ASSUME NEW s
  PROVE  Kept(<<s>>) = IF s.fields # <<>> /\ Tagged(s) THEN {s} ELSE {}
<1>1. DOMAIN <<s>> = {1} /\ <<s>>[1] = s /\ \A k \in {1} : 1..k = {1}
  OBVIOUS
<1> QED
  BY <1>1 DEF Kept

LEMMA TemplateIs ==
  ASSUME NEW decls, NEW s \in UNION {Kept(d) : d \in decls},
         \A r \in UNION {Kept(d) : d \in decls} : r.name = s.name => r = s
  PROVE  /\ s.name \in DOMAIN validateTmpls(decls)
         /\ validateTmpls(decls)[s.name] = [k \in DOMAIN s.fields |-> fieldTpl(s.fields[k])]
<1> DEFINE kept == UNION {Kept(d) : d \in decls}
           chosen(n) == CHOOSE r \in kept : r.name = n
           tpl(n) == [k \in DOMAIN chosen(n).fields |-> fieldTpl(chosen(n).fields[k])]
<1>1. chosen(s.name) = s
  OBVIOUS
<1>2. validateTmpls(decls) = [n \in {r.name : r \in kept} |-> tpl(n)]
  BY DEF validateTmpls
<1>3. s.name \in {r.name : r \in kept}
  OBVIOUS
<1>4. tpl(s.name) = [k \in DOMAIN s.fields |-> fieldTpl(s.fields[k])]
  BY <1>1
<1> HIDE DEF tpl, kept
<1> QED
  BY <1>2, <1>3, <1>4

LoginTag == [required |-> TRUE]
CreateTags == <<[required |-> TRUE, min |-> 10], [paramname |-> "full_name"],
                [enum |-> DOMAIN Status, default |-> "user"], [min |-> 0, max |-> 128]>>
OtherTags == <<[required |-> TRUE, min |-> 3], [paramname |-> "account_name"],
               [enum |-> {"warrior", "sorcerer", "rouge"}, default |-> "warrior"], [min |-> 1, max |-> 50]>>

ProfileFields == <<Field("login", "string", LoginTag)>>
CreateFields == <<Field("login", "string", CreateTags[1]), Field("name", "string", CreateTags[2]),
                  Field("status", "string", CreateTags[3]), Field("age", "int", CreateTags[4])>>
OtherFields == <<Field("username", "string", OtherTags[1]), Field("name", "string", OtherTags[2]),
                 Field("class", "string", OtherTags[3]), Field("level", "int", OtherTags[4])>>

ProfileStruct == [name |-> "ProfileParams", fields |-> ProfileFields]
CreateStruct == [name |-> "CreateParams", fields |-> CreateFields]
OtherStruct == [name |-> "OtherCreateParams", fields |-> OtherFields]

(* Three of the structs have a validator. *)
LEMMA TheStructs == UNION {Kept(d) : d \in Decls} = {ProfileStruct, CreateStruct, OtherStruct}
<1> DEFINE apiError == [name |-> "ApiError", fields |-> <<Field("httpstatus", "int", NoTag)>>]
           user == [name |-> "User", fields |-> <<Field("id", "int", NoTag)>>]
<1>1. Decls = {<<apiError>>, <<ProfileStruct>>, <<CreateStruct>>, <<user>>, <<OtherStruct>>}
  BY DEF Decls, ProfileStruct, CreateStruct, OtherStruct, ProfileFields, CreateFields, OtherFields,
         LoginTag, CreateTags, OtherTags
<1>2. ~Tagged(apiError) /\ ~Tagged(user)
  <2>1. 1 \in DOMAIN apiError.fields /\ apiError.fields[1].tag = NoTag
    BY DEF Field
  <2>2. 1 \in DOMAIN user.fields /\ user.fields[1].tag = NoTag
    BY DEF Field
  <2> QED
    BY <2>1, <2>2 DEF Tagged
<1>3. Tagged(ProfileStruct) /\ ProfileStruct.fields # <<>>
  <2>1. LoginTag # NoTag
    BY DEF LoginTag, NoTag
  <2> QED
    BY <2>1 DEF Tagged, ProfileStruct, ProfileFields, Field
<1>4. Tagged(CreateStruct) /\ CreateStruct.fields # <<>>
  <2>1. \A k \in 1..4 : CreateTags[k] # NoTag
    BY DEF CreateTags, NoTag
  <2> QED
    BY <2>1 DEF Tagged, CreateStruct, CreateFields, Field
<1>5. Tagged(OtherStruct) /\ OtherStruct.fields # <<>>
  <2>1. \A k \in 1..4 : OtherTags[k] # NoTag
    BY DEF OtherTags, NoTag
  <2> QED
    BY <2>1 DEF Tagged, OtherStruct, OtherFields, Field
<1>6. /\ Kept(<<apiError>>) = {} /\ Kept(<<user>>) = {}
      /\ Kept(<<ProfileStruct>>) = {ProfileStruct} /\ Kept(<<CreateStruct>>) = {CreateStruct}
      /\ Kept(<<OtherStruct>>) = {OtherStruct}
  BY <1>2, <1>3, <1>4, <1>5, KeptOfOne
<1> HIDE DEF apiError, user
<1> QED
  BY <1>1, <1>6

Template(fields) == [k \in DOMAIN fields |-> fieldTpl(fields[k])]

LEMMA TheTemplates ==
  /\ {"ProfileParams", "CreateParams", "OtherCreateParams"} \subseteq DOMAIN validateTmpls(Decls)
  /\ validateTmpls(Decls)["ProfileParams"] = Template(ProfileFields)
  /\ validateTmpls(Decls)["CreateParams"] = Template(CreateFields)
  /\ validateTmpls(Decls)["OtherCreateParams"] = Template(OtherFields)
<1>1. /\ ProfileStruct.name = "ProfileParams" /\ ProfileStruct.fields = ProfileFields
      /\ CreateStruct.name = "CreateParams" /\ CreateStruct.fields = CreateFields
      /\ OtherStruct.name = "OtherCreateParams" /\ OtherStruct.fields = OtherFields
  BY DEF ProfileStruct, CreateStruct, OtherStruct
<1>2. ASSUME NEW s \in {ProfileStruct, CreateStruct, OtherStruct}
      PROVE  /\ s.name \in DOMAIN validateTmpls(Decls)
             /\ validateTmpls(Decls)[s.name] = Template(s.fields)
  <2>1. \A r \in {ProfileStruct, CreateStruct, OtherStruct} : r.name = s.name => r = s
    BY <1>1
  <2>2. /\ s.name \in DOMAIN validateTmpls(Decls)
        /\ validateTmpls(Decls)[s.name] = [k \in DOMAIN s.fields |-> fieldTpl(s.fields[k])]
    BY <2>1, TheStructs, TemplateIs
  <2> QED
    BY <2>2 DEF Template
<1> QED
  BY <1>1, <1>2

(***************************************************************************)
(* What the template accepts for the tags of each of the three structs.    *)
(***************************************************************************)
LEMMA TheFieldsFit ==
  ASSUME NEW n, NEW fields, DOMAIN fields = 1..n, NEW form
  PROVE  ValidByTags(Template(fields), form) <=>
           \A k \in 1..n : Fits(Template(fields)[k], Value(Template(fields), k, form))
<1>1. DOMAIN Template(fields) = 1..n
  BY DEF Template
<1> QED
  BY <1>1 DEF ValidByTags

(* A string field: its value is what was sent, or its default.             *)
LEMMA AStringIsRead ==
  ASSUME NEW fields, NEW k \in DOMAIN fields, NEW lower, NEW tag, NEW form, NEW param,
         fields[k] = Field(lower, "string", tag),
         param = IF "paramname" \in DOMAIN tag THEN tag.paramname ELSE lower
  PROVE  /\ Template(fields)[k] = fieldTpl(Field(lower, "string", tag))
         /\ Value(Template(fields), k, form) =
              IF form[param] = Unset /\ "default" \in DOMAIN tag THEN tag.default ELSE form[param]
         /\ Given(Template(fields)[k], form) = Value(Template(fields), k, form)
<1> DEFINE f == [type |-> "string", rules |-> tag,
                 param |-> param]
<1>1. fieldTpl(Field(lower, "string", tag)) = f
  BY DEF fieldTpl, Field
<1>2. Template(fields)[k] = fieldTpl(Field(lower, "string", tag))
  BY DEF Template
<1>3. Template(fields)[k] = f
  BY <1>1, <1>2
<1>4. /\ f.type = "string" /\ f.rules = tag
      /\ f.param = param
  OBVIOUS
<1>5. f.type # "int" /\ Zero(f) = Unset
  BY <1>4 DEF Zero
<1> HIDE DEF f
<1>6. Value(Template(fields), k, form) =
        IF form[f.param] = Unset /\ "default" \in DOMAIN f.rules THEN f.rules.default ELSE form[f.param]
  BY <1>3, <1>5 DEF Value
<1>7. Given(Template(fields)[k], form) = Value(Template(fields), k, form)
  BY <1>3, <1>5, <1>6 DEF Given
<1> QED
  BY <1>2, <1>4, <1>6, <1>7

(* An int field after a string field: its value is what Atoi makes of it.  *)
LEMMA AnIntIsRead ==
  ASSUME NEW fields, NEW k \in DOMAIN fields, NEW lower, NEW tag, NEW form,
         1 \in DOMAIN fields, 1 \in 1..k - 1, fields[1].type = "string",
         fields[k] = Field(lower, "int", tag), "paramname" \notin DOMAIN tag, "default" \notin DOMAIN tag
  PROVE  /\ Template(fields)[k] = fieldTpl(Field(lower, "int", tag))
         /\ Value(Template(fields), k, form) = form[lower]
         /\ Given(Template(fields)[k], form) = Value(Template(fields), k, form)
<1> DEFINE f == [type |-> "int", rules |-> tag, param |-> lower]
<1>1. fieldTpl(Field(lower, "int", tag)) = f
  BY DEF fieldTpl, Field
<1>2. Template(fields)[k] = fieldTpl(Field(lower, "int", tag))
  BY DEF Template
<1>3. Template(fields)[k] = f
  BY <1>1, <1>2
<1>4. f.type = "int" /\ f.rules = tag /\ f.param = lower
  OBVIOUS
<1>5. Template(fields)[1].type = "string"
  <2>1. Template(fields)[1] = fieldTpl(fields[1])
    BY DEF Template
  <2> QED
    BY <2>1 DEF fieldTpl
<1> HIDE DEF f
<1>6. Value(Template(fields), k, form) = form[lower]
  BY <1>3, <1>4, <1>5 DEF Value
<1>7. Given(Template(fields)[k], form) = form[lower]
  BY <1>3, <1>4 DEF Given
<1> QED
  BY <1>2, <1>6, <1>7

(* The template's tests beside hw5.md's, of one field and of all: they     *)
(* differ at a maximum only.                                               *)
LEMMA TplIs ==
  ASSUME NEW lower, NEW type, NEW tag
  PROVE  fieldTpl(Field(lower, type, tag)).type = type /\ fieldTpl(Field(lower, type, tag)).rules = tag
BY DEF fieldTpl, Field

LEMMA FitsButForMax ==
  ASSUME NEW f, NEW v,
         "max" \in DOMAIN f.rules /\ v # NotInt => Measure(f, v) \in Int /\ f.rules.max \in Int
  PROVE  Fits(f, v) <=> Allows(f, v) /\ ~IsMax(f, v)
<1>1. CASE v = NotInt
  BY <1>1 DEF Fits, Allows
<1>2. CASE v # NotInt /\ "max" \notin DOMAIN f.rules
  BY <1>2 DEF Fits, Allows, IsMax, AtLeastMin
<1>3. CASE v # NotInt /\ "max" \in DOMAIN f.rules
  <2>1. Measure(f, v) < f.rules.max <=> Measure(f, v) <= f.rules.max /\ Measure(f, v) # f.rules.max
    BY <1>3
  <2> QED
    BY <1>3, <2>1 DEF Fits, Allows, IsMax, AtLeastMin, BelowMax
<1> QED
  BY <1>1, <1>2, <1>3

LEMMA DocumentedButForMax ==
  ASSUME NEW n, NEW fields, DOMAIN fields = 1..n, NEW form,
         \A k \in 1..n :
           /\ Given(Template(fields)[k], form) = Value(Template(fields), k, form)
           /\ LET f == Template(fields)[k]
                  v == Value(Template(fields), k, form)
              IN  "max" \in DOMAIN f.rules /\ v # NotInt => Measure(f, v) \in Int /\ f.rules.max \in Int
  PROVE  ValidByTags(Template(fields), form)
           <=> Documented(Template(fields), form) /\ ~AtAMax(Template(fields), form)
<1> DEFINE T == Template(fields)
<1>1. DOMAIN T = 1..n
  BY DEF Template
<1>2. \A k \in 1..n : /\ Given(T[k], form) = Value(T, k, form)
                      /\ Fits(T[k], Value(T, k, form)) <=>
                           Allows(T[k], Value(T, k, form)) /\ ~IsMax(T[k], Value(T, k, form))
  BY FitsButForMax
<1> HIDE DEF T
<1>3. ValidByTags(T, form) <=> Documented(T, form) /\ ~AtAMax(T, form)
  BY <1>1, <1>2 DEF ValidByTags, Documented, AtAMax
<1> QED
  BY <1>3 DEF T

LEMMA ProfileInSync ==
  ASSUME NEW form \in Forms["ProfileParams"]
  PROVE  /\ validateProfileParams(form) <=> ValidByTags(Template(ProfileFields), form)
         /\ ValidByTags(Template(ProfileFields), form) <=>
              Documented(Template(ProfileFields), form) /\ ~AtAMax(Template(ProfileFields), form)
<1> DEFINE T == Template(ProfileFields)
           t == [type |-> "string", rules |-> LoginTag, param |-> "login"]
<1>1. DOMAIN ProfileFields = 1..1 /\ 1..1 = {1} /\ ProfileFields[1] = Field("login", "string", LoginTag)
  BY DEF ProfileFields
<1>2. DOMAIN LoginTag = {"required"}
  BY DEF LoginTag
<1>3. T[1] = fieldTpl(Field("login", "string", LoginTag)) /\ Value(T, 1, form) = form.login
      /\ Given(T[1], form) = Value(T, 1, form)
  <2>1. "login" = IF "paramname" \in DOMAIN LoginTag THEN LoginTag.paramname ELSE "login"
    BY <1>2
  <2>2. 1 \in DOMAIN ProfileFields
    BY <1>1
  <2>3. Value(T, 1, form) = IF form["login"] = Unset /\ "default" \in DOMAIN LoginTag
                             THEN LoginTag.default ELSE form["login"]
    BY <1>1, <2>1, <2>2, AStringIsRead
  <2>4. T[1] = fieldTpl(Field("login", "string", LoginTag)) /\ Given(T[1], form) = Value(T, 1, form)
    BY <1>1, <2>1, <2>2, AStringIsRead
  <2> QED
    BY <1>2, <2>3, <2>4
<1>4. T[1] = t
  BY <1>2, <1>3 DEF fieldTpl, Field
<1>5. form.login # NotInt
  BY FormsAssumption
<1>6. t.type = "string" /\ t.rules = LoginTag
  OBVIOUS
<1> HIDE DEF t, T
<1>7. Fits(t, form.login) <=> form.login # Unset
  <2>1. Zero(t) = Unset
    BY <1>6 DEF Zero
  <2> HIDE DEF LoginTag
  <2> QED
    BY <1>2, <1>5, <1>6, <2>1 DEF Fits
<1>8. ValidByTags(T, form) <=> Fits(T[1], Value(T, 1, form))
  BY <1>1, TheFieldsFit DEF T
<1>9. ValidByTags(T, form) <=> Documented(T, form) /\ ~AtAMax(T, form)
  <2>1. \A k \in 1..1 : Given(T[k], form) = Value(T, k, form) /\ "max" \notin DOMAIN T[k].rules
    BY <1>1, <1>2, <1>3, <1>4, <1>6
  <2> QED
    BY <1>1, <2>1, DocumentedButForMax DEF T
<1>10. validateProfileParams(form) <=> ValidByTags(T, form)
  BY <1>3, <1>4, <1>7, <1>8 DEF validateProfileParams
<1> QED
  BY <1>9, <1>10 DEF T

(* What fits the fields that the two other structs have in common.         *)
LEMMA RequiredFits ==
  ASSUME NEW lower, NEW m \in Nat \ {0}, NEW v \in DOMAIN RuneLen
  PROVE  Fits(fieldTpl(Field(lower, "string", [required |-> TRUE, min |-> m])), v) <=> RuneLen[v] >= m
<1> DEFINE tag == [required |-> TRUE, min |-> m]
           t == [type |-> "string", rules |-> tag, param |-> lower]
<1>1. DOMAIN tag = {"required", "min"} /\ tag.min = m
  OBVIOUS
<1>2. fieldTpl(Field(lower, "string", tag)) = t
  BY <1>1 DEF fieldTpl, Field
<1>3. t.type = "string" /\ t.rules = tag
  OBVIOUS
<1> HIDE DEF t, tag
<1>4. Fits(t, v) <=> v # NotInt /\ v # Unset /\ m <= RuneLen[v]
  <2>1. Zero(t) = Unset /\ Measure(t, v) = RuneLen[v]
    BY <1>3 DEF Zero, Measure
  <2> QED
    BY <1>1, <1>3, <2>1 DEF Fits, AtLeastMin
<1>5. v # NotInt /\ RuneLen[v] \in Nat /\ RuneLen[Unset] = 0
  BY FormsAssumption
<1>6. Fits(t, v) <=> RuneLen[v] >= m
  <2>1. RuneLen[v] >= m => v # Unset
    BY <1>5
  <2>2. RuneLen[v] >= m <=> m <= RuneLen[v]
    BY <1>5
  <2> QED
    BY <1>4, <1>5, <2>1, <2>2
<1> QED
  BY <1>2, <1>6 DEF tag

LEMMA NamedFits ==
  ASSUME NEW lower, NEW name, NEW v \in DOMAIN RuneLen
  PROVE  Fits(fieldTpl(Field(lower, "string", [paramname |-> name])), v)
<1> DEFINE tag == [paramname |-> name]
           t == [type |-> "string", rules |-> tag, param |-> name]
<1>1. DOMAIN tag = {"paramname"} /\ tag.paramname = name
  OBVIOUS
<1>2. fieldTpl(Field(lower, "string", tag)) = t
  BY <1>1 DEF fieldTpl, Field
<1>3. t.type = "string" /\ t.rules = tag
  OBVIOUS
<1>4. v # NotInt
  BY FormsAssumption
<1> HIDE DEF t, tag
<1>5. Fits(t, v)
  BY <1>1, <1>3, <1>4 DEF Fits
<1> QED
  BY <1>2, <1>5 DEF tag

LEMMA EnumFits ==
  ASSUME NEW lower, NEW enum, NEW default \in enum, NEW v \in DOMAIN RuneLen, Unset \notin enum,
         NotInt \notin enum
  PROVE  Fits(fieldTpl(Field(lower, "string", [enum |-> enum, default |-> default])),
              IF v = Unset THEN default ELSE v)
           <=> v \in {Unset} \cup enum
<1> DEFINE tag == [enum |-> enum, default |-> default]
           t == [type |-> "string", rules |-> tag, param |-> lower]
<1>1. DOMAIN tag = {"enum", "default"} /\ tag.enum = enum
  OBVIOUS
<1>2. fieldTpl(Field(lower, "string", tag)) = t
  BY <1>1 DEF fieldTpl, Field
<1>3. t.type = "string" /\ t.rules = tag
  OBVIOUS
<1>4. v # NotInt
  BY FormsAssumption
<1> HIDE DEF t, tag
<1>5. ASSUME NEW x PROVE Fits(t, x) <=> x # NotInt /\ x \in enum
  BY <1>1, <1>3 DEF Fits
<1>6. Fits(t, IF v = Unset THEN default ELSE v) <=> v \in {Unset} \cup enum
  BY <1>4, <1>5
<1> QED
  BY <1>2, <1>6 DEF tag

LEMMA NumberFits ==
  ASSUME NEW lower, NEW tag, DOMAIN tag = {"min", "max"}, NEW v
  PROVE  Fits(fieldTpl(Field(lower, "int", tag)), v)
           <=> v \notin {NotInt} /\ tag.min <= v /\ v < tag.max
<1> DEFINE t == [type |-> "int", rules |-> tag, param |-> lower]
<1>1. fieldTpl(Field(lower, "int", tag)) = t
  BY DEF fieldTpl, Field
<1>2. t.type = "int" /\ t.rules = tag
  OBVIOUS
<1> HIDE DEF t
<1>3. Fits(t, v) <=> v # NotInt /\ v < tag.max /\ tag.min <= v
  BY <1>2 DEF Fits, Measure, BelowMax, AtLeastMin
<1> QED
  BY <1>1, <1>3

(* A struct of a required string, a renamed one, one of a set and a number. *)
LEMMA FourInSync ==
  ASSUME NEW l1, NEW m \in Nat \ {0}, NEW l2, NEW name, NEW l3, NEW enum, NEW default \in enum,
         Unset \notin enum, NotInt \notin enum, NEW l4, NEW lo \in Int, NEW hi \in Int,
         NEW fields, DOMAIN fields = 1..4,
         fields[1] = Field(l1, "string", [required |-> TRUE, min |-> m]),
         fields[2] = Field(l2, "string", [paramname |-> name]),
         fields[3] = Field(l3, "string", [enum |-> enum, default |-> default]),
         fields[4] = Field(l4, "int", [min |-> lo, max |-> hi]),
         NEW form, {form[l1], form[name], form[l3]} \subseteq DOMAIN RuneLen,
         form[l4] \in Int \cup {NotInt}
  PROVE  /\ ValidByTags(Template(fields), form) <=>
              /\ RuneLen[form[l1]] >= m
              /\ form[l3] \in {Unset} \cup enum
              /\ form[l4] \notin {NotInt} /\ lo <= form[l4] /\ form[l4] < hi
         /\ ValidByTags(Template(fields), form) <=>
              Documented(Template(fields), form) /\ ~AtAMax(Template(fields), form)
<1> DEFINE T == Template(fields)
           t1 == [required |-> TRUE, min |-> m]
           t2 == [paramname |-> name]
           t3 == [enum |-> enum, default |-> default]
           t4 == [min |-> lo, max |-> hi]
<1>1. /\ DOMAIN t1 = {"required", "min"} /\ DOMAIN t2 = {"paramname"} /\ t2.paramname = name
      /\ DOMAIN t3 = {"enum", "default"} /\ t3.default = default /\ DOMAIN t4 = {"min", "max"}
  OBVIOUS
<1>2. 1..4 = {1, 2, 3, 4} /\ {1, 2, 3, 4} \subseteq DOMAIN fields /\ 4 \in Nat /\ 4 \in 2..4
  OBVIOUS
<1>3. /\ fields[1] = Field(l1, "string", t1) /\ fields[2] = Field(l2, "string", t2)
      /\ fields[3] = Field(l3, "string", t3) /\ fields[4] = Field(l4, "int", t4)
  OBVIOUS
<1> DEFINE Same(k) == Given(T[k], form) = Value(T, k, form)
<1>4. /\ Fits(T[1], Value(T, 1, form)) <=> RuneLen[form[l1]] >= m
      /\ Same(1) /\ T[1].rules = t1
  <2>1. T[1] = fieldTpl(Field(l1, "string", t1)) /\ Value(T, 1, form) = form[l1] /\ Same(1)
    <3> HIDE DEF t1
    <3> QED
      BY <1>1, <1>2, <1>3, AStringIsRead
  <2> QED
    BY <2>1, RequiredFits, TplIs
<1>5. Fits(T[2], Value(T, 2, form)) /\ Same(2) /\ T[2].rules = t2
  <2>1. T[2] = fieldTpl(Field(l2, "string", t2)) /\ Value(T, 2, form) = form[name] /\ Same(2)
    <3> HIDE DEF t2
    <3> QED
      BY <1>1, <1>2, <1>3, AStringIsRead
  <2> QED
    BY <2>1, NamedFits, TplIs
<1>6. /\ Fits(T[3], Value(T, 3, form)) <=> form[l3] \in {Unset} \cup enum
      /\ Same(3) /\ T[3].rules = t3
  <2>1. /\ T[3] = fieldTpl(Field(l3, "string", t3))
        /\ Value(T, 3, form) = IF form[l3] = Unset THEN default ELSE form[l3]
        /\ Same(3)
    <3> HIDE DEF t3
    <3> QED
      BY <1>1, <1>2, <1>3, AStringIsRead
  <2> QED
    BY <2>1, EnumFits, TplIs
<1>7. /\ Fits(T[4], Value(T, 4, form)) <=> form[l4] \notin {NotInt} /\ lo <= form[l4] /\ form[l4] < hi
      /\ Same(4) /\ T[4].rules.max = hi /\ T[4].type = "int" /\ Value(T, 4, form) = form[l4]
  <2>1. T[4] = fieldTpl(Field(l4, "int", t4)) /\ Value(T, 4, form) = form[l4] /\ Same(4)
    <3>1. "paramname" \notin DOMAIN t4 /\ "default" \notin DOMAIN t4
      BY <1>1
    <3>2. fields[1].type = "string"
      BY <1>3 DEF Field
    <3>3. 4 \in DOMAIN fields /\ 1 \in DOMAIN fields /\ 1 \in 1..4 - 1
      BY <1>2
    <3>4. fields[4] = Field(l4, "int", t4)
      BY <1>3
    <3> HIDE DEF t4
    <3> QED
      BY <3>1, <3>2, <3>3, <3>4, AnIntIsRead
  <2>2. DOMAIN t4 = {"min", "max"} /\ t4.min = lo /\ t4.max = hi
    OBVIOUS
  <2> HIDE DEF t4, T
  <2>3. Fits(fieldTpl(Field(l4, "int", t4)), form[l4])
          <=> form[l4] \notin {NotInt} /\ t4.min <= form[l4] /\ form[l4] < t4.max
    BY <2>2, NumberFits
  <2>4. T[4].rules = t4 /\ T[4].type = "int"
    BY <2>1, TplIs
  <2> QED
    BY <2>1, <2>2, <2>3, <2>4
<1>8. ValidByTags(T, form) <=> \A k \in {1, 2, 3, 4} : Fits(T[k], Value(T, k, form))
  BY <1>2, TheFieldsFit
<1>9. ValidByTags(T, form) <=> Documented(T, form) /\ ~AtAMax(T, form)
  <2>1. \A k \in {1, 2, 3} : Same(k) /\ "max" \notin DOMAIN T[k].rules
    BY <1>1, <1>4, <1>5, <1>6
  <2>2. form[l4] # NotInt => Measure(T[4], form[l4]) \in Int
    BY <1>7 DEF Measure
  <2> HIDE DEF T
  <2>3. \A k \in 1..4 :
          /\ Same(k)
          /\ "max" \in DOMAIN T[k].rules /\ Value(T, k, form) # NotInt
               => Measure(T[k], Value(T, k, form)) \in Int /\ T[k].rules.max \in Int
    BY <1>2, <1>7, <2>1, <2>2
  <2> QED
    BY <2>3, DocumentedButForMax DEF T
<1> QED
  BY <1>4, <1>5, <1>6, <1>7, <1>8, <1>9

LEMMA CreateInSync ==
  ASSUME NEW form \in Forms["CreateParams"]
  PROVE  /\ validateCreateParams(form) <=> ValidByTags(Template(CreateFields), form)
         /\ ValidByTags(Template(CreateFields), form) <=>
              Documented(Template(CreateFields), form) /\ ~AtAMax(Template(CreateFields), form)
<1> DEFINE enum == {"user", "moderator", "admin"}
<1>1. /\ DOMAIN CreateFields = 1..4
      /\ CreateFields[1] = Field("login", "string", [required |-> TRUE, min |-> 10])
      /\ CreateFields[2] = Field("name", "string", [paramname |-> "full_name"])
      /\ CreateFields[3] = Field("status", "string", [enum |-> enum, default |-> "user"])
      /\ CreateFields[4] = Field("age", "int", [min |-> 0, max |-> 128])
  BY DEF CreateFields, CreateTags, Status
<1>2. {form["login"], form["full_name"], form["status"]} \subseteq DOMAIN RuneLen /\ form["age"] \in Int \cup {NotInt}
  BY FormsAssumption
<1>3. "user" \in enum /\ NotInt \notin enum
  BY FormsAssumption
<1>4. Unset \notin enum
  BY Zenon DEF Unset
<1> HIDE DEF enum
<1>5. /\ ValidByTags(Template(CreateFields), form) <=>
           /\ RuneLen[form["login"]] >= 10
           /\ form["status"] \in {Unset} \cup enum
           /\ form["age"] \notin {NotInt} /\ 0 <= form["age"] /\ form["age"] < 128
      /\ ValidByTags(Template(CreateFields), form) <=>
           Documented(Template(CreateFields), form) /\ ~AtAMax(Template(CreateFields), form)
  BY <1>1, <1>2, <1>3, <1>4, FourInSync
<1> QED
  BY <1>5 DEF validateCreateParams, enum

LEMMA OtherInSync ==
  ASSUME NEW form \in Forms["OtherCreateParams"]
  PROVE  /\ validateOtherCreateParams(form) <=> ValidByTags(Template(OtherFields), form)
         /\ ValidByTags(Template(OtherFields), form) <=>
              Documented(Template(OtherFields), form) /\ ~AtAMax(Template(OtherFields), form)
<1> DEFINE enum == {"warrior", "sorcerer", "rouge"}
<1>1. /\ DOMAIN OtherFields = 1..4
      /\ OtherFields[1] = Field("username", "string", [required |-> TRUE, min |-> 3])
      /\ OtherFields[2] = Field("name", "string", [paramname |-> "account_name"])
      /\ OtherFields[3] = Field("class", "string", [enum |-> enum, default |-> "warrior"])
      /\ OtherFields[4] = Field("level", "int", [min |-> 1, max |-> 50])
  BY DEF OtherFields, OtherTags
<1>2. {form["username"], form["account_name"], form["class"]} \subseteq DOMAIN RuneLen /\ form["level"] \in Int \cup {NotInt}
  BY FormsAssumption
<1>3. "warrior" \in enum /\ NotInt \notin enum
  BY FormsAssumption
<1>4. Unset \notin enum
  BY Zenon DEF Unset
<1> HIDE DEF enum
<1>5. /\ ValidByTags(Template(OtherFields), form) <=>
           /\ RuneLen[form["username"]] >= 3
           /\ form["class"] \in {Unset} \cup enum
           /\ form["level"] \notin {NotInt} /\ 1 <= form["level"] /\ form["level"] < 50
      /\ ValidByTags(Template(OtherFields), form) <=>
           Documented(Template(OtherFields), form) /\ ~AtAMax(Template(OtherFields), form)
  BY <1>1, <1>2, <1>3, <1>4, FourInSync
<1> QED
  BY <1>5 DEF validateOtherCreateParams, enum

(***************************************************************************)
(* The form that a validator is given is one sent for its struct.          *)
(***************************************************************************)
FormsSent ==
  \A c \in ApiCaller : api[c].pc = "form" => api[c].form \in Forms[Params(api[c].srv, api[c].func)]

LEMMA NextFormsSent ==
  ASSUME ApiIInv, FormsSent, NEW c \in ApiCaller, Serve(c) \/ ApiStep(c)
  PROVE  FormsSent'
<1>t. api \in [ApiCaller -> Request] /\ api[c] \in Request
  BY DEF ApiIInv, RequestsTyped
<1>s. SUFFICES /\ \A d \in ApiCaller \ {c} : api'[d] = api[d]
               /\ api'[c].pc = "form" => api'[c].form \in Forms[Params(api'[c].srv, api'[c].func)]
  <2> SUFFICES ASSUME NEW d \in ApiCaller, api'[d].pc = "form"
               PROVE  api'[d].form \in Forms[Params(api'[d].srv, api'[d].func)]
    BY DEF FormsSent
  <2>1. CASE d = c
    BY <2>1
  <2>2. CASE d # c
    <3>1. api'[d] = api[d]
      BY <2>2
    <3> QED
      BY <3>1 DEF FormsSent
  <2> QED
    BY <2>1, <2>2
<1>e. ASSUME NEW answer \in Answers, End(c, answer)
      PROVE  /\ \A d \in ApiCaller \ {c} : api'[d] = api[d]
             /\ api'[c].pc = "form" => api'[c].form \in Forms[Params(api'[c].srv, api'[c].func)]
  BY <1>t, <1>e, EndIs
<1>m. ASSUME NEW pc \in Pcs \ {"form"}, api' = [api EXCEPT ![c].pc = pc]
      PROVE  /\ \A d \in ApiCaller \ {c} : api'[d] = api[d]
             /\ api'[c].pc = "form" => api'[c].form \in Forms[Params(api'[c].srv, api'[c].func)]
  BY <1>t, <1>m, MoveIs
<1>1. CASE Serve(c)
  <2>1. PICK srv \in {"MyApi", "OtherApi"}, to \in {"404", "406", "403", "Profile", "Create"} :
          IF to \in {"404", "406", "403"}
          THEN End(c, to)
          ELSE \E form \in Forms[Params(srv, to)] :
                 api' = [api EXCEPT ![c] = [@ EXCEPT !.pc = "form", !.srv = srv, !.func = to,
                                                     !.form = form, !.seen = CreatedBefore]]
    BY <1>1, ServeIs
  <2>2. CASE to \in {"404", "406", "403"}
    BY <1>e, <2>1, <2>2 DEF Answers
  <2>3. CASE to \notin {"404", "406", "403"}
    <3>1. PICK form \in Forms[Params(srv, to)] :
            api' = [api EXCEPT ![c] = [@ EXCEPT !.pc = "form", !.srv = srv, !.func = to,
                                                !.form = form, !.seen = CreatedBefore]]
      BY <2>1, <2>3
    <3> DEFINE asked == [api[c] EXCEPT !.pc = "form", !.srv = srv, !.func = to,
                                       !.form = form, !.seen = CreatedBefore]
    <3>2. asked.srv = srv /\ asked.func = to /\ asked.form = form
      BY <1>t DEF Request
    <3>3. api' = [api EXCEPT ![c] = asked]
      BY <3>1
    <3> HIDE DEF asked
    <3>4. api'[c] = asked /\ \A d \in ApiCaller \ {c} : api'[d] = api[d]
      BY <1>t, <3>3
    <3> QED
      BY <3>2, <3>4
  <2> QED
    BY <2>2, <2>3
<1>2. CASE ValidateForm(c)
  <2>1. api[c].func \in {"Profile", "Create"}
    BY <1>t, <1>2 DEF ValidateForm, ApiAt, Request, ApiIInv, HandlersTyped, HandlerTyped
  <2>2. \/ End(c, "400") \/ End(c, "200") \/ End(c, "500") \/ api' = [api EXCEPT ![c].pc = api[c].func]
    BY <1>2 DEF ValidateForm
  <2>3. {"400", "200", "500"} \subseteq Answers /\ api[c].func \in Pcs \ {"form"}
    BY <2>1 DEF Answers, Pcs
  <2> QED
    BY <1>e, <1>m, <2>2, <2>3
<1>3. CASE RLock(c)
  BY <1>m, <1>3 DEF RLock, Pcs
<1>4. CASE Profile(c)
  <2>1. CASE Exists(api[c].form.login)
    <3> DEFINE found == [api[c] EXCEPT !.pc = "end", !.answer = "200", !.id = users[api[c].form.login].id]
    <3>1. api' = [api EXCEPT ![c] = found]
      BY <1>4, <2>1 DEF Profile
    <3>2. found.pc = "end"
      BY <1>t DEF Request
    <3> HIDE DEF found
    <3> QED
      BY <1>t, <3>1, <3>2
  <2>2. CASE ~Exists(api[c].form.login)
    BY <1>4, <1>e, <2>2 DEF Profile, Answers
  <2> QED
    BY <2>1, <2>2
<1>5. CASE Lock(c)
  BY <1>m, <1>5 DEF Lock, Pcs
<1>6. CASE CheckExists(c)
  <2>1. CASE Exists(api[c].form.login)
    BY <1>6, <1>e, <2>1 DEF CheckExists, Answers
  <2>2. CASE ~Exists(api[c].form.login)
    <3> DEFINE free == [api[c] EXCEPT !.pc = "insert", !.id = nextID]
    <3>1. api' = [api EXCEPT ![c] = free]
      BY <1>6, <2>2 DEF CheckExists
    <3>2. free.pc = "insert"
      BY <1>t DEF Request
    <3> HIDE DEF free
    <3> QED
      BY <1>t, <3>1, <3>2
  <2> QED
    BY <2>1, <2>2
<1>7. CASE Insert(c)
  BY <1>7, <1>e DEF Insert, Answers
<1> QED
  BY <1>1, <1>2, <1>3, <1>4, <1>5, <1>6, <1>7 DEF ApiStep

LEMMA FormsAreSent == ApiSpec => [](ApiIInv /\ FormsSent)
<1>1. ApiInit => FormsSent
  BY DEF ApiInit, FormsSent
<1>2. ApiIInv /\ FormsSent /\ [ApiNext]_apiVars => FormsSent'
  <2> SUFFICES ASSUME ApiIInv, FormsSent, [ApiNext]_apiVars PROVE FormsSent'
    OBVIOUS
  <2>1. CASE ApiNext
    BY <2>1, NextFormsSent DEF ApiNext
  <2>2. CASE UNCHANGED apiVars
    BY <2>2 DEF FormsSent, apiVars
  <2> QED
    BY <2>1, <2>2
<1> QED
  BY <1>1, <1>2, InitApiIInv, NextApiIInv, PTL DEF ApiSpec

(* For every form that is sent, whatever its strings and numbers are, the  *)
(* validator that is checked in beside api.go accepts it if and only if    *)
(* the one that codegen.go writes for the tags of its params struct would, *)
(* and if and only if hw5.md's tags allow it and none of its numbers is    *)
(* the maximum: the default is put before the enumeration is looked at, a  *)
(* renamed parameter read under its new name, a minimum allowed.           *)
THEOREM TheFormsAreChecked == ApiSpec => []FormsChecked
<1>1. ApiIInv /\ FormsSent => FormsChecked
  <2> SUFFICES ASSUME ApiIInv, FormsSent, NEW c \in ApiCaller, ApiAt(c, "form")
               PROVE  LET p == Params(api[c].srv, api[c].func)
                          form == api[c].form
                          t == validateTmpls(Decls)
                      IN  /\ p \in DOMAIN t
                          /\ Validate(p, form) <=> ValidByTags(t[p], form)
                          /\ Validate(p, form) <=> Documented(t[p], form) /\ ~AtAMax(t[p], form)
    BY DEF FormsChecked
  <2> DEFINE p == Params(api[c].srv, api[c].func)
             form == api[c].form
             t == validateTmpls(Decls)
  <2> SUFFICES /\ p \in DOMAIN t
               /\ Validate(p, form) <=> ValidByTags(t[p], form)
               /\ Validate(p, form) <=> Documented(t[p], form) /\ ~AtAMax(t[p], form)
    OBVIOUS
  <2>1. form \in Forms[p]
    BY DEF FormsSent, ApiAt
  <2>2. p \in {"ProfileParams", "CreateParams", "OtherCreateParams"}
    BY DEF Params
  <2> HIDE DEF p, form, t
  <2>3. t = validateTmpls(Decls)
    BY DEF t
  <2>4. CASE p = "ProfileParams"
    <3>1. Validate(p, form) <=> validateProfileParams(form)
      BY <2>4 DEF Validate
    <3>2. p \in DOMAIN t /\ t[p] = Template(ProfileFields)
      BY <2>3, <2>4, TheTemplates
    <3>3. form \in Forms["ProfileParams"]
      BY <2>1, <2>4
    <3>4. /\ validateProfileParams(form) <=> ValidByTags(t[p], form)
          /\ ValidByTags(t[p], form) <=> Documented(t[p], form) /\ ~AtAMax(t[p], form)
      BY <3>2, <3>3, ProfileInSync
    <3> QED
      BY <3>1, <3>2, <3>4
  <2>5. CASE p = "CreateParams"
    <3>1. Validate(p, form) <=> validateCreateParams(form)
      BY <2>5 DEF Validate
    <3>2. p \in DOMAIN t /\ t[p] = Template(CreateFields)
      BY <2>3, <2>5, TheTemplates
    <3>3. form \in Forms["CreateParams"]
      BY <2>1, <2>5
    <3>4. /\ validateCreateParams(form) <=> ValidByTags(t[p], form)
          /\ ValidByTags(t[p], form) <=> Documented(t[p], form) /\ ~AtAMax(t[p], form)
      BY <3>2, <3>3, CreateInSync
    <3> QED
      BY <3>1, <3>2, <3>4
  <2>6. CASE p = "OtherCreateParams"
    <3>1. Validate(p, form) <=> validateOtherCreateParams(form)
      BY <2>6 DEF Validate
    <3>2. p \in DOMAIN t /\ t[p] = Template(OtherFields)
      BY <2>3, <2>6, TheTemplates
    <3>3. form \in Forms["OtherCreateParams"]
      BY <2>1, <2>6
    <3>4. /\ validateOtherCreateParams(form) <=> ValidByTags(t[p], form)
          /\ ValidByTags(t[p], form) <=> Documented(t[p], form) /\ ~AtAMax(t[p], form)
      BY <3>2, <3>3, OtherInSync
    <3> QED
      BY <3>1, <3>2, <3>4
  <2> QED
    BY <2>2, <2>4, <2>5, <2>6
<1> QED
  BY <1>1, FormsAreSent, PTL

(***************************************************************************)
(* DbExplorer.                                                             *)
(***************************************************************************)
Datum == UNION {[D -> JsonValue] : D \in SUBSET (Columns \cup {Unknown})}
Operation == {"none", "root", "list", "get", "put", "post", "delete"}
DbRequest ==
  [phase : {"idle", "sql", "end", "panic"}, op : Operation, id : 0 .. MaxId, data : Datum,
   unread : BOOLEAN, answer : Seq(Answer)]
Row == [Columns \ {1} -> JsonValue \ {"object"}]

DbTypes ==
  /\ explorer \in [state : {"starting", "serving", "noTable", "dead"}, known : 0 .. Len(ColumnType)]
  /\ lastId \in 1 .. MaxId /\ DOMAIN rows \subseteq 1 .. lastId /\ rows \in [DOMAIN rows -> Row]
  /\ dbCall \in [DbCaller -> DbRequest] /\ wrote \in [DbCaller -> 0 .. MaxId] /\ dbFaults \in Nat

(* A row that the checks let through, when they know these columns.        *)
Passes(row, known) ==
  \A k \in Columns \ {1} :
    /\ k \in NotNull => row[k] # "null"
    /\ k \in known \cap DOMAIN ValidMap => JsonType(row[k]) \in {ValidMap[k], "bool", "null"}

RowsOK ==
  \A i \in DOMAIN rows : /\ Passes(rows[i], Known)
                         /\ explorer.state = "starting" => Passes(rows[i], Columns)

(* Nobody is served before the columns are read, and only a failure leaves *)
(* some of them unread.                                                    *)
Started ==
  /\ explorer.state = "starting" => \A c \in DbCaller : dbCall[c].phase = "idle"
  /\ explorer.state # "starting" /\ dbFaults = 0 => explorer.known = Len(ColumnType)

(* What the checks of its handler make of a statement.                     *)
Prepared(r) ==
  /\ r.op \in {"list", "get", "put", "post", "delete"}
  /\ r.answer = IF r.unread THEN <<HttpStatus(400)>> ELSE <<>>
  /\ r.op = "put" => ~InvalidType(r.data) /\ Defaulted(r.data) = {}
  /\ r.op = "post" => ~Refused(r.data) /\ ~(KeyName /\ 1 \in DOMAIN r.data)

ToldTo(r) == r.answer[Len(r.answer)]
Truthful(r, w) ==
  /\ r.answer # <<>> /\ Len(r.answer) = (IF r.unread THEN 2 ELSE 1)
  /\ Head(r.answer).code \in Failed /\ w # 0 => r.unread \/ dbFaults > 0
  /\ ToldTo(r).code \notin Failed /\ r.op \in {"put", "post", "delete"} =>
       /\ ToldTo(r).value # 0 <=> w # 0
       /\ r.op = "put" => ToldTo(r).value = w /\ w # 0

Explained(r) ==
  LET sent == {r.data[k] : k \in DOMAIN r.data}
  IN  \/ r.op = "list"
      \/ r.op = "put" /\ sent \cap {"object", "null"} # {}
      \/ r.op = "post" /\ ("object" \in sent \/ DOMAIN r.data = {} \/ Unknown \in DOMAIN r.data)

PanicIsKnown(r, w) ==
  LET failedDelete == r.op = "delete" /\ dbFaults > 0
  IN  /\ w # 0 => failedDelete
      /\ \/ failedDelete
         \/ r.op = "post" /\ NilColumn(r.data)
         \/ r.op = "put" /\ r.data = WithDefaults(Empty)

CallOK(r, w) ==
  /\ r.phase \in {"idle", "sql"} => w = 0
  /\ r.phase = "sql" => Prepared(r)
  /\ r.phase = "end" => Truthful(r, w)
  /\ r.phase = "panic" => PanicIsKnown(r, w)
  /\ dbFaults = 0 /\ r.phase = "end" /\ ToldTo(r).code = 500 => Explained(r)

(* The row of a PUT is its own, and there until a DELETE of its id.        *)
PutsOK ==
  \A c \in DbCaller : dbCall[c].op = "put" /\ wrote[c] # 0 =>
    /\ wrote[c] <= lastId
    /\ \A d \in DbCaller : d # c /\ dbCall[d].op = "put" => wrote[d] # wrote[c]
    /\ \/ wrote[c] \in DOMAIN rows
       \/ \E d \in DbCaller : dbCall[d].op = "delete" /\ wrote[d] = wrote[c]

DbIInv ==
  /\ DbTypes /\ RowsOK /\ Started /\ PutsOK
  /\ \A c \in DbCaller : CallOK(dbCall[c], wrote[c])

LEMMA ColumnsAre ==
  /\ Len(ColumnType) \in Nat \ {0} /\ Columns = 1 .. Len(ColumnType) /\ 1 \in Columns
  /\ Unknown \notin Columns
BY DbAssumption DEF Columns, Unknown

LEMMA DatumIs ==
  ASSUME NEW d, NEW D, D \subseteq Columns \cup {Unknown}, d \in [D -> JsonValue]
  PROVE  d \in Datum
BY DEF Datum

LEMMA IsDatum ==
  ASSUME NEW d \in Datum
  PROVE  DOMAIN d \subseteq Columns \cup {Unknown} /\ d \in [DOMAIN d -> JsonValue]
BY DEF Datum

LEMMA EmptyIs == Empty \in Datum /\ DOMAIN Empty = {}
<1>1. Empty \in [{} -> JsonValue] /\ DOMAIN Empty = {}
  BY DEF Empty
<1> QED
  BY <1>1, DatumIs

LEMMA AnswersAre ==
  /\ \A code \in {200, 400, 404, 405, 500} : HttpStatus(code) \in Answer /\ HttpStatus(code).code = code
  /\ \A v \in 0 .. MaxId : Told(v) \in Answer /\ Told(v).code = 200 /\ Told(v).value = v
  /\ <<>> \in Seq(Answer) /\ \A a \in Answer : <<a>> \in Seq(Answer)
<1>1. 0 \in 0 .. MaxId
  BY DbAssumption
<1> QED
  BY <1>1 DEF HttpStatus, Told, Answer

LEMMA ValidMapIs ==
  /\ DOMAIN ValidMap = {k \in Columns : ColumnType[k] # "date"}
  /\ \A k \in DOMAIN ValidMap : ValidMap[k] \in {"text", "float64"}
BY DEF ValidMap

LEMMA InitDbIInv == DbInit => DbIInv
<1> SUFFICES ASSUME DbInit PROVE DbIInv
  OBVIOUS
<1> USE DEF DbInit
<1> DEFINE idle == [phase |-> "idle", op |-> "none", id |-> 0, data |-> Empty,
                    unread |-> FALSE, answer |-> <<>>]
<1>1. idle \in DbRequest
  <2>1. 0 \in 0 .. MaxId
    BY DbAssumption
  <2> QED
    BY <2>1, EmptyIs, AnswersAre DEF DbRequest, Operation
<1>2. DOMAIN rows = {1} /\ rows[1] \in Row /\ Passes(rows[1], Columns) /\ Passes(rows[1], Known)
  <2> DEFINE row == [k \in Columns \ {1} |->
                      IF k \in DOMAIN ValidMap THEN ValidMap[k]
                      ELSE IF k \in NotNull THEN "text" ELSE "null"]
  <2>1. DOMAIN rows = {1} /\ rows[1] = row
    OBVIOUS
  <2>2. row \in Row
    BY ValidMapIs DEF Row, JsonValue
  <2>3. ASSUME NEW known PROVE Passes(row, known)
    BY ValidMapIs DEF Passes, JsonType
  <2> QED
    BY <2>1, <2>2, <2>3
<1>3. DbTypes
  <2>1. explorer \in [state : {"starting", "serving", "noTable", "dead"}, known : 0 .. Len(ColumnType)]
    BY ColumnsAre
  <2>2. rows \in [DOMAIN rows -> Row]
    BY <1>2
  <2>3. lastId \in 1 .. MaxId /\ 0 \in 0 .. MaxId
    BY DbAssumption
  <2> QED
    BY <1>1, <1>2, <2>1, <2>2, <2>3 DEF DbTypes
<1>4. RowsOK
  BY <1>2 DEF RowsOK
<1>5. Started /\ PutsOK
  BY DEF Started, PutsOK
<1>6. \A c \in DbCaller : CallOK(dbCall[c], wrote[c])
  BY DEF CallOK
<1> QED
  BY <1>3, <1>4, <1>5, <1>6 DEF DbIInv

(***************************************************************************)
(* The service starts.                                                     *)
(***************************************************************************)
LEMMA StartKeeps == ASSUME DbIInv, NewDbExplorer PROVE DbIInv'
<1> USE DEF DbIInv, NewDbExplorer
<1>1. /\ explorer' \in [state : {"starting", "serving", "noTable", "dead"}, known : 0 .. Len(ColumnType)]
      /\ explorer'.state # "starting"
      /\ dbFaults' \in Nat /\ (dbFaults' = 0 => explorer'.known = Len(ColumnType))
  BY ColumnsAre DEF DbTypes, DbFails, getTablesFails, getColumnsFails
<1>2. UNCHANGED <<rows, lastId, dbCall, wrote>>
  OBVIOUS
<1>3. DbTypes'
  BY <1>1, <1>2 DEF DbTypes
<1>4. Known' \subseteq Columns
  BY <1>1, ColumnsAre DEF Known
<1>5. RowsOK'
  <2> SUFFICES ASSUME NEW i \in DOMAIN rows PROVE Passes(rows[i], Known')
    BY <1>1, <1>2 DEF RowsOK, Passes
  <2>1. Passes(rows[i], Columns)
    BY DEF RowsOK
  <2> QED
    BY <1>4, <2>1 DEF Passes
<1>6. Started'
  BY <1>1 DEF Started
<1>7. PutsOK'
  BY <1>2 DEF PutsOK
<1>8. \A c \in DbCaller : CallOK(dbCall[c], wrote[c])'
  BY <1>2 DEF CallOK, Started
<1> QED
  BY <1>3, <1>5, <1>6, <1>7, <1>8

(* What is true of a call stays true while the service runs.               *)
LEMMA CallStays ==
  ASSUME NEW r, NEW w, CallOK(r, w), explorer' = explorer, dbFaults \in Nat,
         dbFaults' \in {dbFaults, dbFaults + 1}
  PROVE  CallOK(r, w)'
<1>1. Known' = Known /\ (dbFaults' = 0 => dbFaults = 0) /\ (dbFaults > 0 => dbFaults' > 0)
  BY DEF Known
<1>2. (Prepared(r) => Prepared(r)')
  BY <1>1 DEF Prepared, InvalidType, Defaulted, Refused, KeyName
<1>3. Truthful(r, w) => Truthful(r, w)'
  BY <1>1 DEF Truthful, ToldTo
<1>4. Explained(r) => Explained(r)'
  BY DEF Explained
<1>5. PanicIsKnown(r, w) => PanicIsKnown(r, w)'
  BY <1>1 DEF PanicIsKnown, NilColumn, WithDefaults, Defaulted
<1> QED
  BY <1>1, <1>2, <1>3, <1>4, <1>5 DEF CallOK, ToldTo

(***************************************************************************)
(* A handler, up to its statement.                                         *)
(***************************************************************************)
Accepted(c) == /\ explorer.state # "starting" /\ dbCall[c].phase = "idle"
               /\ UNCHANGED <<explorer, rows, lastId, wrote, dbFaults>>

LEMMA HandlerKeeps ==
  ASSUME DbIInv, NEW c \in DbCaller, Accepted(c),
         NEW q \in DbRequest, dbCall' = [dbCall EXCEPT ![c] = q], q.phase # "idle", CallOK(q, 0)
  PROVE  DbIInv'
<1> USE DEF DbIInv, Accepted
<1>1. UNCHANGED <<explorer, rows, lastId, wrote, dbFaults>> /\ explorer.state # "starting"
  OBVIOUS
<1>2. /\ dbCall' \in [DbCaller -> DbRequest] /\ dbCall'[c] = q
      /\ \A d \in DbCaller \ {c} : dbCall'[d] = dbCall[d]
  BY DEF DbTypes
<1>3. wrote[c] = 0
  BY DEF CallOK
<1>4. DbTypes' /\ RowsOK' /\ Started'
  BY <1>1, <1>2 DEF DbTypes, RowsOK, Started, Passes, Known
<1>5. PutsOK'
  <2> SUFFICES ASSUME NEW d \in DbCaller, dbCall'[d].op = "put", wrote[d] # 0
               PROVE  /\ wrote[d] <= lastId
                      /\ \A e \in DbCaller : e # d /\ dbCall'[e].op = "put" => wrote[e] # wrote[d]
                      /\ \/ wrote[d] \in DOMAIN rows
                         \/ \E e \in DbCaller : dbCall'[e].op = "delete" /\ wrote[e] = wrote[d]
    BY <1>1 DEF PutsOK
  <2>1. d # c /\ dbCall[d].op = "put"
    BY <1>2, <1>3
  <2>2. /\ wrote[d] <= lastId
        /\ \A e \in DbCaller : e # d /\ dbCall[e].op = "put" => wrote[e] # wrote[d]
        /\ \/ wrote[d] \in DOMAIN rows
           \/ \E e \in DbCaller : dbCall[e].op = "delete" /\ wrote[e] = wrote[d]
    BY <2>1 DEF PutsOK
  <2> QED
    BY <1>2, <1>3, <2>2
<1>6. ASSUME NEW d \in DbCaller PROVE CallOK(dbCall[d], wrote[d])'
  <2>1. PICK r, w : r = dbCall'[d] /\ w = wrote'[d]
    OBVIOUS
  <2>2. CallOK(r, w)
    BY <1>1, <1>2, <1>3, <2>1
  <2>3. CallOK(r, w)'
    BY <1>1, <2>2, CallStays DEF DbTypes
  <2> QED
    BY <2>1, <2>3
<1> QED
  BY <1>4, <1>5, <1>6

LEMMA AcceptIs ==
  ASSUME NEW c \in DbCaller
  PROVE  (Accept(c, FALSE) => Accepted(c)) /\ (Accept(c, TRUE) => Accepted(c))
BY DEF Accept, Accepted

LEMMA AnsweredIs ==
  ASSUME NEW op \in {"root", "list"}, NEW code \in {200, 404, 405}
  PROVE  LET q == Answered(op, <<HttpStatus(code)>>)
         IN  q \in DbRequest /\ q.phase # "idle" /\ CallOK(q, 0)
<1> DEFINE q == Answered(op, <<HttpStatus(code)>>)
<1>1. /\ HttpStatus(code) \in Answer /\ HttpStatus(code).code = code /\ <<HttpStatus(code)>> \in Seq(Answer)
      /\ 0 \in 0 .. MaxId
  BY AnswersAre, DbAssumption
<1>2. /\ q.phase = "end" /\ q.op = op /\ q.answer = <<HttpStatus(code)>> /\ q \in DbRequest
      /\ ~q.unread
  BY <1>1, EmptyIs DEF Answered, DbRequest, Operation
<1> HIDE DEF q
<1>3. ToldTo(q).code = code /\ q.answer # <<>> /\ Len(q.answer) = 1
  <2>1. PICK a : a = HttpStatus(code)
    OBVIOUS
  <2>2. q.answer = <<a>> /\ a.code = code
    BY <1>1, <1>2, <2>1
  <2> QED
    BY <2>2 DEF ToldTo
<1>4. CallOK(q, 0)
  BY <1>2, <1>3 DEF CallOK, Truthful
<1> QED
  BY <1>2, <1>4 DEF q

LEMMA StatementIs ==
  ASSUME NEW op \in Operation \ {"none", "root"}, NEW i \in 0 .. MaxId, NEW d \in Datum, NEW unread \in BOOLEAN
  PROVE  LET q == Statement(op, i, d, unread)
         IN  /\ q \in DbRequest /\ q.phase = "sql" /\ q.op = op /\ q.id = i /\ q.data = d
             /\ q.unread = unread
             /\ q.answer = IF unread THEN <<HttpStatus(400)>> ELSE <<>>
BY AnswersAre DEF Statement, DbRequest

(* A call that its handler refuses, or in which it panics. *)
LEMMA RefusedIs ==
  ASSUME NEW op \in {"put", "post"}, NEW i \in 0 .. MaxId, NEW d \in Datum, NEW unread \in BOOLEAN
  PROVE  LET q == RefusedCall(Statement(op, i, d, unread))
         IN  q \in DbRequest /\ q.phase # "idle" /\ CallOK(q, 0)
<1> DEFINE stm == Statement(op, i, d, unread)
           q == RefusedCall(stm)
<1>1. /\ stm \in DbRequest /\ stm.op = op /\ stm.unread = unread
      /\ stm.answer = IF unread THEN <<HttpStatus(400)>> ELSE <<>>
  BY StatementIs DEF Operation
<1>2. HttpStatus(400) \in Answer /\ HttpStatus(400).code = 400
  BY AnswersAre
<1> HIDE DEF stm
<1>3. /\ q \in DbRequest /\ q.phase = "end" /\ q.answer = Append(stm.answer, HttpStatus(400))
      /\ q.unread = stm.unread
  <2>1. stm.answer \in Seq(Answer) /\ Append(stm.answer, HttpStatus(400)) \in Seq(Answer)
    BY <1>1, <1>2 DEF DbRequest
  <2> QED
    BY <1>1, <2>1 DEF RefusedCall, DbRequest
<1> HIDE DEF q
<1>4. q.answer # <<>> /\ ToldTo(q).code = 400 /\ Len(q.answer) = (IF q.unread THEN 2 ELSE 1)
  <2>1. stm.answer \in Seq(Answer)
    BY <1>1 DEF DbRequest
  <2>2. ToldTo(q) = HttpStatus(400) /\ q.answer # <<>> /\ Len(q.answer) = Len(stm.answer) + 1
    BY <1>2, <1>3, <2>1 DEF ToldTo
  <2>3. PICK s : s = HttpStatus(400)
    OBVIOUS
  <2>4. Len(stm.answer) = IF q.unread THEN 1 ELSE 0
    BY <1>1, <1>3, <2>3
  <2> QED
    BY <1>2, <2>2, <2>4
<1>5. CallOK(q, 0)
  BY <1>3, <1>4 DEF CallOK, Truthful, Failed
<1> QED
  BY <1>3, <1>5 DEF q, stm

LEMMA PanickedIs ==
  ASSUME NEW op \in {"put", "post"}, NEW i \in 0 .. MaxId, NEW d \in Datum, NEW unread \in BOOLEAN,
         LET q == [Statement(op, i, d, unread) EXCEPT !.phase = "panic"] IN PanicIsKnown(q, 0)
  PROVE  LET q == [Statement(op, i, d, unread) EXCEPT !.phase = "panic"]
         IN  q \in DbRequest /\ q.phase # "idle" /\ CallOK(q, 0)
<1> DEFINE stm == Statement(op, i, d, unread)
           q == [stm EXCEPT !.phase = "panic"]
<1>1. stm \in DbRequest
  BY StatementIs DEF Operation
<1> HIDE DEF stm
<1>2. q \in DbRequest /\ q.phase = "panic"
  BY <1>1 DEF DbRequest
<1>3. PanicIsKnown(q, 0)
  BY DEF stm
<1> HIDE DEF q
<1>4. CallOK(q, 0)
  BY <1>2, <1>3 DEF CallOK
<1> QED
  BY <1>2, <1>4 DEF q, stm

LEMMA PreparedIs ==
  ASSUME NEW op \in Operation \ {"none", "root"}, NEW i \in 0 .. MaxId, NEW d \in Datum, NEW unread \in BOOLEAN,
         op = "put" => ~InvalidType(d) /\ Defaulted(d) = {},
         op = "post" => ~Refused(d) /\ ~(KeyName /\ 1 \in DOMAIN d)
  PROVE  LET q == Statement(op, i, d, unread)
         IN  q \in DbRequest /\ q.phase # "idle" /\ CallOK(q, 0)
<1> DEFINE q == Statement(op, i, d, unread)
<1>1. /\ q \in DbRequest /\ q.phase = "sql" /\ q.op = op /\ q.data = d
      /\ q.unread = unread /\ q.answer = IF unread THEN <<HttpStatus(400)>> ELSE <<>>
  BY StatementIs
<1> HIDE DEF q
<1>2. Prepared(q)
  BY <1>1 DEF Prepared, Operation
<1>3. CallOK(q, 0)
  BY <1>1, <1>2 DEF CallOK
<1> QED
  BY <1>1, <1>3 DEF q

LEMMA BodiesAre ==
  ASSUME NEW b \in Bodies
  PROVE  /\ b.fields \in Datum /\ b.unread \in BOOLEAN /\ b.null \in BOOLEAN
         /\ b.null => b.fields = Empty
<1>1. \A f \in Fields : f \in Datum
  BY DbAssumption, DatumIs
<1> QED
  BY <1>1, EmptyIs DEF Bodies

LEMMA DefaultsAre ==
  ASSUME NEW d \in Datum, DbTypes
  PROVE  WithDefaults(d) \in Datum /\ Defaulted(WithDefaults(d)) = {}
<1> DEFINE D == DOMAIN d \cup Defaulted(d)
<1>1. DOMAIN d \subseteq Columns \cup {Unknown} /\ d \in [DOMAIN d -> JsonValue]
  BY IsDatum
<1>2. Defaulted(d) \subseteq Columns
  BY DbAssumption DEF Defaulted
<1>3. WithDefaults(d) \in [D -> JsonValue] /\ DOMAIN WithDefaults(d) = D
  BY <1>1 DEF WithDefaults, JsonValue
<1>4. WithDefaults(d) \in Datum
  BY <1>1, <1>2, <1>3, DatumIs
<1>5. Defaulted(WithDefaults(d)) = {}
  BY <1>3 DEF Defaulted
<1> QED
  BY <1>4, <1>5

Begins(c, q) == /\ q \in DbRequest /\ q.phase # "idle" /\ CallOK(q, 0)
                /\ dbCall' = [dbCall EXCEPT ![c] = q]

LEMMA HandleKeeps == ASSUME DbIInv, NEW c \in DbCaller, Handle(c) PROVE DbIInv'
<1>1. SUFFICES Accepted(c) /\ \E q : Begins(c, q)
  BY <1>1, HandlerKeeps DEF Begins
<1>2. CASE Root(c)
  <2>1. PICK a \in {200, 404, 405} : dbCall' = [dbCall EXCEPT ![c] = Answered("root", <<HttpStatus(a)>>)]
    BY <1>2 DEF Root
  <2> DEFINE q == Answered("root", <<HttpStatus(a)>>)
  <2>2. q \in DbRequest /\ q.phase # "idle" /\ CallOK(q, 0)
    BY AnsweredIs
  <2>3. Accepted(c)
    BY <1>2, AcceptIs DEF Root
  <2>4. Begins(c, q)
    BY <2>1, <2>2 DEF Begins
  <2> QED
    BY <2>3, <2>4
<1>3. CASE HandleRows(c)
  <2>1. LET q == Statement("list", 0, Empty, FALSE) IN q \in DbRequest /\ q.phase # "idle" /\ CallOK(q, 0)
    <3>1. 0 \in 0 .. MaxId /\ "list" \in Operation \ {"none", "root"}
      BY DbAssumption DEF Operation
    <3> QED
      BY <3>1, EmptyIs, PreparedIs
  <2>2. LET q == Answered("list", <<HttpStatus(405)>>) IN q \in DbRequest /\ q.phase # "idle" /\ CallOK(q, 0)
    BY AnsweredIs
  <2>3. Accepted(c)
    BY <1>3, AcceptIs DEF HandleRows
  <2> QED
    BY <1>3, <2>1, <2>2, <2>3 DEF HandleRows, Begins
<1>4. CASE HandleGet(c)
  <2>1. PICK i \in 0 .. MaxId : dbCall' = [dbCall EXCEPT ![c] = Statement("get", i, Empty, FALSE)]
    BY <1>4 DEF HandleGet
  <2>2. LET q == Statement("get", i, Empty, FALSE) IN q \in DbRequest /\ q.phase # "idle" /\ CallOK(q, 0)
    BY EmptyIs, PreparedIs DEF Operation
  <2>3. Accepted(c)
    BY <1>4, AcceptIs DEF HandleGet
  <2> QED
    BY <2>1, <2>2, <2>3 DEF Begins
<1>5. CASE HandleDelete(c)
  <2>1. PICK i \in 0 .. MaxId : dbCall' = [dbCall EXCEPT ![c] = Statement("delete", i, Empty, FALSE)]
    BY <1>5 DEF HandleDelete
  <2>2. LET q == Statement("delete", i, Empty, FALSE) IN q \in DbRequest /\ q.phase # "idle" /\ CallOK(q, 0)
    BY EmptyIs, PreparedIs DEF Operation
  <2>3. Accepted(c)
    BY <1>5, AcceptIs DEF HandleDelete
  <2> QED
    BY <2>1, <2>2, <2>3 DEF Begins
<1>6. CASE HandlePut(c)
  <2>0. Accepted(c)
    BY <1>6, AcceptIs DEF HandlePut
  <2> DEFINE d(b) == WithDefaults(b.fields)
             stm(b) == Statement("put", 0, d(b), b.unread)
  <2>1. PICK b \in Bodies : dbCall' = [dbCall EXCEPT ![c] =
             IF b.null /\ Defaulted(b.fields) # {} THEN [stm(b) EXCEPT !.phase = "panic"]
             ELSE IF InvalidType(stm(b).data) THEN RefusedCall(stm(b)) ELSE stm(b)]
    BY <1>6 DEF HandlePut
  <2>2. d(b) \in Datum /\ Defaulted(d(b)) = {} /\ b.unread \in BOOLEAN /\ (b.null => b.fields = Empty)
    BY BodiesAre, DefaultsAre DEF DbIInv
  <2>3. 0 \in 0 .. MaxId
    BY DbAssumption
  <2>4. stm(b).data = d(b)
    BY <2>2, <2>3, StatementIs DEF Operation
  <2> HIDE DEF d
  <2>5. CASE b.null /\ Defaulted(b.fields) # {}
    <3> DEFINE q == [stm(b) EXCEPT !.phase = "panic"]
    <3>1. q.phase = "panic" /\ q.op = "put" /\ q.data = WithDefaults(Empty)
      BY <2>2, <2>3, <2>5, StatementIs DEF Operation, DbRequest, d
    <3>2. PanicIsKnown(q, 0)
      BY <3>1 DEF PanicIsKnown
    <3>3. q \in DbRequest /\ q.phase # "idle" /\ CallOK(q, 0)
      BY <2>2, <2>3, <3>2, PanickedIs
    <3> QED
      BY <2>0, <2>1, <2>5, <3>3 DEF Begins
  <2>6. CASE ~(b.null /\ Defaulted(b.fields) # {}) /\ InvalidType(d(b))
    <3>1. LET q == RefusedCall(stm(b)) IN q \in DbRequest /\ q.phase # "idle" /\ CallOK(q, 0)
      BY <2>2, <2>3, RefusedIs
    <3> QED
      BY <2>0, <2>1, <2>4, <2>6, <3>1 DEF Begins
  <2>7. CASE ~(b.null /\ Defaulted(b.fields) # {}) /\ ~InvalidType(d(b))
    <3>1. stm(b) \in DbRequest /\ stm(b).phase # "idle" /\ CallOK(stm(b), 0)
      BY <2>2, <2>3, <2>7, PreparedIs DEF Operation
    <3> QED
      BY <2>0, <2>1, <2>4, <2>7, <3>1 DEF Begins
  <2> QED
    BY <2>5, <2>6, <2>7
<1>7. CASE HandlePost(c)
  <2>0. Accepted(c)
    BY <1>7, AcceptIs DEF HandlePost
  <2> DEFINE stm(i, b) == Statement("post", i, b.fields, b.unread)
             refused(i, b) == RefusedCall(stm(i, b))
  <2>1. PICK i \in 0 .. MaxId, b \in Bodies :
          \/ dbCall' = [dbCall EXCEPT ![c] = refused(i, b)]
          \/ NilColumn(b.fields) /\ dbCall' = [dbCall EXCEPT ![c] = [stm(i, b) EXCEPT !.phase = "panic"]]
          \/ /\ ~Refused(b.fields) /\ ~(KeyName /\ 1 \in DOMAIN b.fields)
             /\ dbCall' = [dbCall EXCEPT ![c] = stm(i, b)]
    BY <1>7 DEF HandlePost
  <2>2. b.fields \in Datum /\ b.unread \in BOOLEAN
    BY BodiesAre
  <2>3. CASE dbCall' = [dbCall EXCEPT ![c] = refused(i, b)]
    <3>1. LET q == refused(i, b) IN q \in DbRequest /\ q.phase # "idle" /\ CallOK(q, 0)
      BY <2>2, RefusedIs
    <3> QED
      BY <2>0, <2>3, <3>1 DEF Begins
  <2>4. CASE NilColumn(b.fields) /\ dbCall' = [dbCall EXCEPT ![c] = [stm(i, b) EXCEPT !.phase = "panic"]]
    <3> DEFINE q == [stm(i, b) EXCEPT !.phase = "panic"]
    <3>1. q.phase = "panic" /\ q.op = "post" /\ q.data = b.fields
      BY <2>2, StatementIs DEF Operation, DbRequest
    <3>3. PanicIsKnown(q, 0)
      BY <2>4, <3>1 DEF PanicIsKnown
    <3>4. q \in DbRequest /\ q.phase # "idle" /\ CallOK(q, 0)
      BY <2>2, <3>3, PanickedIs
    <3> QED
      BY <2>0, <2>4, <3>4 DEF Begins
  <2>5. CASE /\ ~Refused(b.fields) /\ ~(KeyName /\ 1 \in DOMAIN b.fields)
             /\ dbCall' = [dbCall EXCEPT ![c] = stm(i, b)]
    <3>1. stm(i, b) \in DbRequest /\ stm(i, b).phase # "idle" /\ CallOK(stm(i, b), 0)
      BY <2>2, <2>5, PreparedIs DEF Operation
    <3> QED
      BY <2>0, <2>5, <3>1 DEF Begins
  <2> QED
    BY <2>1, <2>3, <2>4, <2>5
<1> QED
  BY <1>2, <1>3, <1>4, <1>5, <1>6, <1>7 DEF Handle

(***************************************************************************)
(* A statement, and the answer to it.                                      *)
(***************************************************************************)

(* A call whose statement has been carried out.                            *)
Carried(r, q) ==
  /\ q \in DbRequest /\ q.op = r.op /\ q.id = r.id /\ q.data = r.data /\ q.unread = r.unread

LEMMA EndsIs ==
  ASSUME DbIInv, NEW c \in DbCaller, dbCall[c].phase = "sql", NEW a \in Answer, Ends(c, <<a>>)
  PROVE  \E q : /\ Carried(dbCall[c], q) /\ q.phase = "end" /\ dbCall' = [dbCall EXCEPT ![c] = q]
                /\ q.answer # <<>> /\ ToldTo(q) = a
                /\ Head(q.answer) = IF q.unread THEN HttpStatus(400) ELSE a
                /\ Len(q.answer) = IF q.unread THEN 2 ELSE 1
<1> DEFINE r == dbCall[c]
           q == [r EXCEPT !.phase = "end", !.answer = r.answer \o <<a>>]
<1>1. r \in DbRequest /\ Prepared(r)
  BY DEF DbIInv, DbTypes, CallOK
<1>2. dbCall' = [dbCall EXCEPT ![c] = q]
  BY DEF Ends, DbIInv, DbTypes
<1> HIDE DEF r
<1>3. PICK s : s = HttpStatus(400)
  OBVIOUS
<1>4. s \in Answer /\ r.answer = IF r.unread THEN <<s>> ELSE <<>>
  BY <1>1, <1>3, AnswersAre DEF Prepared
<1>5. r.answer \in Seq(Answer) /\ <<a>> \in Seq(Answer) /\ Len(<<a>>) = 1 /\ <<a>>[1] = a
  BY <1>1 DEF DbRequest
<1>6. /\ r.answer \o <<a>> \in Seq(Answer) /\ Len(r.answer \o <<a>>) = Len(r.answer) + 1
      /\ (r.answer \o <<a>>)[Len(r.answer) + 1] = a
      /\ Len(r.answer) # 0 => (r.answer \o <<a>>)[1] = r.answer[1]
  BY <1>5, ConcatProperties
<1>7. q \in DbRequest /\ q.phase = "end" /\ q.answer = r.answer \o <<a>>
      /\ q.op = r.op /\ q.id = r.id /\ q.data = r.data /\ q.unread = r.unread
  BY <1>1, <1>6 DEF DbRequest
<1> HIDE DEF q
<1>8. /\ q.answer # <<>> /\ ToldTo(q) = a /\ Head(q.answer) = IF q.unread THEN s ELSE a
      /\ Len(q.answer) = IF q.unread THEN 2 ELSE 1
  <2>1. /\ q.answer \in Seq(Answer) /\ Len(q.answer) = Len(r.answer) + 1
        /\ q.answer[Len(r.answer) + 1] = a /\ (Len(r.answer) # 0 => q.answer[1] = r.answer[1])
    BY <1>6, <1>7
  <2>2. q.answer # <<>> /\ ToldTo(q) = a /\ Head(q.answer) = q.answer[1]
    BY <1>5, <2>1 DEF ToldTo
  <2>3. Len(r.answer) = IF q.unread THEN 1 ELSE 0
    BY <1>4, <1>7
  <2>4. q.unread => r.answer[1] = s
    BY <1>4, <1>7
  <2> QED
    BY <2>1, <2>2, <2>3, <2>4
<1> QED
  BY <1>2, <1>3, <1>7, <1>8 DEF Carried, r

LEMMA PanicsIs ==
  ASSUME DbIInv, NEW c \in DbCaller, dbCall[c].phase = "sql", Panics(c)
  PROVE  \E q : Carried(dbCall[c], q) /\ q.phase = "panic" /\ dbCall' = [dbCall EXCEPT ![c] = q]
<1> DEFINE r == dbCall[c]
           q == [r EXCEPT !.phase = "panic"]
<1>1. r \in DbRequest
  BY DEF DbIInv, DbTypes
<1>2. dbCall' = [dbCall EXCEPT ![c] = q]
  BY DEF Panics, DbIInv, DbTypes
<1> HIDE DEF r
<1>3. Carried(r, q) /\ q.phase = "panic"
  BY <1>1 DEF Carried, DbRequest
<1> QED
  BY <1>2, <1>3 DEF r

(* The statements of one caller disturb nobody else's call.                *)
LEMMA CarriedKeeps ==
  ASSUME DbIInv, NEW c \in DbCaller, dbCall[c].phase = "sql", explorer' = explorer,
         dbFaults' \in {dbFaults, dbFaults + 1},
         NEW q, Carried(dbCall[c], q), q.phase \in {"end", "panic"}, dbCall' = [dbCall EXCEPT ![c] = q],
         NEW w \in 0 .. MaxId, wrote' = [wrote EXCEPT ![c] = w], CallOK(q, w)',
         lastId' \in 1 .. MaxId, lastId <= lastId',
         DOMAIN rows' \subseteq 1 .. lastId', rows' \in [DOMAIN rows' -> Row],
         \A i \in DOMAIN rows' : Passes(rows'[i], Known),
         \A i \in DOMAIN rows : i \in DOMAIN rows' \/ (q.op = "delete" /\ w = i),
         q.op = "put" => w = 0 \/ (w \in DOMAIN rows' /\ lastId < w /\ w <= lastId')
  PROVE  DbIInv'
<1> USE DEF DbIInv
<1>1. /\ dbCall' \in [DbCaller -> DbRequest] /\ dbCall'[c] = q
      /\ \A d \in DbCaller \ {c} : dbCall'[d] = dbCall[d]
      /\ wrote' \in [DbCaller -> 0 .. MaxId] /\ wrote'[c] = w
      /\ \A d \in DbCaller \ {c} : wrote'[d] = wrote[d]
  BY DEF DbTypes, Carried
<1>2. wrote[c] = 0 /\ q.op = dbCall[c].op /\ dbFaults' \in Nat /\ (dbFaults' = 0 => dbFaults = 0)
  BY DEF CallOK, Carried, DbTypes
<1>3. explorer.state # "starting"
  BY DEF Started
<1>4. DbTypes'
  BY <1>1, <1>2 DEF DbTypes
<1>5. RowsOK'
  BY <1>3 DEF RowsOK, Passes, Known
<1>6. Started'
  BY <1>2, <1>3 DEF Started
<1>7. \A d \in DbCaller : dbCall'[d].op = dbCall[d].op
  BY <1>1, <1>2
<1>8. PutsOK'
  <2> SUFFICES ASSUME NEW d \in DbCaller, dbCall[d].op = "put", wrote'[d] # 0
               PROVE  /\ wrote'[d] <= lastId'
                      /\ \A e \in DbCaller : e # d /\ dbCall[e].op = "put" => wrote'[e] # wrote'[d]
                      /\ \/ wrote'[d] \in DOMAIN rows'
                         \/ \E e \in DbCaller : dbCall[e].op = "delete" /\ wrote'[e] = wrote'[d]
    BY <1>7 DEF PutsOK
  <2>1. \A e \in DbCaller : dbCall[e].op = "put" /\ wrote[e] # 0 => wrote[e] <= lastId
    BY DEF PutsOK
  <2>2. lastId \in Nat /\ lastId' \in Nat /\ w \in Nat /\ \A e \in DbCaller : wrote[e] \in Nat
    BY DEF DbTypes
  <2>3. CASE d = c
    <3>1. w \in DOMAIN rows' /\ lastId < w /\ w <= lastId' /\ wrote'[d] = w
      BY <1>1, <1>2, <2>3
    <3>2. ASSUME NEW e \in DbCaller, e # d, dbCall[e].op = "put" PROVE wrote'[e] # w
      <4>1. wrote'[e] = wrote[e] /\ (wrote[e] = 0 \/ wrote[e] <= lastId)
        BY <1>1, <2>1, <2>3, <3>2
      <4> QED
        BY <2>2, <3>1, <4>1
    <3> QED
      BY <3>1, <3>2
  <2>4. CASE d # c
    <3>1. /\ wrote'[d] = wrote[d] /\ wrote[d] <= lastId
          /\ \A e \in DbCaller : e # d /\ dbCall[e].op = "put" => wrote[e] # wrote[d]
          /\ \/ wrote[d] \in DOMAIN rows
             \/ \E e \in DbCaller : dbCall[e].op = "delete" /\ wrote[e] = wrote[d]
      BY <1>1, <2>4 DEF PutsOK
    <3>2. wrote'[d] <= lastId'
      BY <2>2, <3>1
    <3>3. ASSUME NEW e \in DbCaller, e # d, dbCall[e].op = "put" PROVE wrote'[e] # wrote'[d]
      <4>1. CASE e = c
        BY <1>1, <1>2, <2>2, <3>1, <3>3, <4>1
      <4>2. CASE e # c
        BY <1>1, <3>1, <3>3, <4>2
      <4> QED
        BY <4>1, <4>2
    <3>4. CASE wrote[d] \in DOMAIN rows
      BY <1>1, <1>2, <3>1, <3>2, <3>3, <3>4
    <3>5. CASE \E e \in DbCaller : dbCall[e].op = "delete" /\ wrote[e] = wrote[d]
      <4>1. PICK e \in DbCaller : dbCall[e].op = "delete" /\ wrote[e] = wrote[d]
        BY <3>5
      <4>2. e # c
        BY <1>2, <3>1, <4>1
      <4>3. wrote'[e] = wrote'[d]
        BY <1>1, <3>1, <4>1, <4>2
      <4> QED
        BY <3>2, <3>3, <4>1, <4>3
    <3> QED
      BY <3>1, <3>4, <3>5
  <2> QED
    BY <2>3, <2>4
<1>9. ASSUME NEW d \in DbCaller PROVE CallOK(dbCall[d], wrote[d])'
  <2>1. CASE d = c
    BY <1>1, <2>1
  <2>2. CASE d # c
    <3>1. PICK r, v : r = dbCall'[d] /\ v = wrote'[d]
      OBVIOUS
    <3>2. CallOK(r, v)
      BY <1>1, <2>2, <3>1
    <3>3. CallOK(r, v)'
      BY <3>2, CallStays DEF DbTypes
    <3> QED
      BY <3>1, <3>3
  <2> QED
    BY <2>1, <2>2
<1> QED
  BY <1>4, <1>5, <1>6, <1>8, <1>9

(* Its statement done, a caller is answered, and the answer is right for   *)
(* the row w that it changed.                                              *)
Done(c, q, w) == /\ Carried(dbCall[c], q) /\ q.phase \in {"end", "panic"}
                 /\ dbCall' = [dbCall EXCEPT ![c] = q] /\ CallOK(q, w)'

LEMMA ErrorIs ==
  ASSUME DbIInv, NEW c \in DbCaller, dbCall[c].phase = "sql", AfterError(c), explorer' = explorer,
         dbFaults' \in {dbFaults, dbFaults + 1}, NEW w \in 0 .. MaxId, w = 0 \/ dbFaults' # 0,
         dbFaults' = 0 => /\ dbCall[c].op # "delete"
                          /\ \A q : Carried(dbCall[c], q) => Explained(q)
  PROVE  \E q : Done(c, q, w)
<1>1. PICK s : s = HttpStatus(500)
  OBVIOUS
<1>2. s \in Answer /\ s.code = 500 /\ HttpStatus(400).code = 400 /\ dbFaults' \in Nat
  BY <1>1, AnswersAre DEF DbIInv, DbTypes
<1>3. \/ Panics(c) /\ dbCall[c].op = "delete"
      \/ Ends(c, <<s>>)
  BY <1>1 DEF AfterError
<1>4. ASSUME NEW q, Carried(dbCall[c], q), dbFaults' = 0 PROVE Explained(q)'
  <2>1. Explained(q)
    BY <1>4
  <2> QED
    BY <2>1 DEF Explained
<1>5. CASE Panics(c) /\ dbCall[c].op = "delete"
  <2>1. PICK q : Carried(dbCall[c], q) /\ q.phase = "panic" /\ dbCall' = [dbCall EXCEPT ![c] = q]
    BY <1>5, PanicsIs
  <2>2. CallOK(q, w)'
    BY <1>2, <1>5, <2>1 DEF CallOK, PanicIsKnown, Carried
  <2> QED
    BY <2>1, <2>2 DEF Done
<1>6. CASE Ends(c, <<s>>)
  <2>1. PICK q : /\ Carried(dbCall[c], q) /\ q.phase = "end" /\ dbCall' = [dbCall EXCEPT ![c] = q]
                 /\ q.answer # <<>> /\ ToldTo(q) = s
                 /\ Head(q.answer) = IF q.unread THEN HttpStatus(400) ELSE s
                 /\ Len(q.answer) = IF q.unread THEN 2 ELSE 1
    BY <1>2, <1>6, EndsIs
  <2>2. Truthful(q, w)'
    BY <1>2, <2>1 DEF Truthful, ToldTo, Failed
  <2>3. CallOK(q, w)'
    BY <1>4, <2>1, <2>2 DEF CallOK
  <2> QED
    BY <2>1, <2>3 DEF Done
<1> QED
  BY <1>3, <1>5, <1>6

LEMMA ResultIs ==
  ASSUME DbIInv, NEW c \in DbCaller, dbCall[c].phase = "sql", explorer' = explorer,
         NEW v \in 0 .. MaxId, Result(c, <<Told(v)>>),
         NEW w \in 0 .. MaxId, v # 0 <=> w # 0, dbCall[c].op = "put" => v = w /\ w # 0
  PROVE  dbFaults' \in {dbFaults, dbFaults + 1} /\ \E q : Done(c, q, w)
<1>1. PICK a : a = Told(v)
  OBVIOUS
<1>2. a \in Answer /\ a.code = 200 /\ a.value = v
  BY <1>1, AnswersAre
<1>3. \/ Ends(c, <<a>>) /\ UNCHANGED dbFaults
      \/ AfterError(c) /\ dbFaults' = dbFaults + 1
  BY <1>1 DEF Result, DbFails
<1>4. CASE Ends(c, <<a>>) /\ UNCHANGED dbFaults
  <2>1. PICK q : /\ Carried(dbCall[c], q) /\ q.phase = "end" /\ dbCall' = [dbCall EXCEPT ![c] = q]
                 /\ q.answer # <<>> /\ ToldTo(q) = a
                 /\ Head(q.answer) = IF q.unread THEN HttpStatus(400) ELSE a
                 /\ Len(q.answer) = IF q.unread THEN 2 ELSE 1
    BY <1>2, <1>4, EndsIs
  <2>2. ToldTo(q)' = a
    BY <2>1 DEF ToldTo
  <2>3. Truthful(q, w)'
    BY <1>2, <2>1, <2>2 DEF Truthful, Failed, Carried
  <2>4. CallOK(q, w)'
    BY <1>2, <2>1, <2>2, <2>3 DEF CallOK
  <2> QED
    BY <1>4, <2>1, <2>4 DEF Done
<1>5. CASE AfterError(c) /\ dbFaults' = dbFaults + 1
  <2>1. dbFaults \in Nat /\ dbFaults' # 0
    BY <1>5 DEF DbIInv, DbTypes
  <2> QED
    BY <1>5, <2>1, ErrorIs
<1> QED
  BY <1>3, <1>4, <1>5

(* A statement that finds the table as it leaves it.                       *)
LEMMA TableSame ==
  ASSUME DbIInv, NEW c \in DbCaller, dbCall[c].phase = "sql", explorer' = explorer,
         dbFaults' \in {dbFaults, dbFaults + 1}, NEW q, Done(c, q, 0),
         UNCHANGED <<rows, lastId, wrote>>
  PROVE  DbIInv'
<1>1. wrote[c] = 0 /\ 0 \in 0 .. MaxId /\ wrote' = [wrote EXCEPT ![c] = 0]
  BY DbAssumption DEF DbIInv, DbTypes, CallOK
<1>2. /\ lastId' \in 1 .. MaxId /\ lastId <= lastId' /\ DOMAIN rows' \subseteq 1 .. lastId'
      /\ rows' \in [DOMAIN rows' -> Row]
  BY DEF DbIInv, DbTypes
<1>3. \A i \in DOMAIN rows' : Passes(rows'[i], Known)
  BY DEF DbIInv, RowsOK
<1> QED
  BY <1>1, <1>2, <1>3, CarriedKeeps DEF Done

LEMMA RejectedKeeps ==
  ASSUME DbIInv, NEW c \in DbCaller, dbCall[c].phase = "sql", explorer' = explorer, AfterError(c),
         dbFaults' \in {dbFaults, dbFaults + 1}, UNCHANGED <<rows, lastId, wrote>>,
         dbFaults' = 0 => /\ dbCall[c].op # "delete"
                          /\ \A q : Carried(dbCall[c], q) => Explained(q)
  PROVE  DbIInv'
<1>1. 0 \in 0 .. MaxId
  BY DbAssumption
<1>2. PICK q : Done(c, q, 0)
  BY <1>1, ErrorIs
<1> QED
  BY <1>2, TableSame

LEMMA SqlFailsKeeps == ASSUME DbIInv, NEW c \in DbCaller, SqlFails(c) PROVE DbIInv'
<1>1. dbFaults \in Nat /\ dbFaults' = dbFaults + 1 /\ dbFaults' # 0
  BY DEF SqlFails, DbFails, DbIInv, DbTypes
<1> QED
  BY <1>1, RejectedKeeps DEF SqlFails

(* A database that fails nobody has let the explorer read all columns.     *)
LEMMA HealthyKnows ==
  ASSUME DbIInv, NEW c \in DbCaller, dbCall[c].phase = "sql", dbFaults = 0
  PROVE  explorer.known = Len(ColumnType) /\ Known = Columns /\ KeyName
BY ColumnsAre DEF DbIInv, Started, Known, KeyName

LEMMA SqlSelectKeeps ==
  ASSUME DbIInv, NEW c \in DbCaller, SqlSelect(c) \/ SqlSelectRow(c) PROVE DbIInv'
<1>1. /\ dbCall[c].phase = "sql" /\ dbCall[c].op \in {"list", "get"}
      /\ UNCHANGED <<explorer, rows, lastId, wrote, dbFaults>>
  BY DEF SqlSelect, SqlSelectRow, Sql
<1>2. PICK code \in {200, 404, 500} : /\ Ends(c, <<HttpStatus(code)>>)
                                      /\ code = 500 /\ dbFaults = 0 => dbCall[c].op = "list"
  <2>1. CASE SqlSelect(c)
    BY <2>1 DEF SqlSelect, Sql
  <2>2. CASE SqlSelectRow(c)
    <3>1. PICK k \in {200, 404, 500} :
            /\ k = IF ~KeyName THEN 500
                   ELSE IF dbCall[c].id \notin DOMAIN rows THEN 404
                   ELSE IF explorer.known # Len(ColumnType) THEN 500 ELSE 200
            /\ Ends(c, <<HttpStatus(k)>>)
      BY <2>2 DEF SqlSelectRow
    <3> QED
      BY <1>1, <3>1, HealthyKnows
  <2> QED
    BY <2>1, <2>2
<1>3. PICK s : s = HttpStatus(code)
  OBVIOUS
<1>4. s \in Answer /\ s.code = code
  BY <1>3, AnswersAre
<1>5. PICK q : /\ Carried(dbCall[c], q) /\ q.phase = "end" /\ dbCall' = [dbCall EXCEPT ![c] = q]
               /\ q.answer # <<>> /\ ToldTo(q) = s /\ Len(q.answer) = IF q.unread THEN 2 ELSE 1
  BY <1>1, <1>2, <1>3, <1>4, EndsIs
<1>6. q.op \in {"list", "get"} /\ ToldTo(q)' = s
  BY <1>1, <1>5 DEF Carried, ToldTo
<1>7. Truthful(q, 0)'
  BY <1>5, <1>6 DEF Truthful
<1>8. code = 500 /\ dbFaults' = 0 => Explained(q)'
  BY <1>1, <1>2, <1>5 DEF Explained, Carried
<1>9. CallOK(q, 0)'
  BY <1>4, <1>5, <1>6, <1>7, <1>8 DEF CallOK
<1>10. Done(c, q, 0)
  BY <1>5, <1>9 DEF Done
<1> QED
  BY <1>1, <1>10, TableSame

LEMMA SqlInsertKeeps == ASSUME DbIInv, NEW c \in DbCaller, SqlInsert(c) PROVE DbIInv'
<1> DEFINE r == dbCall[c]
           row == Inserted(r.data)
           id == lastId + 1
<1>1. /\ r.phase = "sql" /\ r.op = "put" /\ explorer' = explorer /\ id <= MaxId
      /\ r \in DbRequest /\ Prepared(r) /\ r.data \in Datum
  BY DEF SqlInsert, Sql, DbIInv, DbTypes, CallOK, DbRequest
<1>2. r.data \in [DOMAIN r.data -> JsonValue] /\ ~InvalidType(r.data) /\ Defaulted(r.data) = {}
  BY <1>1, IsDatum DEF Prepared
<1> HIDE DEF r
<1>3. row \in [Columns \ {1} -> JsonValue]
      /\ \A k \in Columns \ {1} : row[k] = IF k \in Known \cap DOMAIN r.data THEN r.data[k] ELSE "null"
  BY <1>2 DEF Inserted, JsonValue
<1> HIDE DEF row
<1>4. CASE Rejected(c) /\ ~Storable(row)
  <2>1. ASSUME dbFaults = 0, NEW q, Carried(r, q) PROVE Explained(q)
    <3>1. Known = Columns
      BY <1>1, <2>1, HealthyKnows DEF r
    <3>2. PICK k \in Columns \ {1} : row[k] = "object" \/ (k \in NotNull /\ row[k] = "null")
      BY <1>3, <1>4 DEF Storable
    <3>3. k \in DOMAIN r.data /\ r.data[k] \in {"object", "null"}
      BY <1>2, <1>3, <3>1, <3>2 DEF Defaulted
    <3> QED
      BY <1>1, <2>1, <3>3 DEF Explained, Carried
  <2>2. AfterError(c) /\ UNCHANGED <<rows, lastId, wrote, dbFaults>>
    BY <1>4 DEF Rejected
  <2> QED
    BY <1>1, <2>1, <2>2, RejectedKeeps DEF r
<1>5. CASE /\ Storable(row) /\ lastId' = id /\ wrote' = [wrote EXCEPT ![c] = id]
           /\ rows' = [i \in DOMAIN rows \cup {id} |-> IF i = id THEN row ELSE rows[i]]
           /\ Result(c, <<Told(id)>>)
  <2>1. PICK w \in 0 .. MaxId :
          /\ w = id /\ lastId \in 1 .. MaxId /\ w \in 1 .. MaxId /\ lastId < w /\ w # 0
          /\ DOMAIN rows \subseteq 1 .. lastId /\ rows \in [DOMAIN rows -> Row]
    BY <1>1, DbAssumption DEF DbIInv, DbTypes
  <2>2. /\ Storable(row) /\ lastId' = w /\ wrote' = [wrote EXCEPT ![c] = w]
         /\ rows' = [i \in DOMAIN rows \cup {w} |-> IF i = w THEN row ELSE rows[i]]
         /\ Result(c, <<Told(w)>>)
    BY <1>5, <2>1
  <2> HIDE DEF id
  <2>3. PICK q : Done(c, q, w)
    BY <1>1, <2>2, <2>1, ResultIs DEF r
  <2>4. dbFaults' \in {dbFaults, dbFaults + 1}
    BY <1>1, <2>2, <2>1, ResultIs DEF r
  <2>5. row \in Row
    BY <1>3, <2>2 DEF Storable, Row
  <2>6. Passes(row, Known)
    <3> SUFFICES ASSUME NEW k \in Columns \ {1}
                 PROVE  /\ k \in NotNull => row[k] # "null"
                        /\ k \in Known \cap DOMAIN ValidMap => JsonType(row[k]) \in {ValidMap[k], "bool", "null"}
      BY DEF Passes
    <3>1. row[k] # "object" /\ (k \in NotNull => row[k] # "null")
      BY <1>3, <2>2 DEF Storable
    <3>2. CASE k \in Known \cap DOMAIN ValidMap /\ k \in DOMAIN r.data
      <4>1. JsonType(r.data[k]) \notin {"text", "float64"} \ {ValidMap[k]} /\ row[k] = r.data[k]
        BY <1>2, <1>3, <3>2 DEF InvalidType
      <4>2. row[k] \in JsonValue
        BY <1>3
      <4> QED
        BY <3>1, <4>1, <4>2 DEF JsonType, JsonValue
    <3>3. CASE k \notin DOMAIN r.data
      BY <1>3, <3>1, <3>3 DEF JsonType
    <3> QED
      BY <3>1, <3>2, <3>3
  <2>7. /\ DOMAIN rows' = DOMAIN rows \cup {w} /\ rows'[w] = row
        /\ \A i \in DOMAIN rows : i # w /\ rows'[i] = rows[i]
    BY <2>2, <2>1
  <2>8. DOMAIN rows' \subseteq 1 .. lastId' /\ rows' \in [DOMAIN rows' -> Row]
    BY <2>2, <2>1, <2>5, <2>7
  <2>9. \A i \in DOMAIN rows' : Passes(rows'[i], Known)
    BY <2>6, <2>7 DEF DbIInv, RowsOK
  <2>10. lastId' \in 1 .. MaxId /\ lastId <= lastId' /\ lastId < w /\ w <= lastId'
    BY <2>2, <2>1
  <2>11. dbCall[c].phase = "sql" /\ explorer' = explorer /\ wrote' = [wrote EXCEPT ![c] = w]
    BY <1>1, <2>2 DEF r
  <2>12. w \in DOMAIN rows' /\ \A i \in DOMAIN rows : i \in DOMAIN rows'
    BY <2>7
  <2> QED
    BY <2>1, <2>3, <2>4, <2>8, <2>9, <2>10, <2>11, <2>12, CarriedKeeps DEF Done
<1> QED
  BY <1>4, <1>5 DEF SqlInsert, row, r

LEMMA SqlUpdateKeeps == ASSUME DbIInv, NEW c \in DbCaller, SqlUpdate(c) PROVE DbIInv'
<1> DEFINE r == dbCall[c]
           data == r.data
           id == r.id
           found == id \in DOMAIN rows
           row == [k \in Columns \ {1} |-> IF k \in DOMAIN data THEN data[k] ELSE rows[id][k]]
           changes == found /\ row # rows[id]
           accepted == /\ KeyName /\ DOMAIN data # {} /\ DOMAIN data \subseteq Columns \ {1}
                       /\ \A k \in DOMAIN data : data[k] # "object"
                       /\ found => Storable(row)
<1>1. /\ r.phase = "sql" /\ r.op = "post" /\ explorer' = explorer
      /\ r \in DbRequest /\ Prepared(r) /\ r.data \in Datum /\ id \in 0 .. MaxId
  BY DEF SqlUpdate, Sql, DbIInv, DbTypes, CallOK, DbRequest
<1>2. data \in [DOMAIN data -> JsonValue] /\ ~Refused(data) /\ ~(KeyName /\ 1 \in DOMAIN data)
      /\ DOMAIN data \subseteq Columns \cup {Unknown}
  BY <1>1, IsDatum DEF Prepared
<1>3. \/ Rejected(c) /\ ~accepted
      \/ /\ accepted
         /\ rows' = IF changes THEN [rows EXCEPT ![id] = row] ELSE rows
         /\ wrote' = IF changes THEN [wrote EXCEPT ![c] = id] ELSE wrote
         /\ UNCHANGED lastId
         /\ Result(c, <<Told(IF changes THEN 1 ELSE 0)>>)
  BY DEF SqlUpdate
<1>4. /\ lastId \in 1 .. MaxId /\ DOMAIN rows \subseteq 1 .. lastId /\ rows \in [DOMAIN rows -> Row]
      /\ \A i \in DOMAIN rows : Passes(rows[i], Known)
      /\ wrote \in [DbCaller -> 0 .. MaxId] /\ wrote[c] = 0
  BY <1>1 DEF DbIInv, DbTypes, RowsOK, CallOK
<1> HIDE DEF r
<1>5. \A k \in Columns \ {1} : row[k] = IF k \in DOMAIN data THEN data[k] ELSE rows[id][k]
  OBVIOUS
<1>6. found => rows[id] \in Row /\ Passes(rows[id], Known)
  BY <1>4
<1>7. found => row \in [Columns \ {1} -> JsonValue]
  <2> SUFFICES ASSUME found, NEW k \in Columns \ {1} PROVE row[k] \in JsonValue
    OBVIOUS
  <2>1. k \notin DOMAIN data => rows[id][k] \in JsonValue
    BY <1>6 DEF Row
  <2>2. k \in DOMAIN data => data[k] \in JsonValue
    BY <1>2
  <2> QED
    BY <1>5, <2>1, <2>2
<1> HIDE DEF row
<1>8. CASE Rejected(c) /\ ~accepted
  <2>1. ASSUME dbFaults = 0, NEW q, Carried(r, q) PROVE Explained(q)
    <3>1. Known = Columns /\ KeyName
      BY <1>1, <2>1, HealthyKnows DEF r
    <3>2. \/ DOMAIN data = {} \/ Unknown \in DOMAIN data
          \/ \E k \in DOMAIN data : data[k] = "object"
      <4> SUFFICES ASSUME DOMAIN data # {}, Unknown \notin DOMAIN data, \A k \in DOMAIN data : data[k] # "object"
                   PROVE  FALSE
        OBVIOUS
      <4>1. found /\ ~Storable(row)
        BY <1>2, <1>8, <3>1
      <4>2. PICK k \in Columns \ {1} : row[k] = "object" \/ (k \in NotNull /\ row[k] = "null")
        BY <1>7, <4>1 DEF Storable
      <4>3. CASE k \in DOMAIN data
        BY <1>2, <1>5, <3>1, <4>2, <4>3 DEF Refused
      <4>4. CASE k \notin DOMAIN data
        BY <1>5, <1>6, <4>1, <4>2, <4>4 DEF Row, Passes
      <4> QED
        BY <4>3, <4>4
    <3> QED
      BY <1>1, <2>1, <3>2 DEF Explained, Carried
  <2>2. AfterError(c) /\ UNCHANGED <<rows, lastId, wrote, dbFaults>>
    BY <1>8 DEF Rejected
  <2> QED
    BY <1>1, <2>1, <2>2, RejectedKeeps DEF r
<1>9. CASE accepted
  <2>1. PICK n \in 0 .. MaxId, w \in 0 .. MaxId :
          /\ n = IF changes THEN 1 ELSE 0
          /\ w = IF changes THEN id ELSE 0
          /\ n # 0 <=> w # 0
    <3>1. 0 \in 0 .. MaxId /\ 1 \in 0 .. MaxId /\ (found => id # 0)
      BY <1>4, DbAssumption
    <3> QED
      BY <1>1, <3>1
  <2>2. Result(c, <<Told(n)>>) /\ wrote' = [wrote EXCEPT ![c] = w] /\ lastId' = lastId
    BY <1>3, <1>4, <1>9, <2>1
  <2>3. PICK q : Done(c, q, w)
    BY <1>1, <2>1, <2>2, ResultIs DEF r
  <2>4. dbFaults' \in {dbFaults, dbFaults + 1}
    BY <1>1, <2>1, <2>2, ResultIs DEF r
  <2>5. found => row \in Row /\ Passes(row, Known)
    <3> SUFFICES ASSUME found PROVE row \in Row /\ Passes(row, Known)
      OBVIOUS
    <3>1. Storable(row)
      BY <1>9
    <3>2. row \in Row
      BY <1>7, <3>1 DEF Storable, Row
    <3>3. ASSUME NEW k \in Columns \ {1}, k \in Known \cap DOMAIN ValidMap
          PROVE  JsonType(row[k]) \in {ValidMap[k], "bool", "null"}
      <4>1. CASE k \in DOMAIN data
        <5>1. JsonType(data[k]) \notin {"text", "float64"} \ {ValidMap[k]} /\ row[k] = data[k]
          BY <1>2, <1>5, <3>3, <4>1 DEF Refused, InvalidType
        <5>2. row[k] \in JsonValue \ {"object"}
          BY <3>2 DEF Row
        <5> QED
          BY <5>1, <5>2 DEF JsonType, JsonValue
      <4>2. CASE k \notin DOMAIN data
        BY <1>5, <1>6, <3>3, <4>2 DEF Passes
      <4> QED
        BY <4>1, <4>2
    <3>4. \A k \in Columns \ {1} : k \in NotNull => row[k] # "null"
      BY <1>7, <3>1 DEF Storable
    <3> QED
      BY <3>2, <3>3, <3>4 DEF Passes
  <2>6. /\ DOMAIN rows' = DOMAIN rows
        /\ \A i \in DOMAIN rows : rows'[i] \in Row /\ Passes(rows'[i], Known)
        /\ rows' \in [DOMAIN rows -> Row]
    <3>1. CASE changes
      BY <1>3, <1>4, <1>9, <2>5, <3>1
    <3>2. CASE ~changes
      BY <1>3, <1>4, <1>9, <3>2
    <3> QED
      BY <3>1, <3>2
  <2>7. /\ lastId' \in 1 .. MaxId /\ lastId <= lastId' /\ DOMAIN rows' \subseteq 1 .. lastId'
        /\ rows' \in [DOMAIN rows' -> Row] /\ \A i \in DOMAIN rows' : Passes(rows'[i], Known)
    BY <1>4, <2>2, <2>6
  <2>8. q.op # "put"
    BY <1>1, <2>3 DEF Done, Carried, r
  <2> QED
    BY <1>1, <2>2, <2>3, <2>4, <2>6, <2>7, <2>8, CarriedKeeps DEF Done, r
<1> QED
  BY <1>3, <1>8, <1>9

LEMMA SqlDeleteKeeps == ASSUME DbIInv, NEW c \in DbCaller, SqlDelete(c) PROVE DbIInv'
<1> DEFINE r == dbCall[c]
           id == r.id
           gone == DOMAIN rows \cap {id}
<1>1. /\ r.phase = "sql" /\ r.op = "delete" /\ explorer' = explorer
      /\ r \in DbRequest /\ id \in 0 .. MaxId
  BY DEF SqlDelete, Sql, DbIInv, DbTypes, CallOK, DbRequest
<1>2. \/ Rejected(c) /\ ~KeyName
      \/ /\ KeyName
         /\ rows' = [i \in DOMAIN rows \ gone |-> rows[i]]
         /\ wrote' = IF gone # {} THEN [wrote EXCEPT ![c] = id] ELSE wrote
         /\ UNCHANGED lastId
         /\ Result(c, <<Told(Cardinality(gone))>>)
  BY DEF SqlDelete
<1>3. /\ lastId \in 1 .. MaxId /\ DOMAIN rows \subseteq 1 .. lastId /\ rows \in [DOMAIN rows -> Row]
      /\ \A i \in DOMAIN rows : Passes(rows[i], Known)
      /\ wrote \in [DbCaller -> 0 .. MaxId] /\ wrote[c] = 0
  BY <1>1 DEF DbIInv, DbTypes, RowsOK, CallOK
<1> HIDE DEF r
<1>4. CASE Rejected(c) /\ ~KeyName
  <2>1. dbFaults # 0
    BY <1>1, <1>4, HealthyKnows DEF r
  <2>2. AfterError(c) /\ UNCHANGED <<rows, lastId, wrote, dbFaults>>
    BY <1>4 DEF Rejected
  <2> QED
    BY <1>1, <2>1, <2>2, RejectedKeeps DEF r
<1>5. CASE ~(Rejected(c) /\ ~KeyName)
  <2>1. PICK n \in 0 .. MaxId, w \in 0 .. MaxId :
          /\ n = Cardinality(gone)
          /\ w = IF gone # {} THEN id ELSE 0
          /\ n # 0 <=> w # 0
    <3>1. 0 \in 0 .. MaxId /\ 1 \in 0 .. MaxId
      BY DbAssumption
    <3>2. CASE id \in DOMAIN rows
      <4>1. gone = {id} /\ id # 0
        BY <1>3, <3>2
      <4>2. Cardinality({id}) = 1
        BY FS_Singleton
      <4> QED
        BY <1>1, <3>1, <4>1, <4>2
    <3>3. CASE id \notin DOMAIN rows
      <4>1. gone = {}
        BY <3>3
      <4>2. Cardinality({}) = 0
        BY FS_EmptySet
      <4> QED
        BY <3>1, <4>1, <4>2
    <3> QED
      BY <3>2, <3>3
  <2>2. Result(c, <<Told(n)>>) /\ wrote' = [wrote EXCEPT ![c] = w] /\ lastId' = lastId
    BY <1>2, <1>3, <1>5, <2>1
  <2>3. PICK q : Done(c, q, w)
    BY <1>1, <2>1, <2>2, ResultIs DEF r
  <2>4. dbFaults' \in {dbFaults, dbFaults + 1}
    BY <1>1, <2>1, <2>2, ResultIs DEF r
  <2>5. q.op = "delete"
    BY <1>1, <2>3 DEF Done, Carried, r
  <2>6. /\ DOMAIN rows' = DOMAIN rows \ gone /\ \A i \in DOMAIN rows' : rows'[i] = rows[i]
    BY <1>2, <1>5
  <2>7. /\ lastId' \in 1 .. MaxId /\ lastId <= lastId' /\ DOMAIN rows' \subseteq 1 .. lastId'
        /\ rows' \in [DOMAIN rows' -> Row] /\ \A i \in DOMAIN rows' : Passes(rows'[i], Known)
    BY <1>2, <1>3, <1>5, <2>2, <2>6
  <2>8. \A i \in DOMAIN rows : i \in DOMAIN rows' \/ (q.op = "delete" /\ w = i)
    BY <2>1, <2>5, <2>6
  <2> QED
    BY <1>1, <2>2, <2>3, <2>4, <2>5, <2>7, <2>8, CarriedKeeps DEF Done, r
<1> QED
  BY <1>2, <1>4, <1>5

LEMMA NextDbIInv == DbIInv /\ [DbNext]_dbVars => DbIInv'
<1> SUFFICES ASSUME DbIInv, [DbNext]_dbVars PROVE DbIInv'
  OBVIOUS
<1>1. CASE NewDbExplorer
  BY <1>1, StartKeeps
<1>2. ASSUME NEW c \in DbCaller, Handle(c) PROVE DbIInv'
  BY <1>2, HandleKeeps
<1>3. ASSUME NEW c \in DbCaller, Execute(c) PROVE DbIInv'
  BY <1>3, SqlFailsKeeps, SqlSelectKeeps, SqlInsertKeeps, SqlUpdateKeeps, SqlDeleteKeeps DEF Execute
<1>4. CASE UNCHANGED dbVars
  <2>1. UNCHANGED <<explorer, rows, lastId, dbCall, wrote, dbFaults>>
    BY <1>4 DEF dbVars
  <2>2. DbTypes' /\ RowsOK' /\ Started' /\ PutsOK'
    BY <2>1 DEF DbIInv, DbTypes, RowsOK, Started, PutsOK, Passes, Known
  <2>3. ASSUME NEW d \in DbCaller PROVE CallOK(dbCall[d], wrote[d])'
    <3>1. PICK r, v : r = dbCall'[d] /\ v = wrote'[d]
      OBVIOUS
    <3>2. CallOK(r, v)
      BY <2>1, <3>1 DEF DbIInv
    <3>3. CallOK(r, v)'
      BY <2>1, <3>2, CallStays DEF DbIInv, DbTypes
    <3> QED
      BY <3>1, <3>3
  <2> QED
    BY <2>2, <2>3 DEF DbIInv
<1> QED
  BY <1>1, <1>2, <1>3, <1>4 DEF DbNext

LEMMA TableIs == DbIInv => TableKept
<1> SUFFICES ASSUME DbIInv PROVE TableKept
  OBVIOUS
<1>1. DbTypes
  BY DEF DbIInv
<1>2. DbTypeOK
  <2>1. /\ explorer.state \in {"starting", "serving", "noTable", "dead"}
        /\ explorer.known \in 0 .. Len(ColumnType)
    BY <1>1 DEF DbTypes
  <2>2. DOMAIN rows \subseteq 1 .. lastId /\ lastId <= MaxId
    BY <1>1, DbAssumption DEF DbTypes
  <2>3. \A i \in DOMAIN rows : rows[i] \in [Columns \ {1} -> JsonValue]
    BY <1>1 DEF DbTypes, Row
  <2>4. \A c \in DbCaller : /\ dbCall[c].phase \in {"idle", "sql", "end", "panic"}
                            /\ dbCall[c].answer \in Seq(Answer) /\ wrote[c] \in 0 .. MaxId
    BY <1>1 DEF DbTypes, DbRequest
  <2> QED
    BY <2>1, <2>2, <2>3, <2>4 DEF DbTypeOK
<1>3. RowsWellTyped
  BY DEF DbIInv, RowsOK, Passes, RowsWellTyped
<1> QED
  BY <1>2, <1>3 DEF TableKept

LEMMA AnswersTell == DbIInv => AnswersAreTrue
<1> SUFFICES ASSUME DbIInv PROVE AnswersAreTrue
  OBVIOUS
<1>1. \A c \in DbCaller : CallOK(dbCall[c], wrote[c])
  BY DEF DbIInv
<1>2. RefusedMeansUntouched
  BY <1>1 DEF RefusedMeansUntouched, CallOK, Truthful
<1>3. ChangesReported
  <2> SUFFICES ASSUME NEW c \in DbCaller, dbCall[c].phase = "end", ToldTo(dbCall[c]).code \notin Failed,
                      dbCall[c].op \in {"put", "post", "delete"}
               PROVE  LET told == ToldTo(dbCall[c])
                      IN  /\ told.value # 0 <=> wrote[c] # 0
                          /\ dbCall[c].op = "put" =>
                               /\ told.value = wrote[c]
                               /\ \A d \in DbCaller : d # c /\ dbCall[d].op = "put" => wrote[d] # told.value
                               /\ told.value \in DOMAIN rows
                                    \/ \E d \in DbCaller : dbCall[d].op = "delete" /\ wrote[d] = told.value
    BY DEF ChangesReported, ToldTo
  <2>1. /\ ToldTo(dbCall[c]).value # 0 <=> wrote[c] # 0
        /\ dbCall[c].op = "put" => ToldTo(dbCall[c]).value = wrote[c] /\ wrote[c] # 0
    BY <1>1 DEF CallOK, Truthful
  <2> QED
    BY <2>1 DEF DbIInv, PutsOK
<1>4. HealthyFailures
  BY <1>1 DEF HealthyFailures, CallOK, ToldTo, Explained
<1>5. AnsweredOrKnownPanic
  BY <1>1 DEF AnsweredOrKnownPanic, CallOK, Truthful, PanicIsKnown
<1> QED
  BY <1>2, <1>3, <1>4, <1>5 DEF AnswersAreTrue

(* hw6: whatever several callers send and in whatever order their          *)
(* statements are carried out, the table keeps its types, and no row has a *)
(* value of another JSON type in a checked column or a null where the      *)
(* table forbids it.                                                       *)
THEOREM TheTableIsKept == DbSpec => []TableKept
BY InitDbIInv, NextDbIInv, TableIs, PTL DEF DbSpec

(* hw6: an error means that the call changed nothing, unless its body could *)
(* not be read or the database failed; a success tells the caller's own    *)
(* change; with a database that fails nobody an error 500 has its reason   *)
(* in the request; and a handler panics for the three reasons named, two   *)
(* answers are given only after a body that was not read.                  *)
THEOREM TheAnswersAreTrue == DbSpec => []AnswersAreTrue
BY InitDbIInv, NextDbIInv, AnswersTell, PTL DEF DbSpec
============================================================================
