-------------------------------- MODULE MyApi --------------------------------
(***************************************************************************)
(* The API of hw5: the generator, which reads struct tags and method       *)
(* comments and writes validators and ServeHTTP; what it wrote for api.go; *)
(* and the two services behind it, of which MyApi keeps users in a map     *)
(* under a read-write mutex.                                               *)
(*                                                                         *)
(* The checked-in api_handlers.go has lost its "params." and "srv."        *)
(* prefixes; it is read with them, as the template writes them.            *)
(***************************************************************************)
EXTENDS Program, Integers

CONSTANTS ApiCaller,    \* clients, each of which makes one request
          RuneLen,      \* the strings that callers send or tags name, with their lengths
          Forms,        \* params struct -> the forms sent for it: parameter -> value
          NotInt,       \* what strconv.Atoi refuses, an absent value included
          NoWriter

ASSUME ApiAssumption ==
  /\ NoWriter \notin ApiCaller
  /\ {"ProfileParams", "CreateParams", "OtherCreateParams"} \subseteq DOMAIN Forms

(* A form has a string for each parameter that is read from it, Unset if   *)
(* it was not sent, and what Atoi makes of those that are to be numbers.   *)
Unset == ""
ASSUME FormsAssumption ==
  /\ RuneLen \in [DOMAIN RuneLen -> Nat] /\ RuneLen[Unset] = 0
  /\ {Unset, "user", "moderator", "admin", "warrior", "sorcerer", "rouge"} \subseteq DOMAIN RuneLen
  /\ NotInt \notin Int \cup DOMAIN RuneLen
  /\ \A f \in Forms["ProfileParams"] : f.login \in DOMAIN RuneLen
  /\ \A f \in Forms["CreateParams"] :
       {f.login, f.full_name, f.status} \subseteq DOMAIN RuneLen /\ f.age \in Int \cup {NotInt}
  /\ \A f \in Forms["OtherCreateParams"] :
       {f.username, f.account_name, f.class} \subseteq DOMAIN RuneLen /\ f.level \in Int \cup {NotInt}

(***************************************************************************)
(* The generator.                                                          *)
(***************************************************************************)
NoTag == [none |-> TRUE]
NoApi == [none |-> TRUE]
Field(lower, type, tag) == [lower |-> lower, type |-> type, tag |-> tag]

(* The first struct of a declaration with an untagged field ends it.       *)
Tagged(struct) == \A i \in DOMAIN struct.fields : struct.fields[i].tag # NoTag
Kept(decl) ==
  {decl[i] : i \in {k \in DOMAIN decl :
                      decl[k].fields # <<>> /\ \A j \in 1 .. k : Tagged(decl[j])}}

fieldTpl(f) ==
  [type |-> f.type, rules |-> f.tag,
   param |-> IF "paramname" \in DOMAIN f.tag THEN f.tag.paramname ELSE f.lower]

validateTmpls(decls) ==
  LET kept == UNION {Kept(d) : d \in decls}
      fields(n) == (CHOOSE s \in kept : s.name = n).fields
  IN  [n \in {s.name : s \in kept} |-> [i \in DOMAIN fields(n) |-> fieldTpl(fields(n)[i])]]

(* getApi and getReciever: the methods with a comment that parses, by      *)
(* receiver; they become the cases of a switch, which names a url once.    *)
tmpls(methods, recv) == {m \in methods : m.recv = recv /\ m.api # NoApi}

(* The validator of a struct.  An int is read from the parsed form, which  *)
(* no int field parses, only a string field before it.                     *)
Zero(f) == IF f.type = "int" THEN 0 ELSE Unset
Value(fields, i, form) ==
  LET f == fields[i]
      unparsed == f.type = "int" /\ \A j \in 1 .. i - 1 : fields[j].type = "int"
      v == IF unparsed THEN NotInt ELSE form[f.param]
  IN  IF v = Zero(f) /\ "default" \in DOMAIN f.rules THEN f.rules.default ELSE v
Measure(f, v) == IF f.type = "int" THEN v ELSE RuneLen[v]
BelowMax(max, m) == m < max
AboveMin(min, m) == min < m
AtLeastMin(min, m) == min <= m
Fits(f, v) ==
  /\ v # NotInt
  /\ "required" \in DOMAIN f.rules => v # Zero(f)
  /\ "enum" \in DOMAIN f.rules => v \in f.rules.enum
  /\ "max" \in DOMAIN f.rules => BelowMax(f.rules.max, Measure(f, v))
  /\ "min" \in DOMAIN f.rules => AtLeastMin(f.rules.min, Measure(f, v))
ValidByTags(fields, form) == \A i \in DOMAIN fields : Fits(fields[i], Value(fields, i, form))

(* ServeHTTP of a receiver: what is answered at once, or the call to make.  *)
ServeHTTP(apis, r) ==
  LET cases == {m \in apis : m.api.url = r.path}
      m == CHOOSE c \in cases : TRUE
  IN  CASE cases = {} -> "404"
        [] cases # {} /\ m.api.method \notin {"", r.method} -> "406"
        [] cases # {} /\ m.api.method \in {"", r.method} /\ m.api.auth /\ ~r.auth -> "403"
        [] OTHER -> m.func

(***************************************************************************)
(* api.go, and what was generated for it.                                  *)
(***************************************************************************)
Status == [user |-> 0, moderator |-> 10, admin |-> 20]

Decls == {
  << [name |-> "ApiError", fields |-> <<Field("httpstatus", "int", NoTag)>>] >>,
  << [name |-> "ProfileParams", fields |-> <<Field("login", "string", [required |-> TRUE])>>] >>,
  << [name |-> "CreateParams", fields |->
        << Field("login", "string", [required |-> TRUE, min |-> 10]),
           Field("name", "string", [paramname |-> "full_name"]),
           Field("status", "string", [enum |-> DOMAIN Status, default |-> "user"]),
           Field("age", "int", [min |-> 0, max |-> 128]) >>] >>,
  << [name |-> "User", fields |-> <<Field("id", "int", NoTag)>>] >>,
  << [name |-> "OtherCreateParams", fields |->
        << Field("username", "string", [required |-> TRUE, min |-> 3]),
           Field("name", "string", [paramname |-> "account_name"]),
           Field("class", "string", [enum |-> {"warrior", "sorcerer", "rouge"}, default |-> "warrior"]),
           Field("level", "int", [min |-> 1, max |-> 50]) >>] >> }

Method(recv, func, api) == [recv |-> recv, func |-> func, api |-> api]
Api(url, auth, method) == [url |-> url, auth |-> auth, method |-> method]
Methods == {
  Method("MyApi", "Profile", Api("/user/profile", FALSE, "")),
  Method("MyApi", "Create", Api("/user/create", TRUE, "POST")),
  Method("OtherApi", "Create", Api("/user/create", TRUE, "POST")) }

validateProfileParams(form) == form.login # Unset

validateCreateParams(form) ==
  /\ RuneLen[form.login] >= 10
  /\ form.status \in {Unset, "user", "moderator", "admin"}
  /\ form.age \notin {NotInt} /\ 0 <= form.age /\ form.age < 128

validateOtherCreateParams(form) ==
  /\ RuneLen[form.username] >= 3
  /\ form.class \in {Unset, "warrior", "sorcerer", "rouge"}
  /\ form.level \notin {NotInt} /\ 1 <= form.level /\ form.level < 50

(* The two generated ServeHTTP methods, one for each receiver. *)
MyApiServeHTTP(r) == ServeHTTP(tmpls(Methods, "MyApi"), r)
OtherApiServeHTTP(r) == ServeHTTP(tmpls(Methods, "OtherApi"), r)

Params(srv, func) ==
  IF func = "Profile" THEN "ProfileParams"
  ELSE IF srv = "MyApi" THEN "CreateParams" ELSE "OtherCreateParams"
Validate(params, form) ==
  CASE params = "ProfileParams" -> validateProfileParams(form)
    [] params = "CreateParams" -> validateCreateParams(form)
    [] OTHER -> validateOtherCreateParams(form)

VARIABLES users,   \* login -> [id, status]
          nextID,
          mu,      \* [w, r]: the writer and the readers of the mutex
          api      \* caller -> its request and how far it has got

apiVars == <<users, nextID, mu, api>>

ApiInit ==
  /\ users = [l \in {"rvasily"} |-> [id |-> 42, status |-> 20]]
  /\ nextID = 43
  /\ mu = [w |-> NoWriter, r |-> {}]
  /\ api = [c \in ApiCaller |->
              [pc |-> "idle", srv |-> "MyApi", func |-> "none", form |-> [none |-> 0],
               id |-> 0, answer |-> "none", seen |-> {}]]

ApiAt(c, pc) == api[c].pc = pc
End(c, answer) == api' = [api EXCEPT ![c].pc = "end", ![c].answer = answer]
CreatedBefore == {api[c].form.login : c \in {d \in ApiCaller :
                    api[d].srv = "MyApi" /\ api[d].func = "Create" /\ api[d].answer = "200"}}

(* Routing, method and authorisation. `seen' is history: the logins whose  *)
(* creation had been answered when the request came.                       *)
Serve(c) ==
  /\ ApiAt(c, "idle")
  /\ \E srv \in {"MyApi", "OtherApi"}, auth \in BOOLEAN, method \in {"GET", "POST"},
        path \in {"/user/profile", "/user/create", "/user/"} :
       LET r == [path |-> path, auth |-> auth, method |-> method]
           to == IF srv = "MyApi" THEN MyApiServeHTTP(r) ELSE OtherApiServeHTTP(r)
       IN  IF to \in {"404", "406", "403"}
           THEN End(c, to)
           ELSE \E form \in Forms[Params(srv, to)] :
                  api' = [api EXCEPT ![c] = [@ EXCEPT !.pc = "form", !.srv = srv, !.func = to,
                                                      !.form = form, !.seen = CreatedBefore]]
  /\ UNCHANGED <<users, nextID, mu>>

(* The validator, and what each method does before it takes the mutex.     *)
ValidateForm(c) ==
  LET a == api[c] IN
  /\ ApiAt(c, "form")
  /\ CASE ~Validate(Params(a.srv, a.func), a.form) -> End(c, "400")
       [] OTHER ->
            CASE a.srv = "OtherApi" -> End(c, "200")
              [] a.srv = "MyApi" /\ a.form.login \in {"bad_user", "bad_username"} /\
                 (a.form.login = "bad_user") = (a.func = "Profile") -> End(c, "500")
              [] OTHER -> api' = [api EXCEPT ![c].pc = a.func]
  /\ UNCHANGED <<users, nextID, mu>>

Exists(login) == login \in DOMAIN users
FollowingID == nextID + 1
Unlocked == [mu EXCEPT !.w = NoWriter]

RLock(c) ==
  /\ ApiAt(c, "Profile") /\ mu.w = NoWriter
  /\ mu' = [mu EXCEPT !.r = @ \cup {c}]
  /\ api' = [api EXCEPT ![c].pc = "read"]
  /\ UNCHANGED <<users, nextID>>

Profile(c) ==
  /\ ApiAt(c, "read")
  /\ mu' = [mu EXCEPT !.r = @ \ {c}]
  /\ IF Exists(api[c].form.login)
     THEN api' = [api EXCEPT ![c].pc = "end", ![c].answer = "200",
                             ![c].id = users[api[c].form.login].id]
     ELSE End(c, "404")
  /\ UNCHANGED <<users, nextID>>

AnyoneIn == TRUE
NobodyIn == mu.w = NoWriter /\ mu.r = {}

Lock(c) ==
  /\ ApiAt(c, "Create") /\ NobodyIn
  /\ mu' = [mu EXCEPT !.w = c]
  /\ api' = [api EXCEPT ![c].pc = "check"]
  /\ UNCHANGED <<users, nextID>>

(* `_, exist := users[login]` and `id := nextID`; a conflict unlocks. *)
CheckExists(c) ==
  /\ ApiAt(c, "check")
  /\ IF Exists(api[c].form.login)
     THEN End(c, "409") /\ mu' = Unlocked
     ELSE /\ api' = [api EXCEPT ![c].pc = "insert", ![c].id = nextID]
          /\ UNCHANGED mu
  /\ UNCHANGED <<users, nextID>>

StatusOf(form) == Status[IF form.status = Unset THEN "user" ELSE form.status]

Insert(c) ==
  LET f == api[c].form IN
  /\ ApiAt(c, "insert")
  /\ nextID' = FollowingID
  /\ users' = [l \in DOMAIN users \cup {f.login} |->
                 IF l = f.login THEN [id |-> api[c].id, status |-> StatusOf(f)] ELSE users[l]]
  /\ mu' = Unlocked
  /\ End(c, "200")

ApiStep(c) == \/ ValidateForm(c) \/ RLock(c) \/ Profile(c)
              \/ Lock(c) \/ CheckExists(c) \/ Insert(c)
ApiNext == \E c \in ApiCaller : Serve(c) \/ ApiStep(c)

ApiSpec == ApiInit /\ [][ApiNext]_apiVars

(* The server runs each handler; a request's turn at the mutex comes.      *)
ApiFair == \A c \in ApiCaller : WF_apiVars(Runs("api") /\ ApiStep(c))

(***************************************************************************)
(* What the API promises.                                                  *)
(***************************************************************************)

(* Types: of the users, the mutex and the requests.                        *)
ApiTypeOK ==
  /\ \A l \in DOMAIN users : users[l].id \in 42 .. nextID - 1 /\ users[l].status \in {0, 10, 20}
  /\ mu.w \in ApiCaller \cup {NoWriter} /\ mu.r \subseteq ApiCaller
  /\ \A c \in ApiCaller :
       /\ api[c].pc \in {"idle", "form", "Profile", "read", "Create", "check", "insert", "end"}
       /\ api[c].answer \in {"none", "200", "400", "403", "404", "406", "409", "500"}

(* hw5.md's meaning of the tags, both bounds included: what is given for a *)
(* field, an empty value replaced by the default, and what it may be.      *)
Given(f, form) ==
  IF form[f.param] = Zero(f) /\ "default" \in DOMAIN f.rules THEN f.rules.default ELSE form[f.param]
Allows(f, v) ==
  /\ v # NotInt
  /\ "required" \in DOMAIN f.rules => v # Zero(f)
  /\ "enum" \in DOMAIN f.rules => v \in f.rules.enum
  /\ "min" \in DOMAIN f.rules => Measure(f, v) >= f.rules.min
  /\ "max" \in DOMAIN f.rules => Measure(f, v) <= f.rules.max
IsMax(f, v) == "max" \in DOMAIN f.rules /\ v # NotInt /\ Measure(f, v) = f.rules.max
Documented(fields, form) == \A i \in DOMAIN fields : Allows(fields[i], Given(fields[i], form))
AtAMax(fields, form) == \E i \in DOMAIN fields : IsMax(fields[i], Given(fields[i], form))

(* A form is checked as the tags of api.go say: every params struct that a *)
(* handler names has its validator; the one that is checked in accepts     *)
(* what the generator's template does; and that is what hw5.md allows,     *)
(* but for a number that is its maximum, which is refused.                 *)
FormsChecked ==
  \A c \in ApiCaller : ApiAt(c, "form") =>
    LET p == Params(api[c].srv, api[c].func)
        form == api[c].form
        t == validateTmpls(Decls)
    IN  /\ p \in DOMAIN t
        /\ Validate(p, form) <=> ValidByTags(t[p], form)
        /\ Validate(p, form) <=> Documented(t[p], form) /\ ~AtAMax(t[p], form)

(* hw5.md:29 has max mean "<= X", and the message of a refusal says so     *)
(* too: a form that the tags allow is accepted.                            *)
MaxIsAllowed ==
  \A c \in ApiCaller : ApiAt(c, "form") =>
    LET p == Params(api[c].srv, api[c].func)
    IN  Documented(validateTmpls(Decls)[p], api[c].form) => Validate(p, api[c].form)

(* Concurrent creations share neither an id nor a login: a login has one   *)
(* user, who is the one its only successful caller was told of, and no two *)
(* users have one id.                                                      *)
CreatesDistinct ==
  /\ \A k, l \in DOMAIN users : users[k].id = users[l].id => k = l
  /\ \A c \in ApiCaller :
       api[c].srv = "MyApi" /\ api[c].func = "Create" /\ api[c].answer = "200" =>
         /\ api[c].form.login \in DOMAIN users
         /\ users[api[c].form.login] = [id |-> api[c].id, status |-> StatusOf(api[c].form)]

(* A profile asked for after its creation was answered is found, and every *)
(* profile that is answered shows the one id its login ever has.           *)
ProfileSeesCreated ==
  \A c \in ApiCaller : api[c].func = "Profile" /\ ApiAt(c, "end") =>
    /\ api[c].answer = "404" => api[c].form.login \notin api[c].seen
    /\ api[c].answer = "200" => users[api[c].form.login].id = api[c].id

(* Every request is answered.                                              *)
EveryApiCallEnds ==
  Runs("api") => <>[](\A c \in ApiCaller : ApiAt(c, "idle") \/ ApiAt(c, "end"))

(* Users are kept apart, and are what their creators were told.            *)
UsersKept == ApiTypeOK /\ CreatesDistinct /\ ProfileSeesCreated
=============================================================================
