---------------------------------- MODULE Site ----------------------------------
(***************************************************************************)
(* Four web services made of middleware around a mux: middleware.go,       *)
(* logging, context_value.go and its copy in metrics that sends to statsd. *)
(* A request goes down the chain, is handled, and comes back up, returning *)
(* or panicking; each runs in a goroutine of its own.  pageWithAllChecks   *)
(* has no route and is left out, and so is the wording of the log lines.   *)
(***************************************************************************)
EXTENDS Naturals, Sequences, FiniteSets

CONSTANTS Client,      \* goroutines of requests; all are one browser's
          MaxWork,     \* bound: how long an emulateWork takes
          MaxHits      \* bound: requests

ASSUME SiteAssumption == MaxWork \in Nat

WorkName == {"checkCache", "loadPosts", "loadSidebar", "loadComments"}
Works == <<"checkCache", "loadPosts", "loadPosts", "loadPosts", "loadSidebar", "loadComments">>
SleepBefore == 5   \* the Sleep stands before the fifth

Routes(s) ==
  IF s = "middleware" THEN {"root", "login", "logout", "admin", "admin_panic"} ELSE {"root"}

MainChain(path) == <<"panicMiddleware", "accessLogMiddleware">>
Chain(s, path) ==
  CASE s = "middleware" -> IF path \in {"admin", "admin_panic"}
                           THEN Append(MainChain(path), "adminAuthMiddleware") ELSE MainChain(path)
    [] s = "logging" -> <<"accessLogMiddleware">>
    [] OTHER -> <<"timingMiddleware">>

VARIABLES site,      \* which of the four
          hit,       \* client -> its request
          timings,   \* client -> the map in its request's context
          jar,       \* whether the browser has the cookie session_id
          hits,      \* bound
          worked     \* history: client -> how long its works took together

siteVars == <<site, hit, timings, jar, hits, worked>>

NoTiming == [count |-> 0, duration |-> 0]
Out == [pc |-> "out", path |-> "root", chain |-> <<>>, depth |-> 0, cookie |-> FALSE, next |-> 1,
        real |-> 0, page |-> "none", logged |-> 0, tracked |-> 0, real_time |-> 0]

SiteInit ==
  /\ site \in {"middleware", "logging", "timing", "metrics"}
  /\ hit = [c \in Client |-> Out]
  /\ timings = [c \in Client |-> [n \in WorkName |-> NoTiming]]
  /\ jar = FALSE /\ hits = 0 /\ worked = [c \in Client |-> 0]

Here(c, pc) == hit[c].pc = pc
This(c) == hit[c].chain[hit[c].depth]

Hit(c) ==
  /\ Here(c, "out") /\ hits < MaxHits
  /\ hits' = hits + 1
  /\ \E path \in Routes(site) :
       hit' = [hit EXCEPT ![c] = [Out EXCEPT !.pc = "down", !.path = path, !.chain = Chain(site, path),
                                            !.cookie = jar]]
  /\ UNCHANGED <<site, timings, jar, worked>>

(* timingMiddleware puts a map of its own into each request's context.     *)
SharedTimings(c) == timings
NewTimings(c) == [timings EXCEPT ![c] = [n \in WorkName |-> NoTiming]]

Enter(c) ==
  LET m == hit[c].chain[hit[c].depth + 1] IN
  /\ Here(c, "down") /\ hit[c].depth < Len(hit[c].chain)
  /\ IF m = "adminAuthMiddleware" /\ ~hit[c].cookie
     THEN hit' = [hit EXCEPT ![c].pc = "up", ![c].page = "redirect"]
     ELSE hit' = [hit EXCEPT ![c].depth = @ + 1]
  /\ timings' = IF m = "timingMiddleware" THEN NewTimings(c) ELSE timings
  /\ worked' = IF m = "timingMiddleware" THEN [worked EXCEPT ![c] = 0] ELSE worked
  /\ UNCHANGED <<site, jar, hits>>

(* The mux's handlers. *)
HandleHit(c) ==
  /\ Here(c, "down") /\ hit[c].depth = Len(hit[c].chain)
  /\ LET page == IF site = "logging" THEN "hello"
                 ELSE CASE hit[c].path = "root" -> IF hit[c].cookie THEN "Welcome" ELSE "need_login"
                        [] hit[c].path = "admin" -> "admin_main"
                        [] OTHER -> "redirect"
     IN hit' = [hit EXCEPT ![c].page = IF hit[c].path = "admin_panic" THEN @ ELSE page,
                           ![c].pc = CASE hit[c].path = "admin_panic" -> "panic"
                                       [] site \in {"timing", "metrics"} -> "work"
                                       [] OTHER -> "up"]
  /\ UNCHANGED <<site, timings, jar, hits, worked>>

(* loadPostsHandle's next emulateWork and its trackContextTimings.         *)
Added(timing, elapsed) == [count |-> timing.count + 1, duration |-> timing.duration + elapsed]
ContextOf(c) == {c}
emulateWork(c) ==
  /\ Here(c, "work") /\ hit[c].next <= Len(Works)
  /\ \E elapsed \in 0..MaxWork :
       /\ timings' = [d \in Client |-> IF d \in ContextOf(c)
                        THEN [timings[d] EXCEPT ![Works[hit[c].next]] = Added(@, elapsed)]
                        ELSE timings[d]]
       /\ worked' = [worked EXCEPT ![c] = @ + elapsed]
       /\ hit' = [hit EXCEPT ![c].real = @ + elapsed + IF hit[c].next = SleepBefore THEN 1 ELSE 0,
                             ![c].next = @ + 1]
  /\ UNCHANGED <<site, jar, hits>>

Worked(c) ==
  /\ Here(c, "work") /\ hit[c].next > Len(Works)
  /\ hit' = [hit EXCEPT ![c].pc = "up", ![c].page = "done"]
  /\ UNCHANGED <<site, timings, jar, hits, worked>>

(* logContextTimings; metrics' copy gives the two sums each other's names. *)
Total(t) == t["checkCache"].duration + t["loadPosts"].duration
            + t["loadSidebar"].duration + t["loadComments"].duration
Reported(c, total, totalReal) ==
  IF site = "metrics" THEN [tracked |-> totalReal, real_time |-> total]
  ELSE [tracked |-> total, real_time |-> totalReal]

(* What a middleware does on the way up: only panicMiddleware recovers,    *)
(* and accessLogMiddleware's line is not deferred.                         *)
AccessLogged(h) == [h EXCEPT !.logged = @ + 1]
Up(c) ==
  /\ hit[c].depth > 0 /\ hit[c].pc \in {"up", "panic"}
  /\ LET m == This(c)
         h == [hit[c] EXCEPT !.depth = @ - 1]
         report == Reported(c, Total(timings[c]), hit[c].real)
     IN hit' = [hit EXCEPT ![c] =
          CASE m = "panicMiddleware" /\ Here(c, "panic") -> [h EXCEPT !.pc = "up", !.page = "500"]
            [] m = "accessLogMiddleware" /\ Here(c, "up") -> AccessLogged(h)
            [] m = "timingMiddleware" -> [h EXCEPT !.tracked = report.tracked, !.real_time = report.real_time]
            [] OTHER -> h]
  /\ UNCHANGED <<site, timings, jar, hits, worked>>

(* The answer reaches the browser; net/http drops one that still panics.   *)
Leaves(c) == hit' = [hit EXCEPT ![c].pc = "out", ![c].page = IF Here(c, "panic") THEN "dropped" ELSE @]
Respond(c) ==
  /\ hit[c].depth = 0 /\ hit[c].pc \in {"up", "panic"}
  /\ Leaves(c)
  /\ jar' = CASE hit[c].path = "login" -> TRUE
              [] hit[c].path = "logout" /\ hit[c].cookie -> FALSE
              [] OTHER -> jar
  /\ UNCHANGED <<site, timings, hits, worked>>

SiteStep(c) == Enter(c) \/ HandleHit(c) \/ emulateWork(c) \/ Worked(c) \/ Up(c) \/ Respond(c)
SiteNext == \E c \in Client : Hit(c) \/ SiteStep(c)

SiteSpec == SiteInit /\ [][SiteNext]_siteVars

(***************************************************************************)
(* What the middleware promises.                                           *)
(***************************************************************************)
(* A panic is answered, with an error; and of the requests that are        *)
(* answered the access log misses those that panicked and no others.       *)
Ended(c) == Here(c, "out") /\ hit[c].page # "none"
OnlyPanicsUnlogged ==
  \A c \in Client : Ended(c) /\ site \in {"middleware", "logging"} =>
    /\ hit[c].page # "dropped"
    /\ hit[c].page = "500" <=> hit[c].path = "admin_panic" /\ hit[c].cookie
    /\ hit[c].logged = IF hit[c].page = "500" THEN 0 ELSE 1

(* A report is of its own request's works, however many run at once.       *)
ReportIsOwn ==
  \A c \in Client : Ended(c) /\ site \in {"timing", "metrics"} =>
    /\ \A n \in WorkName : timings[c][n].count = Cardinality({k \in DOMAIN Works : Works[k] = n})
    /\ worked[c] \in {hit[c].tracked, hit[c].real_time}

(* What is tracked is less than what passed, by the Sleep between works;   *)
(* in metrics the names say the opposite.                                  *)
TrackedWithinReal ==
  \A c \in Client : Ended(c) =>
    CASE site = "timing" -> hit[c].tracked < hit[c].real_time
      [] site = "metrics" -> hit[c].real_time < hit[c].tracked
      [] OTHER -> TRUE

(* What the logs and the metrics say of a request is true of that request. *)
ReportsAreTrue == OnlyPanicsUnlogged /\ ReportIsOwn /\ TrackedWithinReal
=============================================================================
