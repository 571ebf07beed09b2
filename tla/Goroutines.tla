------------------------------- MODULE Goroutines -------------------------------
(***************************************************************************)
(* The small programs of C1/async, each of which shows one thing about     *)
(* goroutines.  A program is given by the capacities of its channels and   *)
(* the code of its goroutines, and the module says how such code runs.     *)
(*                                                                         *)
(* A mutex is a channel of capacity one, a wait group one that takes a     *)
(* token for every Done; sleeping, printing and timers are "time".         *)
(***************************************************************************)
EXTENDS Program, Integers, Sequences, FiniteSets

CONSTANTS Gophers,     \* goroutines started in a loop: 3 to 1000 of them in the code
          Rounds       \* how often a loop of theirs runs: 5 to 12 times

ASSUME GoroutinesAssumption ==
  /\ "main" \notin Gophers /\ Gophers # {} /\ IsFiniteSet(Gophers)
  /\ Rounds \in Nat \ {0}

(***************************************************************************)
(* Code.  An instruction is a set of alternatives, as in a select; each    *)
(* says how far to jump, and where to if the channel is closed.            *)
(***************************************************************************)
Alt(op, ch, jump, closed) == [op |-> op, ch |-> ch, jump |-> jump, closed |-> closed]
Send(ch) == {Alt("send", ch, 1, 0)}
Recv(ch) == {Alt("recv", ch, 1, 1)}
RangeOver(ch) == {Alt("recv", ch, 0, 1)}
Close(ch) == {Alt("close", ch, 1, 0)}
Time == {Alt("time", "none", 1, 0)}
Op(op) == {Alt(op, "none", 1, 0)}
Times(n, code) == [i \in 1 .. n * Len(code) |-> code[((i - 1) % Len(code)) + 1]]
Each(code) == [g \in Gophers |-> code]
Main(code) == [g \in {"main"} |-> code]
With(main, others) ==
  [g \in {"main"} \cup DOMAIN others |-> IF g = "main" THEN main ELSE others[g]]
Guarded(code) == <<Send("mu")>> \o code \o <<Recv("mu")>>

chan_1 == [cap |-> [ch1 |-> 1],
           code |-> With(<<Send("ch1"), Send("ch1"), Time>>, [g |-> <<Recv("ch1")>>])]
chan_2 == [cap |-> [in |-> 0],
           code |-> With(<<RangeOver("in")>>, [g |-> Times(Rounds, <<Send("in")>>) \o <<Close("in")>>])]
select_1 == [cap |-> [ch1 |-> 1, ch2 |-> 0],
             code |-> Main(<<Recv("ch1") \cup Send("ch2")>>)]
select_2 == [cap |-> [ch1 |-> 2, ch2 |-> 2],
             code |-> Main(<<Send("ch1"), Send("ch1"), Send("ch2"),
                             RangeOver("ch1") \cup RangeOver("ch2") \cup Op("default")>>)]
select_3 == [cap |-> [cancel |-> 0, data |-> 0],
             code |-> With(Times(5, <<Recv("data")>>) \o <<Send("cancel")>>,
                           [g |-> <<Recv("cancel") \cup {Alt("send", "data", 0, 0)}>>])]
wait_1 == [cap |-> [result |-> 0],
           code |-> With(<<Time, Recv("result")>>, [g |-> <<Time, Send("result")>>])]
wait_2 == [cap |-> [wg |-> Cardinality(Gophers)],
           code |-> With(<<Time>> \o Times(Cardinality(Gophers), <<Recv("wg")>>),
                         Each(Times(Rounds, <<Time>>) \o <<Send("wg")>>))]
waitgroup == [cap |-> [wg |-> Cardinality(Gophers)],
              code |-> With(<<Time>> \o Times(Cardinality(Gophers), <<Recv("wg")>>),
                            Each(Times(Rounds, <<Time>>) \o <<Send("wg")>>))]
async_work_unbuffered == [cap |-> [result |-> 0],
                          code |-> With(<<Time>>, [g |-> <<Time, Send("result")>>])]
async_work == [cap |-> [result |-> 1],
               code |-> With(<<Time>>, [g |-> <<Time, Send("result")>>])]
(* timer.Stop either meets the timer before it fires or finds it fired.    *)
timeout == [cap |-> [C |-> 1, result |-> 1, stop |-> 0],
            code |-> With(<<{Alt("recv", "C", 2, 2), Alt("time", "none", 2, 0)} \cup Recv("result"),
                            Send("stop") \cup Recv("C")>>,
                          [timer |-> <<{Alt("recv", "stop", 2, 2)} \cup Time, Send("C")>>,
                           query |-> <<Time, Send("result")>>])]
Searcher == <<{Alt("recv", "done", 2, 2)} \cup Time, Send("result")>>
context_cancel == [cap |-> [result |-> 1, done |-> 0],
                   code |-> With(<<Recv("result"), Close("done"), Time>>, Each(Searcher))]
context_timeout == [cap |-> [result |-> 1, done |-> 0],
                    code |-> With(<<RangeOver("result") \cup Recv("done"), Time>>,
                                  [g \in Gophers \cup {"ctx"} |->
                                     IF g = "ctx" THEN <<Time, Close("done")>> ELSE Searcher])]
workerpool == [cap |-> [in |-> 2],
               code |-> With(Times(Rounds, <<Send("in")>>) \o <<Close("in"), Time>>,
                             Each(<<RangeOver("in")>>))]
Count == <<Op("enter"), Op("leave")>>
race_1 == [cap |-> [none |-> 0], code |-> With(<<Time>> \o Count, Each(Times(Rounds, Count)))]
race_2 == [cap |-> [mu |-> 1],
           code |-> With(<<Time>> \o Guarded(Count), Each(Times(Rounds, Guarded(Count))))]
race_3 == [cap |-> [mu |-> 1], code |-> With(<<Time>> \o Count, Each(Times(Rounds, Guarded(Count))))]
atomic_1 == [cap |-> [none |-> 0], code |-> With(<<Time>>, Each(<<Op("load"), Op("store")>>))]
atomic_2 == [cap |-> [none |-> 0], code |-> With(<<Time>>, Each(<<Op("add")>>))]

Demos == [chan_1 |-> chan_1, chan_2 |-> chan_2, select_1 |-> select_1, select_2 |-> select_2,
          select_3 |-> select_3, wait_1 |-> wait_1, wait_2 |-> wait_2, waitgroup |-> waitgroup,
          async_work |-> async_work, timeout |-> timeout, context_cancel |-> context_cancel,
          context_timeout |-> context_timeout, workerpool |-> workerpool, race_1 |-> race_1,
          race_2 |-> race_2, race_3 |-> race_3, atomic_1 |-> atomic_1, atomic_2 |-> atomic_2]

VARIABLES demo,      \* which program it is
          gpc,       \* goroutine -> its next instruction
          chan,      \* channel -> [n, closed]: what it holds
          counter, reg,  \* a shared counter, and what a goroutine has loaded of it
          inMap,     \* the goroutines in the middle of an access to a shared map
          raced      \* history: two of them were at once

goVars == <<demo, gpc, chan, counter, reg, inMap, raced>>

Code(g) == Demos[demo].code[g]
Goroutines == DOMAIN Demos[demo].code
Cap(ch) == Demos[demo].cap[ch]
Terminated(g) == gpc[g] > Len(Code(g))
Alts(g) == IF Terminated(g) THEN {} ELSE Code(g)[gpc[g]]

GoInit ==
  /\ demo \in DOMAIN Demos
  /\ gpc = [g \in Goroutines |-> 1]
  /\ chan = [ch \in DOMAIN Demos[demo].cap |-> [n |-> 0, closed |-> FALSE]]
  /\ counter = 0 /\ reg = [g \in Goroutines |-> 0] /\ inMap = {} /\ raced = FALSE

(* Two goroutines meet on a channel without a buffer. *)
Partner(g, a) ==
  {h \in Goroutines \ {g} : \E b \in Alts(h) : b.ch = a.ch /\ {a.op, b.op} = {"send", "recv"}}

Ready(g, a) ==
  CASE a.op = "send" -> IF Cap(a.ch) = 0 THEN Partner(g, a) # {} ELSE chan[a.ch].n < Cap(a.ch)
    [] a.op = "recv" -> \/ chan[a.ch].n > 0 \/ chan[a.ch].closed
                        \/ Cap(a.ch) = 0 /\ Partner(g, a) # {}
    [] OTHER -> TRUE
CanGo(g) == \E a \in Alts(g) : a.op # "default" /\ Ready(g, a)

Jump(g, d) == gpc' = [gpc EXCEPT ![g] = @ + d]

Meet(g, a, h, b) ==
  /\ a.op = "send" /\ b.op = "recv" /\ b.ch = a.ch /\ Cap(a.ch) = 0
  /\ gpc' = [gpc EXCEPT ![g] = @ + a.jump, ![h] = @ + b.jump]
  /\ UNCHANGED <<chan, counter, reg, inMap, raced>>

Put(g, a) ==
  /\ a.op = "send" /\ Cap(a.ch) > 0 /\ Ready(g, a)
  /\ chan' = [chan EXCEPT ![a.ch].n = @ + 1] /\ Jump(g, a.jump)
  /\ UNCHANGED <<counter, reg, inMap, raced>>

Get(g, a) ==
  /\ a.op = "recv"
  /\ \/ /\ chan[a.ch].n > 0 /\ Jump(g, a.jump)
        /\ chan' = [chan EXCEPT ![a.ch].n = @ - 1]
     \/ chan[a.ch].n = 0 /\ chan[a.ch].closed /\ Jump(g, a.closed) /\ UNCHANGED chan
  /\ UNCHANGED <<counter, reg, inMap, raced>>

Closes(g, a) ==
  /\ a.op = "close" /\ chan' = [chan EXCEPT ![a.ch].closed = TRUE] /\ Jump(g, a.jump)
  /\ UNCHANGED <<counter, reg, inMap, raced>>

(* A moment passes, or nothing in the select is ready. *)
Pass(g, a) ==
  /\ a.op = "default" => ~CanGo(g)
  /\ a.op \in {"time", "default"}
  /\ Jump(g, a.jump)
  /\ UNCHANGED <<chan, counter, reg, inMap, raced>>

(* Shared memory: `x++' in two steps, or as one atomic one; a map is being *)
(* accessed from "enter" to "leave".                                       *)
Memory(g, a) ==
  /\ \/ a.op = "load" /\ reg' = [reg EXCEPT ![g] = counter] /\ UNCHANGED counter
     \/ a.op = "store" /\ counter' = reg[g] + 1 /\ UNCHANGED reg
     \/ a.op = "add" /\ counter' = counter + 1 /\ UNCHANGED reg
  /\ Jump(g, a.jump) /\ UNCHANGED <<chan, inMap, raced>>

MapAccess(g, a) ==
  /\ \/ a.op = "enter" /\ inMap' = inMap \cup {g} /\ raced' = (raced \/ inMap # {})
     \/ a.op = "leave" /\ inMap' = inMap \ {g} /\ UNCHANGED raced
  /\ Jump(g, a.jump) /\ UNCHANGED <<chan, counter, reg>>

(* When main returns the program ends, whatever the others are doing. *)
Run(g) ==
  \E a \in Alts(g) : \/ Put(g, a) \/ Get(g, a) \/ Closes(g, a) \/ Pass(g, a)
                     \/ Memory(g, a) \/ MapAccess(g, a)
                     \/ \E h \in Goroutines \ {g} : \E b \in Alts(h) : Meet(g, a, h, b)
GoNext == ~Terminated("main") /\ UNCHANGED demo /\ \E g \in Goroutines : Run(g)

GoSpec == GoInit /\ [][GoNext]_goVars
GoFair == WF_goVars(Runs("go") /\ GoNext)

(***************************************************************************)
(* What the programs show.                                                 *)
(***************************************************************************)

(* No program but select_1 can come to a state where nobody can go on.     *)
Blocked(g) == ~Terminated(g) /\ ~CanGo(g) /\ \A a \in Alts(g) : a.op # "default"
OnlySelect1Deadlocks ==
  (\A g \in Goroutines : Terminated(g) \/ Blocked(g)) => Terminated("main") \/ demo = "select_1"

(* When main is done no goroutine is left that nobody will ever unblock,   *)
(* except late workers of the two context programs: only the first result  *)
(* is taken, and one more fits into the channel.                           *)
LateWorkersOnly ==
  LET others == {g \in Goroutines \ {"main"} : ~Terminated(g)}
  IN  Terminated("main") /\ others # {} /\ (\A g \in others : Blocked(g)) =>
        demo \in {"context_cancel", "context_timeout"}

(* A map is touched by two goroutines at once, and an increment lost, only *)
(* in the programs that are there to show it.                              *)
RacesWhereShown ==
  /\ raced => demo \in {"race_1", "race_3"}
  /\ demo = "atomic_2" => counter = Cardinality({g \in Gophers : Terminated(g)})

(* Main ends in every program that does not deadlock.                      *)
MainEnds == Runs("go") => <>(demo = "select_1" \/ Terminated("main"))

(* Each demo goes wrong as it is there to show, and in no other way.       *)
WrongAsShown == OnlySelect1Deadlocks /\ LateWorkersOnly /\ RacesWhereShown
=============================================================================
