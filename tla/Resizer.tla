-------------------------------- MODULE Resizer --------------------------------
(***************************************************************************)
(* The image resizer: form.go saves an upload under the MD5 of its content *)
(* and publishes a task; every process of resize_worker.go has several     *)
(* goroutines on one channel of tasks, which the broker fills as far as    *)
(* the prefetch count allows.  A content stands for its MD5.               *)
(***************************************************************************)
EXTENDS Program, Naturals, Sequences, SequencesExt

CONSTANTS Upload, ImageOf,      \* uploads, and the content that each sends
          NotJpeg,              \* contents that do not decode
          Process, Goroutine,   \* worker processes, and the goroutines in each
          Sizes,                \* <<80, 160, 320>> in the code
          Prefetch,             \* 1 in the code
          MaxResizeFaults       \* bound: failures and crashes

Image == {ImageOf[u] : u \in Upload}

ASSUME ResizerAssumption ==
  /\ NotJpeg \subseteq Image /\ "none" \notin Image
  /\ Prefetch \in Nat \ {0} /\ Sizes \in Seq(Nat) /\ Sizes # <<>>

VARIABLES upload,    \* upload -> where uploadPage is, or how it ended
          files,     \* the originals in ./images
          queue,     \* the durable queue
          unacked,   \* process -> tasks delivered to it and not acknowledged
          tasks,     \* process -> the channel its goroutines range over
          worker,    \* process -> goroutine -> [pc, img, n]: what it resizes to which size
          resized,   \* content -> size -> "none", "partial" or "whole"
          gaveUp,    \* history: contents of which a resize or a publish was lost
          resizeFaults

resizerVars == <<upload, files, queue, unacked, tasks, worker, resized, gaveUp, resizeFaults>>

Resting == [pc |-> "idle", img |-> "none", n |-> 0]

ResizerInit ==
  /\ upload = [u \in Upload |-> "start"] /\ files = {} /\ queue = <<>>
  /\ unacked = [p \in Process |-> <<>>] /\ tasks = [p \in Process |-> <<>>]
  /\ worker = [p \in Process |-> [g \in Goroutine |-> Resting]]
  /\ resized = [i \in Image |-> [n \in DOMAIN Sizes |-> "none"]]
  /\ gaveUp = {} /\ resizeFaults = 0

Fault == resizeFaults < MaxResizeFaults /\ resizeFaults' = resizeFaults + 1

(***************************************************************************)
(* uploadPage.                                                             *)
(***************************************************************************)
UploadAt(u, from, to) == upload[u] = from /\ upload' = [upload EXCEPT ![u] = to]

(* Until the rename nothing is under the image's name: a form without a    *)
(* file, or a file that cannot be created or written, leaves it so.        *)
SaveTmp(u) ==
  /\ \/ UploadAt(u, "start", "saved") /\ UNCHANGED resizeFaults
     \/ UploadAt(u, "start", "refused") /\ Fault
  /\ UNCHANGED <<files, queue, unacked, tasks, worker, resized, gaveUp>>

Rename(u) ==
  /\ \/ UploadAt(u, "saved", "renamed") /\ files' = files \cup {ImageOf[u]} /\ UNCHANGED resizeFaults
     \/ UploadAt(u, "saved", "refused") /\ Fault /\ UNCHANGED files
  /\ UNCHANGED <<queue, unacked, tasks, worker, resized, gaveUp>>

(* Publish without a confirmation: it panics, or is answered, whether or   *)
(* not the broker got the task.                                            *)
Publish(u) ==
  /\ \/ /\ UploadAt(u, "renamed", "successful")
        /\ queue' = Append(queue, ImageOf[u])
        /\ UNCHANGED <<gaveUp, resizeFaults>>
     \/ /\ UploadAt(u, "renamed", "successful") \/ UploadAt(u, "renamed", "panic")
        /\ Fault /\ gaveUp' = gaveUp \cup {ImageOf[u]} /\ UNCHANGED queue
  /\ UNCHANGED <<files, unacked, tasks, worker, resized>>

(***************************************************************************)
(* The broker, and a worker process.                                       *)
(***************************************************************************)
MayDeliver(p) == Len(unacked[p]) < Prefetch
Deliver(p) ==
  /\ queue # <<>> /\ MayDeliver(p)
  /\ queue' = Tail(queue)
  /\ unacked' = [unacked EXCEPT ![p] = Append(@, Head(queue))]
  /\ tasks' = [tasks EXCEPT ![p] = Append(@, Head(queue))]
  /\ UNCHANGED <<upload, files, worker, resized, gaveUp, resizeFaults>>

Is(p, g, pc) == worker[p][g].pc = pc
TaskBecomes(p, g, w) == worker' = [worker EXCEPT ![p][g] = w]

AutoAcked(p) == Tail(unacked[p])
StillUnacked(p) == unacked[p]
Take(p, g) ==
  /\ Is(p, g, "idle") /\ tasks[p] # <<>>
  /\ tasks' = [tasks EXCEPT ![p] = Tail(@)]
  /\ unacked' = [unacked EXCEPT ![p] = StillUnacked(p)]
  /\ TaskBecomes(p, g, [pc |-> "size", img |-> Head(tasks[p]), n |-> 1])
  /\ UNCHANGED <<upload, files, queue, resized, gaveUp, resizeFaults>>

(* One size: opened and decoded, then created empty, then encoded; a       *)
(* failure is printed, and the next size is taken.                         *)
LastSize(n) == n = Len(Sizes)
Skips(p, g) ==
  LET w == worker[p][g] IN
  TaskBecomes(p, g, [w EXCEPT !.pc = IF LastSize(w.n) THEN "ack" ELSE "size", !.n = @ + 1])

Open(p, g) ==
  LET w == worker[p][g] IN
  /\ Is(p, g, "size")
  /\ IF w.img \in files /\ w.img \notin NotJpeg
     THEN /\ TaskBecomes(p, g, [w EXCEPT !.pc = "encode"])
          /\ resized' = [resized EXCEPT ![w.img][w.n] = "partial"]
          /\ UNCHANGED <<gaveUp>>
     ELSE Skips(p, g) /\ gaveUp' = gaveUp \cup {w.img} /\ UNCHANGED resized
  /\ UNCHANGED <<upload, files, queue, unacked, tasks, resizeFaults>>

ResizeFails(p, g) ==
  /\ worker[p][g].pc \in {"size", "encode"}
  /\ Fault /\ Skips(p, g)
  /\ gaveUp' = gaveUp \cup {worker[p][g].img}
  /\ UNCHANGED <<upload, files, queue, unacked, tasks, resized>>

(* A file that another goroutine has emptied meanwhile is whole when the   *)
(* last of them is done.                                                   *)
OthersEncode(p, g) ==
  \E q \in Process, h \in Goroutine : <<q, h>> # <<p, g>> /\ worker[q][h] = worker[p][g]
Encode(p, g) ==
  LET w == worker[p][g] IN
  /\ Is(p, g, "encode") /\ Skips(p, g)
  /\ resized' = [resized EXCEPT ![w.img][w.n] = IF OthersEncode(p, g) THEN @ ELSE "whole"]
  /\ UNCHANGED <<upload, files, queue, unacked, tasks, gaveUp, resizeFaults>>

Ack(p, g) ==
  /\ Is(p, g, "ack") /\ TaskBecomes(p, g, Resting)
  /\ unacked' = [unacked EXCEPT ![p] = RemoveFirst(@, worker[p][g].img)]
  /\ UNCHANGED <<upload, files, queue, tasks, resized, gaveUp, resizeFaults>>

Dropped(p) == <<>>
Redelivered(p) == unacked[p]
(* A process dies and is started again: the broker delivers again what it  *)
(* had not acknowledged.                                                   *)
Crash(p) ==
  /\ Fault
  /\ worker' = [worker EXCEPT ![p] = [g \in Goroutine |-> Resting]]
  /\ queue' = Redelivered(p) \o queue
  /\ unacked' = [unacked EXCEPT ![p] = <<>>] /\ tasks' = [tasks EXCEPT ![p] = <<>>]
  /\ UNCHANGED <<upload, files, resized, gaveUp>>

(* The web process dies between any two steps of an upload. *)
UploadCrash(u) ==
  /\ upload[u] \in {"start", "saved", "renamed"} /\ Fault
  /\ upload' = [upload EXCEPT ![u] = "crashed"]
  /\ UNCHANGED <<files, queue, unacked, tasks, worker, resized, gaveUp>>

GoroutineStep(p, g) == Take(p, g) \/ Open(p, g) \/ Encode(p, g) \/ Ack(p, g)
UploadStep(u) == SaveTmp(u) \/ Rename(u) \/ Publish(u)
ResizerNext ==
  \/ \E u \in Upload : UploadStep(u) \/ UploadCrash(u)
  \/ \E p \in Process : \/ Deliver(p) \/ Crash(p)
                        \/ \E g \in Goroutine : GoroutineStep(p, g) \/ ResizeFails(p, g)

ResizerSpec == ResizerInit /\ [][ResizerNext]_resizerVars

(* Goroutines run, and the broker delivers to a process with room. *)
ResizerFair ==
  /\ \A u \in Upload : WF_resizerVars(Runs("resizer") /\ UploadStep(u))
  /\ \A p \in Process : WF_resizerVars(Runs("resizer") /\ Deliver(p))
  /\ \A p \in Process, g \in Goroutine : WF_resizerVars(Runs("resizer") /\ GoroutineStep(p, g))

(***************************************************************************)
(* What the resizer promises.                                              *)
(***************************************************************************)

UploadPc == {"start", "saved", "renamed", "successful", "refused", "panic", "crashed"}

(* Types: of the uploads, the queue, the processes and what is on disk.    *)
ResizerTypeOK ==
  /\ upload \in [Upload -> UploadPc] /\ queue \in Seq(Image)
  /\ files \subseteq Image /\ gaveUp \subseteq Image
  /\ unacked \in [Process -> Seq(Image)] /\ tasks \in [Process -> Seq(Image)]
  /\ worker \in [Process -> [Goroutine -> [pc : {"idle", "size", "encode", "ack"},
                                           img : Image \cup {"none"}, n : 0 .. Len(Sizes) + 1]]]
  /\ resized \in [Image -> [DOMAIN Sizes -> {"none", "partial", "whole"}]]

Pending == ToSet(queue) \cup UNION {ToSet(unacked[p]) : p \in Process}
Whole(i) == \A n \in DOMAIN Sizes : resized[i][n] = "whole"

(* No task is lost by a crash or doubled by a redelivery: the image of an  *)
(* upload that was called successful is resized, or its task is still with *)
(* the broker, unless a resize or the publishing itself was lost.          *)
SuccessfulIsResized ==
  \A u \in Upload : upload[u] = "successful" =>
    ImageOf[u] \in Pending \cup gaveUp \/ Whole(ImageOf[u])

(* Of the many goroutines of a process only as many work as the prefetch   *)
(* count says, and each has a task that is not acknowledged: one.          *)
BusyWithin ==
  \A p \in Process :
    LET busy == {g \in Goroutine : ~Is(p, g, "idle")}
    IN  /\ \A g \in busy : worker[p][g].img \in ToSet(unacked[p])
        /\ Prefetch = 1 => \A g, h \in busy : g = h

(* A successful upload is resized, however the processes crash.            *)
SuccessfulGetsResized ==
  Runs("resizer") =>
    <>[](\A u \in Upload : upload[u] = "successful" => Whole(ImageOf[u]) \/ ImageOf[u] \in gaveUp)

(* Tasks are kept, however broker and processes share them out.            *)
TasksKept == ResizerTypeOK /\ SuccessfulIsResized /\ BusyWithin
=============================================================================
