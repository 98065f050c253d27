------------------------------ MODULE Recovery -------------------------------
(***************************************************************************)
(* Web recovery: the upload handlers of the web server (webnet/wn_main.c)  *)
(* store an image under /tmp and notify the flash thread                   *)
(* (board/.../flash.c), which erases the image's region of the SPI flash,  *)
(* writes the file there and reports its progress in board_flash_status.   *)
(*                                                                         *)
(* The flash is a row of blocks.  A block holds "old" data, nothing        *)
(* (Erased), block i of upload v (<<v, i>>), or the garbage left by        *)
(* writing over something (Bad).                                           *)
(*                                                                         *)
(*   k, e        the kernel and board_flash_event                          *)
(*   pc          Web:   run, sched (about to call rt_schedule()),          *)
(*                      notify (in upload_close(), status reset)           *)
(*               Flash: loop, recv, back, open, erase, write, and          *)
(*                      erase_s, write_s: asleep inside sfud               *)
(*   file        /tmp: upload number and blocks written of each image file *)
(*               (the file system opens a file once at a time: opening or  *)
(*               unlinking an open file fails with -EBUSY, dfs_file.c)     *)
(*   file_type   the static variable of wn_main.c, -1 for NoKind           *)
(*   session     of each web session: is it uploading, what and which      *)
(*   status      board_flash_status                                        *)
(*   job, got    the image the flash thread works on; history: the upload  *)
(*               number of the file when it was opened                     *)
(*   pos         blocks of the job erased, then written                    *)
(*   flash       the SPI flash                                             *)
(*   uploads     number of uploads so far                                  *)
(*   closed      history: the upload that was closed last                  *)
(*   faults      history: what has gone wrong so far: a failed "write" or  *)
(*               "malloc", or an upload begun in a "hurry"                 *)
(*                                                                         *)
(* The ram disk has room for an upload, and an image is not longer than    *)
(* its region: nothing in the code checks either.                          *)
(***************************************************************************)
EXTENDS EventOps

CONSTANTS Web, Flash,   \* the two threads
          Sessions,     \* web sessions
          Capacity,     \* of the flash, in blocks
          MaxUploads,   \* bound on the number of uploads
          MayFail       \* what may fail: sfud_write() and rt_malloc()

Kinds == {"FIRMWARE", "UBOOT", "ART", "FULL"}

ASSUME RecoveryAssumption ==
    /\ Threads = {Idle, Web, Flash} /\ Web # Flash /\ Idle \notin {Web, Flash}
    /\ PriorityMax = 3
    /\ Bits = Kinds
    /\ Capacity \in Nat /\ Capacity > 3
    /\ MaxUploads \in Nat
    /\ MayFail \subseteq {"write", "malloc"}

VARIABLES k, e, pc, file, file_type, session, status, job, got, pos, flash,
          uploads, closed, faults

vars == <<k, e, pc, file, file_type, session, status, job, got, pos, flash,
          uploads, closed, faults>>

me == k.current

NoKind == "NONE"
Old    == <<0, 0>>
Erased == <<0, 1>>
Bad    == <<0, 2>>
NoFile == [upload |-> 0, length |-> 0]

(***************************************************************************)
(* The layout, in units of 64 KB: 2 for the boot loader, 1 for the radio   *)
(* calibration at the end, the rest for the firmware.  The four cases of   *)
(* the code are those of capacity 256, 128, 64 and 32.                     *)
(***************************************************************************)
Start(kind) == CASE kind = "FIRMWARE" -> 2
                 [] kind = "ART"      -> Capacity - 1
                 [] OTHER             -> 0

Length(kind) == CASE kind = "FIRMWARE" -> Capacity - 3
                  [] kind = "UBOOT"    -> 2
                  [] kind = "ART"      -> 1
                  [] kind = "FULL"     -> Capacity

Region(kind) == Start(kind) .. Start(kind) + Length(kind) - 1

WebLabels   == {"run", "sched", "notify"}
FlashLabels == {"loop", "recv", "back", "open", "erase", "write", "erase_s", "write_s"}

TypeOK ==
    /\ k \in KernelStates
    /\ e \in EventStates
    /\ pc \in [Threads -> WebLabels \cup FlashLabels]
    /\ pc[Web] \in WebLabels /\ pc[Flash] \in FlashLabels
    /\ file \in [Kinds -> [upload : 0 .. MaxUploads, length : 0 .. Capacity]]
    /\ file_type \in Kinds \cup {NoKind}
    /\ session \in [Sessions -> [kind : Kinds \cup {NoKind}, upload : 0 .. MaxUploads]]
    /\ status \in -1 .. 100 \cup {404}
    /\ job \in Kinds /\ got \in 0 .. MaxUploads /\ pos \in 0 .. Capacity
    /\ flash \in [0 .. Capacity - 1 -> (0 .. MaxUploads) \X (0 .. Capacity)]
    /\ uploads \in 0 .. MaxUploads
    /\ closed \in [kind : Kinds \cup {NoKind}, upload : 0 .. MaxUploads, length : 0 .. Capacity]
    /\ faults \subseteq {"write", "malloc", "hurry"}

\* httpd_init() is done; the flash thread is waiting for its first event.
Init ==
    /\ k = WaitKernel(rt_thread_timeout(rt_thread_timeout(
               Asleep([t \in Threads |-> CASE t = Flash -> 0 [] t = Web -> 1 [] t = Idle -> 2]),
               Flash), Web), Flash, FALSE, "FIFO")
    /\ e = WaitEvent(rt_event_init, Flash, Kinds, {"OR", "CLEAR"})
    /\ pc = [t \in Threads |-> CASE t = Flash -> "recv" [] t # Flash -> "run"]
    /\ file = [x \in Kinds |-> NoFile]
    /\ file_type = NoKind
    /\ session = [s \in Sessions |-> [kind |-> NoKind, upload |-> 0]]
    /\ status = 0
    /\ job = "FIRMWARE" /\ got = 0 /\ pos = 0
    /\ flash = [b \in 0 .. Capacity - 1 |-> Old]
    /\ uploads = 0
    /\ closed = [kind |-> NoKind, upload |-> 0, length |-> 0]
    /\ faults = {}

FlashBusy == Flash \notin On(k, EventList)

Uploading(s) == session[s].kind # NoKind

Working == pc[Flash] \in {"erase", "write", "erase_s", "write_s"}

\* fd_is_open(): image file x is open in a session or in the flash thread.
IsOpen(x) == (\E s \in Sessions : session[s].kind = x) \/ (Working /\ job = x)

(***************************************************************************)
(* The web server thread.                                                  *)
(***************************************************************************)

\* A form is posted in session s; a patient user does so when nothing else is
\* going on.
MayUpload(s) ==
    /\ me = Web /\ pc[Web] = "run"
    /\ ~Uploading(s) /\ uploads < MaxUploads
    /\ faults' = IF FlashBusy \/ \E o \in Sessions : Uploading(o)
                 THEN faults \cup {"hurry"} ELSE faults

\* A mutant: a file that is open is opened once more.
UploadOpenAnyway(s, x) ==
    /\ MayUpload(s)
    /\ uploads' = uploads + 1
    /\ file_type' = x
    /\ file' = [y \in Kinds |-> IF y = x THEN [upload |-> uploads + 1, length |-> 0]
                               ELSE IF IsOpen(y) THEN file[y] ELSE NoFile]
    /\ session' = [session EXCEPT ![s] = [kind |-> x, upload |-> uploads + 1]]
    /\ UNCHANGED <<k, e, pc, status, job, got, pos, flash, closed>>

\* upload_open(): every image in /tmp that is not open is removed and a new
\* one is created; when image x is open the session is closed.
UploadOpen(s, x) ==
    /\ MayUpload(s)
    /\ uploads' = uploads + 1
    /\ file_type' = x
    /\ file' = [y \in Kinds |-> IF IsOpen(y) THEN file[y]
                               ELSE IF y = x THEN [upload |-> uploads + 1, length |-> 0]
                               ELSE NoFile]
    /\ session' = IF IsOpen(x) THEN session
                  ELSE [session EXCEPT ![s] = [kind |-> x, upload |-> uploads + 1]]
    /\ UNCHANGED <<k, e, pc, status, job, got, pos, flash, closed>>

\* upload_open() of a form field that names no image.
UploadOpenUnknown(s) ==
    /\ MayUpload(s)
    /\ file_type' = NoKind
    /\ UNCHANGED <<k, e, pc, file, session, status, job, got, pos, flash, uploads, closed>>

\* upload_write(): the next block of the session's image.
UploadWrite(s) ==
    LET x == session[s].kind
    IN  /\ me = Web /\ pc[Web] = "run"
        /\ Uploading(s)
        /\ file[x].length < Length(x)
        /\ file' = [file EXCEPT ![x].length = @ + 1]
        /\ UNCHANGED <<k, e, pc, file_type, session, status, job, got, pos, flash, uploads, closed, faults>>

\* A mutant: the status of the upload before stays.
StatusKept == status

\* Every board_flash_xxx_notisfy() first resets the status, but keeps an error.
StatusReset == IF status > 0 THEN 0 ELSE status

\* upload_close(), at the end of the upload or when the connection breaks: the
\* file is closed and board_flash_status reset for the image file_type names.
UploadClose(s) ==
    LET x == session[s].kind
    IN  /\ me = Web /\ pc[Web] = "run"
        /\ Uploading(s)
        /\ status' = IF file_type = NoKind THEN 404 ELSE StatusReset
        /\ session' = [session EXCEPT ![s] = [kind |-> NoKind, upload |-> 0]]
        /\ closed' = [kind |-> x, upload |-> file[x].upload, length |-> file[x].length]
        /\ pc' = [pc EXCEPT ![Web] = IF file_type = NoKind THEN "run" ELSE "notify"]
        /\ UNCHANGED <<k, e, file, file_type, job, got, pos, flash, uploads, faults>>

\* board_flash_xxx_notisfy() for that image, after the reset.
Notify ==
    LET x == rt_event_send(k, e, {file_type})
    IN  /\ me = Web /\ pc[Web] = "notify"
        /\ k' = x.k /\ e' = x.e
        /\ pc' = [pc EXCEPT ![Web] = IF x.k = k THEN "run" ELSE "sched"]
        /\ UNCHANGED <<file, file_type, session, status, job, got, pos, flash, uploads, closed, faults>>

\* The web server waits for a request.
WebWaits ==
    /\ me = Web /\ pc[Web] = "run"
    /\ k' = rt_thread_sleep(k, Web)
    /\ pc' = [pc EXCEPT ![Web] = "sched"]
    /\ UNCHANGED <<e, file, file_type, session, status, job, got, pos, flash, uploads, closed, faults>>

(***************************************************************************)
(* The flash thread.                                                       *)
(***************************************************************************)
\* The else-if chain: one of the images whose events were received.
Chosen(s) == CASE "FIRMWARE" \in s -> "FIRMWARE"
               [] "FIRMWARE" \notin s /\ "UBOOT" \in s -> "UBOOT"
               [] s \cap {"FIRMWARE", "UBOOT"} = {} /\ "ART" \in s -> "ART"
               [] s = {"FULL"} -> "FULL"

\* rt_event_recv() of any event, for ever.
Receive ==
    /\ me = Flash /\ pc[Flash] = "loop"
    /\ IF e.set # {}
       THEN /\ job' = Chosen(e.set)
            /\ e' = Received(e, Kinds, {"OR", "CLEAR"})
            /\ status' = 0
            /\ pc' = [pc EXCEPT ![Flash] = "open"]
            /\ UNCHANGED k
       ELSE /\ k' = WaitKernel(k, Flash, FALSE, "FIFO")
            /\ e' = WaitEvent(e, Flash, Kinds, {"OR", "CLEAR"})
            /\ pc' = [pc EXCEPT ![Flash] = "recv"]
            /\ UNCHANGED <<job, status>>
    /\ UNCHANGED <<file, file_type, session, got, pos, flash, uploads, closed, faults>>

\* Back from waiting with the events in event_set.
ReceiveBack ==
    /\ me = Flash /\ pc[Flash] = "back"
    /\ job' = Chosen(e.want[Flash])
    /\ status' = 0
    /\ pc' = [pc EXCEPT ![Flash] = "open"]
    /\ UNCHANGED <<k, e, file, file_type, session, got, pos, flash, uploads, closed, faults>>

\* The buffer is allocated and the file opened.
Open ==
    /\ me = Flash /\ pc[Flash] = "open"
    /\ \/ /\ "malloc" \in MayFail
          /\ faults' = faults \cup {"malloc"}
          /\ pc' = [pc EXCEPT ![Flash] = "loop"]
          /\ UNCHANGED <<status, got, pos>>
       \/ /\ file[job] = NoFile \/ IsOpen(job)
          /\ status' = -1
          /\ pc' = [pc EXCEPT ![Flash] = "loop"]
          /\ UNCHANGED <<got, pos, faults>>
       \/ /\ file[job] # NoFile /\ ~IsOpen(job)
          /\ got' = file[job].upload
          /\ pos' = 0
          /\ pc' = [pc EXCEPT ![Flash] = "erase"]
          /\ UNCHANGED <<status, faults>>
    /\ UNCHANGED <<k, e, file, file_type, session, job, flash, uploads, closed>>

Percent(n) == (n * 100) \div Length(job)

\* One round of the erase loop; more: there is another one.
EraseRound(more) ==
    /\ me = Flash /\ pc[Flash] = "erase"
    /\ flash' = [flash EXCEPT ![Start(job) + pos] = Erased]
    /\ status' = Percent(pos) \div 2
    /\ pos' = IF more THEN pos + 1 ELSE 0
    /\ pc' = [pc EXCEPT ![Flash] = IF more THEN "erase" ELSE "write"]
    /\ UNCHANGED <<k, e, file, file_type, session, job, got, uploads, closed, faults>>

\* A mutant: the loop runs one block too far.
EraseTooFar == EraseRound(pos < Length(job) /\ Start(job) + pos + 1 < Capacity)

Erase == EraseRound(pos + 1 < Length(job))

\* Programming a block of NOR flash that is not erased garbles it.
Programmed(b, data) == IF flash[b] = Erased THEN data ELSE Bad

\* One round of the write loop; done: the status after the last one.
WriteRound(progress, done) ==
    LET b == Start(job) + pos
    IN  /\ me = Flash /\ pc[Flash] = "write"
        /\ IF pos < file[job].length
           THEN /\ \/ /\ flash' = [flash EXCEPT ![b] = Programmed(b, <<file[job].upload, pos>>)]
                      /\ UNCHANGED faults
                   \/ /\ "write" \in MayFail
                      /\ faults' = faults \cup {"write"}
                      /\ UNCHANGED flash
                /\ status' = (progress \div 2) + 50
                /\ pos' = pos + 1
                /\ UNCHANGED pc
           ELSE /\ status' = done
                /\ pc' = [pc EXCEPT ![Flash] = "loop"]
                /\ UNCHANGED <<flash, pos, faults>>
        /\ UNCHANGED <<k, e, file, file_type, session, job, got, uploads, closed>>

\* Mutants: the progress is one block ahead, or the final status is missing.
WriteAhead   == WriteRound(Percent(pos + 2), 100)
WriteForgets == WriteRound(Percent(pos + 1), status)

Write == WriteRound(Percent(pos + 1), 100)

\* sfud waits for the chip in rt_thread_delay() (retry_delay_100us).
SfudDelay ==
    /\ me = Flash /\ pc[Flash] \in {"erase", "write"}
    /\ k' = rt_thread_sleep(k, Flash)
    /\ pc' = [pc EXCEPT ![Flash] = IF @ = "erase" THEN "erase_s" ELSE "write_s"]
    /\ UNCHANGED <<e, file, file_type, session, status, job, got, pos, flash, uploads, closed, faults>>

\* rt_schedule(), called by either thread.
Schedule ==
    /\ pc[me] \in {"sched", "recv", "erase_s", "write_s"}
    /\ k' = rt_schedule(k)
    /\ pc' = [pc EXCEPT ![me] = CASE @ = "sched"   -> "run"
                                  [] @ = "recv"    -> "back"
                                  [] @ = "erase_s" -> "erase"
                                  [] @ = "write_s" -> "write"]
    /\ UNCHANGED <<e, file, file_type, session, status, job, got, pos, flash, uploads, closed, faults>>

(***************************************************************************)
(* The clock interrupt.                                                    *)
(***************************************************************************)
Expire(t) ==
    /\ t \in k.timer
    /\ k' \in Expiry(k, t)
    /\ UNCHANGED <<e, pc, file, file_type, session, status, job, got, pos, flash, uploads, closed, faults>>

WebStep ==
    \/ Notify \/ WebWaits
    \/ \E s \in Sessions : \/ UploadOpenUnknown(s) \/ UploadWrite(s) \/ UploadClose(s)
                          \/ \E x \in Kinds : UploadOpen(s, x)

FlashStep == Receive \/ ReceiveBack \/ Open \/ Erase \/ Write \/ SfudDelay

Next == WebStep \/ FlashStep \/ Schedule \/ \E t \in Threads : Expire(t)

Spec == Init /\ [][Next]_vars

(***************************************************************************)
(* A thread that holds the processor goes on, and the flash thread does    *)
(* get through sfud: the chip does not keep it waiting for ever.  A timer  *)
(* that is activated expires or is stopped: as Expire(t) is enabled when t *)
(* is in k.timer and takes it out, this is WF_vars(Expire(t)).             *)
(***************************************************************************)
Fairness ==
    /\ WF_vars(Schedule)
    /\ WF_vars(Notify)
    /\ WF_vars(Receive \/ ReceiveBack \/ Open)
    /\ SF_vars(Erase \/ Write)
    /\ \A t \in Threads : []<>(t \notin k.timer)

FairSpec == Spec /\ Fairness

(***************************************************************************)
(* Properties.                                                             *)
(***************************************************************************)

Flashed ==
    \A i \in 0 .. closed.length - 1 : flash[Start(closed.kind) + i] = <<closed.upload, i>>

\* The recovery page announces that the update is complete when the status is
\* 100 (sysfs/www/upgrading.html:38): then the image uploaded last is in its
\* region of the flash, block by block - if every write succeeded and every
\* upload waited for the one before.
DoneMeansFlashed == status = 100 /\ faults \subseteq {"malloc"} => Flashed

\* The same, whenever the upload began.
CompleteMeansFlashed == status = 100 => Flashed

\* Flashing one image leaves every other region of the flash alone.
RegionRespected ==
    [][\A b \in DOMAIN flash : flash'[b] # flash[b] => b \in Region(job)]_vars

\* The recovery page asks to wait until the progress bar is complete
\* (sysfs/www/upgrading.html:20): every upload that was announced to the flash
\* thread ends with status 100, or with the error -1, unless the thread found no
\* memory for its buffer (then the status stays 0: flash.c:251).
ProgressCompletes == pc[Web] = "notify" ~> status \in {100, -1} \/ "malloc" \in faults

\* From opening an image to writing its last block, and whatever the web sessions
\* do meanwhile, the flash thread reads one upload that nobody writes any more;
\* what it has written is that upload and lies on blocks it has erased.
WritesOneUpload ==
    Working =>
        /\ file[job].upload = got
        /\ \A s \in Sessions : session[s].kind # job
        /\ pc[Flash] \in {"write", "write_s"} =>
              \A i \in 0 .. Length(job) - 1 :
                  LET b == flash[Start(job) + i]
                  IN  IF i >= pos THEN b = Erased
                      ELSE b = <<got, i>> \/ (b = Erased /\ "write" \in faults)

(***************************************************************************)
(* The inductive invariant behind these.  ThreadsInv: only the flash       *)
(* thread waits for the event, without a timeout, and what it is given is  *)
(* an image to flash.  ImagesInv: the file of the job is not touched, and  *)
(* the region of the job is being erased or written up to pos.  CalmInv:   *)
(* as long as nobody is in a hurry, the flash thread is woken for the one  *)
(* image that was closed and finds it as it was.                           *)
(***************************************************************************)
AboutToSchedule == {"sched", "recv", "erase_s", "write_s"}

ThreadsInv ==
    /\ KernelOK(k, {}) /\ k.lock_nest = 0
    /\ On(k, EventList) \subseteq {Flash}
    /\ ~FlashBusy =>
          /\ Flash \notin k.timer /\ pc[Flash] \in {"recv", "back"}
          /\ e.want[Flash] = Kinds /\ e.info[Flash] = {"OR", "CLEAR"}
    /\ pc[Flash] \in {"recv", "back"} => e.want[Flash] # {}
    /\ pc[me] \notin AboutToSchedule => k.stat[me] = "RUNNING"
    /\ pc[Web] = "notify" => file_type # NoKind

ImagesInv ==
    /\ \A x \in Kinds : file[x].length <= Length(x)
    /\ WritesOneUpload
    /\ pc[Flash] \in {"erase", "erase_s"} =>
          pos < Length(job) /\ \A i \in 0 .. pos - 1 : flash[Start(job) + i] = Erased
    /\ pc[Flash] \in {"write", "write_s"} => pos <= file[job].length

\* The upload that was closed last is still in its file.
ClosedInFile ==
    /\ closed.kind # NoKind
    /\ file[closed.kind] = [upload |-> closed.upload, length |-> closed.length]

CalmInv ==
    "hurry" \notin faults =>
        /\ \A s, o \in Sessions : Uploading(s) /\ Uploading(o) => s = o
        /\ \A s \in Sessions : Uploading(s) =>
              ~FlashBusy /\ pc[Web] # "notify" /\ file_type = session[s].kind
        /\ e.set = {}
        /\ pc[Web] = "notify" => ~FlashBusy /\ ClosedInFile /\ closed.kind = file_type
        /\ FlashBusy =>
              /\ ClosedInFile
              /\ pc[Flash] \in {"recv", "back"} => e.want[Flash] = {closed.kind}
              /\ Working \/ pc[Flash] = "open" => job = closed.kind
        /\ status = 100 /\ "write" \notin faults => Flashed

RecoveryInv == TypeOK /\ ThreadsInv /\ ImagesInv /\ CalmInv

=============================================================================
