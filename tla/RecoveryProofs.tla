--------------------------- MODULE RecoveryProofs ---------------------------
(***************************************************************************)
(* Web recovery flashes what was uploaded, for any size of the flash and   *)
(* any number of sessions and uploads, whatever fails.                     *)
(***************************************************************************)
EXTENDS Recovery, KernelProofs

(***************************************************************************)
(* The layout of the flash and the progress in per cent.                   *)
(***************************************************************************)
LEMMA Layout ==
    ASSUME NEW x \in Kinds
    PROVE  /\ Start(x) \in Nat /\ Length(x) \in Nat \ {0}
           /\ Start(x) + Length(x) <= Capacity
BY RecoveryAssumption DEF Kinds, Start, Length

LEMMA PartOf ==
    ASSUME NEW n \in Nat, NEW l \in Nat \ {0}, n <= l
    PROVE  (n * 100) \div l \in 0 .. 100 /\ (n < l => (n * 100) \div l < 100)
OBVIOUS

LEMMA Progress ==
    ASSUME job \in Kinds, NEW n \in Nat, n <= Length(job)
    PROVE  Percent(n) \in 0 .. 100 /\ (n < Length(job) => Percent(n) < 100)
BY Layout, PartOf, Zenon DEF Percent

\* rt_event_send() of some events of the set, when t at most is waiting, for any
\* of them and to clear them.
Sent(x, s, v, b, t) ==
    IF t \in On(s, EventList)
    THEN /\ x.k = rt_ipc_list_resume(s, EventList)
         /\ x.e = [v EXCEPT !.want[t] = v.set \cup b, !.set = {}]
    ELSE x.k = s /\ x.e = [v EXCEPT !.set = v.set \cup b]

LEMMA SendEffect ==
    ASSUME NEW s, KernelOK(s, {}), NEW v \in EventStates, NEW b \in SUBSET Bits, b # {},
           NEW t \in Threads, On(s, EventList) \subseteq {t},
           t \in On(s, EventList) => v.want[t] = Bits /\ v.info[t] = {"OR", "CLEAR"}
    PROVE  Sent(rt_event_send(s, v, b), s, v, b, t)
<1> DEFINE q == s.wait[EventList]
           a == [k |-> s, e |-> [v EXCEPT !.set = v.set \cup b]]
           F(f) == [i \in 0 .. Len(q) |-> IF i = 0 THEN a ELSE Serve(f[i - 1], q[i])]
           g == CHOOSE f : f = F(f)
<1>1. rt_event_send(s, v, b) = g[Len(q)]
  BY Zenon DEF rt_event_send
<1>2. EventList \in Lists
  BY EventAssumption, Zenon
<1>3. CASE t \notin On(s, EventList)
  <2>1. Len(q) = 0
    BY <1>2, <1>3, OneOnList, Zenon
  <2> DEFINE w == [i \in 0 .. 0 |-> a]
  <2> HIDE DEF a, q
  <2>2. w = F(w)
    BY <2>1
  <2>3. g = F(g)
    BY <2>2, Zenon
  <2> HIDE DEF g
  <2>4. F(g)[0] = a
    BY <2>1
  <2>5. g[Len(q)] = a
    BY <2>1, <2>3, <2>4, Zenon
  <2>6. QED BY <1>1, <1>3, <2>5 DEF Sent, a
<1>4. CASE t \in On(s, EventList)
  <2>1. Len(q) = 1 /\ q[1] = t /\ Head(q) = t
    BY <1>2, <1>4, OneOnList, Zenon
  <2> DEFINE w == [i \in 0 .. 1 |-> IF i = 0 THEN a ELSE Serve(a, t)]
  <2> HIDE DEF a, q
  <2>2. w = F(w)
    BY <2>1
  <2>3. g = F(g)
    BY <2>2, Zenon
  <2> HIDE DEF g
  <2>4. F(g)[0] = a /\ F(g)[1] = Serve(g[0], t)
    BY <2>1
  <2>5. g[Len(q)] = Serve(a, t)
    BY <2>1, <2>3, <2>4, Zenon
  <2>6. /\ a.k = s /\ a.e.set = v.set \cup b /\ a.e.want = v.want /\ a.e.info = v.info
        /\ a.e = [v EXCEPT !.set = v.set \cup b]
    BY Zenon DEF a, EventStates
  <2>7. a.e.want[t] \cap a.e.set = v.set \cup b /\ Satisfied(a.e.set, a.e.want[t], a.e.info[t])
    BY <1>4, <2>6 DEF EventStates, Satisfied
  <2>8. Serve(a, t).k = rt_thread_resume(s, t)
    BY <2>6, <2>7, Zenon DEF Serve
  <2>9. Serve(a, t).e = [a.e EXCEPT !.want[t] = v.set \cup b, !.set = a.e.set \ (v.set \cup b)]
    BY <1>4, <2>6, <2>7, Zenon DEF Serve
  <2>10. Serve(a, t).e = [v EXCEPT !.want[t] = v.set \cup b, !.set = {}]
    BY <2>6, <2>9, Zenon DEF EventStates
  <2>11. QED BY <1>1, <1>4, <2>1, <2>5, <2>8, <2>10, Zenon DEF Sent, rt_ipc_list_resume, q
<1>5. QED BY <1>3, <1>4, Zenon

(***************************************************************************)
(* What the steps start from.                                              *)
(***************************************************************************)
LEMMA Facts ==
    ASSUME RecoveryInv
    PROVE  /\ k \in KernelStates /\ me \in Threads /\ EventList \in Lists
           /\ Flash \in Threads /\ Web \in Threads /\ Flash # Web /\ Idle \notin {Flash, Web}
           /\ KernelOK(k, {}) /\ k.lock_nest = 0
           /\ NoKind \notin Kinds
           /\ ~FlashBusy => k.stat[Flash] = "SUSPEND" /\ On(k, EventList) = {Flash}
           /\ FlashBusy => On(k, EventList) = {}
           /\ pc[me] \notin AboutToSchedule => k.stat[me] = "RUNNING"
           /\ me = Flash /\ pc[me] \notin AboutToSchedule => FlashBusy
<1>1. k \in KernelStates /\ me \in Threads /\ EventList \in Lists
      /\ Flash \in Threads /\ Web \in Threads /\ Flash # Web /\ Idle \notin {Flash, Web}
      /\ KernelOK(k, {}) /\ k.lock_nest = 0
  BY RecoveryAssumption, EventAssumption, Zenon DEF RecoveryInv, ThreadsInv, TypeOK, KernelStates, me
<1>2. ~FlashBusy => k.stat[Flash] = "SUSPEND" /\ On(k, EventList) = {Flash}
  BY <1>1 DEF RecoveryInv, ThreadsInv, FlashBusy, On, KernelOK, Linked
<1>3. FlashBusy => On(k, EventList) = {}
  BY Zenon DEF RecoveryInv, ThreadsInv, FlashBusy
<1>4. NoKind \notin Kinds
  BY Zenon DEF NoKind, Kinds
<1>5. pc[me] \notin AboutToSchedule => k.stat[me] = "RUNNING"
  BY Zenon DEF RecoveryInv, ThreadsInv
<1>6. QED BY <1>1, <1>2, <1>3, <1>4, <1>5, Zenon

\* A step of the scheduler or the clock, or one by which a thread goes to sleep:
\* it leaves the images alone and whether the flash thread waits for an event.
LEMMA KernelStep ==
    ASSUME RecoveryInv,
           UNCHANGED <<e, file, file_type, session, status, job, got, pos, flash, uploads, closed, faults>>,
           KernelOK(k', {}), k'.lock_nest = 0, On(k', EventList) = On(k, EventList),
           ~FlashBusy => Flash \notin k'.timer,
           pc' \in [Threads -> WebLabels \cup FlashLabels], pc'[Web] \in WebLabels,
           pc'[Flash] \in FlashLabels,
           pc'[Web] = "notify" <=> pc[Web] = "notify",
           pc'[Flash] \in {"recv", "back"} <=> pc[Flash] \in {"recv", "back"},
           pc'[Flash] \in {"erase", "erase_s"} <=> pc[Flash] \in {"erase", "erase_s"},
           pc'[Flash] \in {"write", "write_s"} <=> pc[Flash] \in {"write", "write_s"},
           pc'[Flash] = "open" <=> pc[Flash] = "open",
           pc'[k'.current] \notin AboutToSchedule => k'.stat[k'.current] = "RUNNING"
    PROVE  RecoveryInv'
<1>1. (FlashBusy' <=> FlashBusy) /\ (Working' <=> Working)
  BY Zenon DEF FlashBusy, Working
<1>2. TypeOK'
  BY DEF RecoveryInv, TypeOK, KernelOK, Shape
<1>3. ThreadsInv'
  BY <1>1, Zenon DEF RecoveryInv, ThreadsInv, me
<1>4. ImagesInv'
  BY <1>1, Zenon DEF RecoveryInv, ImagesInv, WritesOneUpload
<1>5. CalmInv'
  <2>1. (ClosedInFile' <=> ClosedInFile) /\ (Flashed' <=> Flashed)
        /\ \A s \in Sessions : Uploading(s)' <=> Uploading(s)
    BY Zenon DEF ClosedInFile, Flashed, Uploading
  <2>2. QED BY <1>1, <2>1, Zenon DEF RecoveryInv, CalmInv
<1>6. QED BY <1>2, <1>3, <1>4, <1>5, Zenon DEF RecoveryInv

LEMMA ScheduleInv ==
    ASSUME RecoveryInv, Schedule
    PROVE  RecoveryInv'
<1>1. KernelOK(k, {}) /\ k.lock_nest = 0 /\ EventList \in Lists /\ me \in Threads
      /\ Flash \in Threads /\ Web \in Threads
  BY Facts, Zenon
<1>2. /\ KernelOK(k', {}) /\ Settled(k') /\ k'.lock_nest = 0 /\ k'.timer = k.timer
      /\ On(k', EventList) = On(k, EventList)
  BY <1>1, SwitchEffect, Zenon DEF Schedule
<1>3. /\ pc' \in [Threads -> WebLabels \cup FlashLabels] /\ pc'[Web] \in WebLabels
      /\ pc'[Flash] \in FlashLabels
      /\ pc'[Web] = "notify" <=> pc[Web] = "notify"
      /\ pc'[Flash] \in {"recv", "back"} <=> pc[Flash] \in {"recv", "back"}
      /\ pc'[Flash] \in {"erase", "erase_s"} <=> pc[Flash] \in {"erase", "erase_s"}
      /\ pc'[Flash] \in {"write", "write_s"} <=> pc[Flash] \in {"write", "write_s"}
      /\ pc'[Flash] = "open" <=> pc[Flash] = "open"
  BY <1>1 DEF Schedule, RecoveryInv, TypeOK, WebLabels, FlashLabels
<1>4. ~FlashBusy => Flash \notin k'.timer
  BY <1>2, Zenon DEF RecoveryInv, ThreadsInv
<1>5. QED BY <1>2, <1>3, <1>4, KernelStep, Zenon DEF Schedule, Settled

LEMMA ExpireInv ==
    ASSUME RecoveryInv, NEW t \in Threads, Expire(t)
    PROVE  RecoveryInv'
<1>1. KernelOK(k, {}) /\ k.lock_nest = 0 /\ EventList \in Lists /\ t \in k.timer /\ k' \in Expiry(k, t)
  BY Facts, Zenon DEF Expire
<1>2. /\ KernelOK(k', {}) /\ Settled(k') /\ k'.lock_nest = 0 /\ k.stat[t] = "SUSPEND"
      /\ k'.stat[t] \in {"READY", "RUNNING"}
      /\ k'.error = [k.error EXCEPT ![t] = "ETIMEOUT"] /\ k'.timer = k.timer \ {t}
      /\ On(k', EventList) = On(k, EventList) \ {t}
  BY <1>1, ExpiryEffect
<1>3. t \notin On(k, EventList)
  BY <1>1, Zenon DEF RecoveryInv, ThreadsInv, FlashBusy
<1>4. On(k', EventList) = On(k, EventList) /\ (~FlashBusy => Flash \notin k'.timer)
  BY <1>2, <1>3 DEF RecoveryInv, ThreadsInv
<1>5. QED BY <1>2, <1>4, KernelStep, Zenon DEF Expire, Settled, RecoveryInv, TypeOK

LEMMA WebWaitsInv ==
    ASSUME RecoveryInv, WebWaits
    PROVE  RecoveryInv'
<1>1. KernelOK(k, {}) /\ k.lock_nest = 0 /\ EventList \in Lists /\ Web \in Threads /\ Flash # Web
      /\ k.current = Web /\ k.stat[k.current] = "RUNNING" /\ k.current # Idle
  BY Facts, Zenon DEF WebWaits, AboutToSchedule, me
<1>2. /\ KernelOK(k', {}) /\ k'.lock_nest = 0 /\ k'.timer = k.timer \cup {Web}
      /\ On(k', EventList) = On(k, EventList) /\ k'.current = Web
  BY <1>1, SleepEffect, Zenon DEF WebWaits
<1>3. ~FlashBusy => Flash \notin k'.timer
  BY <1>1, <1>2, Zenon DEF RecoveryInv, ThreadsInv
<1>4. /\ pc' \in [Threads -> WebLabels \cup FlashLabels] /\ pc'[Web] = "sched" /\ pc'[Flash] = pc[Flash]
      /\ pc[Web] = "run" /\ pc'[k'.current] \in AboutToSchedule
  BY <1>1, <1>2 DEF WebWaits, RecoveryInv, TypeOK, AboutToSchedule, WebLabels, FlashLabels
<1>5. QED BY <1>2, <1>3, <1>4, KernelStep DEF WebWaits, RecoveryInv, TypeOK, WebLabels

LEMMA SfudDelayInv ==
    ASSUME RecoveryInv, SfudDelay
    PROVE  RecoveryInv'
<1>1. KernelOK(k, {}) /\ k.lock_nest = 0 /\ EventList \in Lists /\ Flash \in Threads /\ Flash # Web
      /\ k.current = Flash /\ k.stat[k.current] = "RUNNING" /\ k.current # Idle /\ FlashBusy
  BY Facts, Zenon DEF SfudDelay, AboutToSchedule, me
<1>2. /\ KernelOK(k', {}) /\ k'.lock_nest = 0
      /\ On(k', EventList) = On(k, EventList) /\ k'.current = Flash
  BY <1>1, SleepEffect, Zenon DEF SfudDelay
<1>3. /\ pc' \in [Threads -> WebLabels \cup FlashLabels] /\ pc'[Web] = pc[Web]
      /\ \/ pc[Flash] = "erase" /\ pc'[Flash] = "erase_s"
         \/ pc[Flash] = "write" /\ pc'[Flash] = "write_s"
  BY <1>1 DEF SfudDelay, RecoveryInv, TypeOK, WebLabels, FlashLabels
<1>4. QED BY <1>1, <1>2, <1>3, KernelStep DEF SfudDelay, RecoveryInv, TypeOK, FlashLabels, AboutToSchedule

(***************************************************************************)
(* The web server thread.                                                  *)
(***************************************************************************)

\* What a form posted without hurry finds: no upload and an idle flash thread.
LEMMA Patient ==
    ASSUME RecoveryInv, NEW s \in Sessions, MayUpload(s), "hurry" \notin faults'
    PROVE  /\ faults' = faults /\ "hurry" \notin faults /\ ~FlashBusy
           /\ \A o \in Sessions : session[o].kind = NoKind
BY Zenon DEF MayUpload, Uploading

LEMMA UploadOpenUnknownInv ==
    ASSUME RecoveryInv, NEW s \in Sessions, UploadOpenUnknown(s)
    PROVE  RecoveryInv'
<1>1. /\ UNCHANGED <<k, e, pc, file, session, status, job, got, pos, flash, uploads, closed>>
      /\ file_type' = NoKind /\ pc[Web] = "run" /\ MayUpload(s)
      /\ faults \subseteq faults' /\ faults' \subseteq faults \cup {"hurry"}
  BY Zenon DEF UploadOpenUnknown, MayUpload
<1>2. (FlashBusy' <=> FlashBusy) /\ (Working' <=> Working) /\ (ClosedInFile' <=> ClosedInFile)
      /\ (Flashed' <=> Flashed) /\ \A o \in Sessions : Uploading(o)' <=> Uploading(o)
  BY <1>1, Zenon DEF FlashBusy, Working, ClosedInFile, Flashed, Uploading
<1>3. TypeOK'
  BY <1>1 DEF RecoveryInv, TypeOK
<1>4. ThreadsInv'
  BY <1>1, <1>2, Zenon DEF RecoveryInv, ThreadsInv, me
<1>5. ImagesInv'
  BY <1>1, <1>2, Zenon DEF RecoveryInv, ImagesInv, WritesOneUpload
<1>6. CalmInv'
  <2>1. SUFFICES ASSUME "hurry" \notin faults' PROVE CalmInv'
    BY Zenon DEF CalmInv
  <2>2. faults' = faults /\ "hurry" \notin faults /\ \A o \in Sessions : ~Uploading(o)
    BY <1>1, <2>1, Patient, Zenon DEF Uploading
  <2>3. QED BY <1>1, <1>2, <2>2, Zenon DEF RecoveryInv, CalmInv
<1>7. QED BY <1>3, <1>4, <1>5, <1>6, Zenon DEF RecoveryInv

\* A new image: neither the file of the job nor that of another upload is touched.
LEMMA UploadOpenInv ==
    ASSUME RecoveryInv, NEW s \in Sessions, NEW x \in Kinds, UploadOpen(s, x)
    PROVE  RecoveryInv'
<1>1. /\ UNCHANGED <<k, e, pc, status, job, got, pos, flash, closed>>
      /\ file_type' = x /\ pc[Web] = "run" /\ MayUpload(s) /\ uploads < MaxUploads
      /\ uploads' = uploads + 1
      /\ faults \subseteq faults' /\ faults' \subseteq faults \cup {"hurry"}
      /\ \A y \in Kinds : file'[y] = IF IsOpen(y) THEN file[y]
                                     ELSE IF y = x THEN [upload |-> uploads + 1, length |-> 0]
                                     ELSE NoFile
      /\ session' = IF IsOpen(x) THEN session
                    ELSE [session EXCEPT ![s] = [kind |-> x, upload |-> uploads + 1]]
  BY Zenon DEF UploadOpen, MayUpload
<1>2. (FlashBusy' <=> FlashBusy) /\ (Working' <=> Working) /\ (Flashed' <=> Flashed)
  BY <1>1, Zenon DEF FlashBusy, Working, Flashed
<1>3. TypeOK'
  <2>1. uploads' \in 0 .. MaxUploads
    BY <1>1, RecoveryAssumption DEF RecoveryInv, TypeOK
  <2>2. session' \in [Sessions -> [kind : Kinds \cup {NoKind}, upload : 0 .. MaxUploads]]
    BY <1>1, <2>1, Zenon DEF RecoveryInv, TypeOK
  <2>3. file' \in [Kinds -> [upload : 0 .. MaxUploads, length : 0 .. Capacity]]
    BY <1>1, <2>1, RecoveryAssumption DEF UploadOpen, RecoveryInv, TypeOK, NoFile
  <2>4. QED BY <1>1, <2>1, <2>2, <2>3 DEF RecoveryInv, TypeOK
<1>4. ThreadsInv'
  BY <1>1, <1>2, Zenon DEF RecoveryInv, ThreadsInv, me
<1>5. job \in Kinds /\ session \in [Sessions -> [kind : Kinds \cup {NoKind}, upload : 0 .. MaxUploads]]
  BY Zenon DEF RecoveryInv, TypeOK
<1>6. Working => file'[job] = file[job] /\ \A o \in Sessions : session'[o].kind # job
  <2>1. Working => IsOpen(job) /\ \A o \in Sessions : session[o].kind # job
    BY Zenon DEF RecoveryInv, ImagesInv, WritesOneUpload, IsOpen
  <2>2. QED BY <1>1, <1>5, <2>1, Zenon
<1>7. ImagesInv'
  <2>1. \A y \in Kinds : file'[y].length <= Length(y)
    <3>1. SUFFICES ASSUME NEW y \in Kinds PROVE file'[y].length <= Length(y)
      BY Zenon
    <3>2. file[y].length <= Length(y) /\ 0 <= Length(y)
      BY Layout DEF RecoveryInv, ImagesInv
    <3>3. file'[y] = file[y] \/ file'[y].length = 0
      BY <1>1 DEF NoFile
    <3>4. QED BY <3>2, <3>3, Zenon
  <2>2. WritesOneUpload'
    BY <1>1, <1>2, <1>6, Zenon DEF RecoveryInv, ImagesInv, WritesOneUpload
  <2>3. QED BY <1>1, <1>2, <1>6, <2>1, <2>2, Zenon DEF RecoveryInv, ImagesInv, Working
<1>8. CalmInv'
  <2>1. SUFFICES ASSUME "hurry" \notin faults' PROVE CalmInv'
    BY Zenon DEF CalmInv
  <2>2. faults' = faults /\ "hurry" \notin faults /\ ~FlashBusy
        /\ \A o \in Sessions : session[o].kind = NoKind
    BY <1>1, <2>1, Patient, Zenon
  <2>3. \A o \in Sessions : o # s => session'[o].kind = NoKind
    BY <1>1, <1>5, <2>2, Zenon
  <2>4. session'[s].kind \in {NoKind, x}
    BY <1>1, <1>5, <2>2, Zenon
  <2>5. QED BY <1>1, <1>2, <2>2, <2>3, <2>4, Zenon DEF RecoveryInv, CalmInv, Uploading
<1>9. QED BY <1>3, <1>4, <1>7, <1>8, Zenon DEF RecoveryInv

LEMMA UploadWriteInv ==
    ASSUME RecoveryInv, NEW s \in Sessions, UploadWrite(s)
    PROVE  RecoveryInv'
<1> DEFINE x == session[s].kind
<1>1. /\ UNCHANGED <<k, e, pc, file_type, session, status, job, got, pos, flash, uploads, closed, faults>>
      /\ x # NoKind /\ x \in Kinds /\ pc[Web] = "run" /\ file[x].length < Length(x)
      /\ file' = [file EXCEPT ![x] = [file[x] EXCEPT !.length = file[x].length + 1]]
  BY DEF UploadWrite, Uploading, RecoveryInv, TypeOK
<1>2. (FlashBusy' <=> FlashBusy) /\ (Working' <=> Working) /\ (Flashed' <=> Flashed)
      /\ \A o \in Sessions : Uploading(o)' <=> Uploading(o)
  BY <1>1, Zenon DEF FlashBusy, Working, Flashed, Uploading
<1>3. Uploading(s)
  BY <1>1, Zenon DEF Uploading
<1>4. Working => x # job
  BY Zenon DEF RecoveryInv, ImagesInv, WritesOneUpload
<1>5. file \in [Kinds -> [upload : 0 .. MaxUploads, length : 0 .. Capacity]] /\ job \in Kinds
  BY Zenon DEF RecoveryInv, TypeOK
<1> HIDE DEF x
<1>6. /\ \A y \in Kinds : y # x => file'[y] = file[y]
      /\ file'[x].length = file[x].length + 1 /\ file'[x].upload = file[x].upload
      /\ file'[x] \in [upload : 0 .. MaxUploads, length : 0 .. Capacity]
  <2>1. file[x].length + 1 \in 0 .. Capacity
    BY <1>1, <1>5, Layout, RecoveryAssumption
  <2>2. QED BY <1>1, <1>5, <2>1, Zenon
<1>7. TypeOK'
  <2>1. file' \in [Kinds -> [upload : 0 .. MaxUploads, length : 0 .. Capacity]]
    BY <1>1, <1>5, <1>6, Zenon
  <2>2. QED BY <1>1, <2>1 DEF RecoveryInv, TypeOK
<1>8. ThreadsInv'
  BY <1>1, <1>2, Zenon DEF RecoveryInv, ThreadsInv, me
<1>9. ImagesInv'
  <2>1. \A y \in Kinds : file'[y].length <= Length(y)
    <3>1. file'[x].length <= Length(x)
      BY <1>1, <1>5, <1>6, Layout
    <3>2. QED BY <1>6, <3>1, Zenon DEF RecoveryInv, ImagesInv
  <2>2. Working => file'[job] = file[job]
    BY <1>4, <1>5, <1>6, Zenon
  <2>3. QED BY <1>1, <1>2, <2>1, <2>2, Zenon DEF RecoveryInv, ImagesInv, WritesOneUpload, Working
<1>10. CalmInv'
  BY <1>1, <1>2, <1>3, Zenon DEF RecoveryInv, CalmInv
<1>11. QED BY <1>7, <1>8, <1>9, <1>10, Zenon DEF RecoveryInv

LEMMA UploadCloseInv ==
    ASSUME RecoveryInv, NEW s \in Sessions, UploadClose(s)
    PROVE  RecoveryInv'
<1> DEFINE x == session[s].kind
<1>1. /\ UNCHANGED <<k, e, file, file_type, job, got, pos, flash, uploads, faults>>
      /\ Uploading(s) /\ x \in Kinds /\ me = Web /\ pc[Web] = "run"
      /\ status' = IF file_type = NoKind THEN 404 ELSE StatusReset
      /\ session' = [session EXCEPT ![s] = [kind |-> NoKind, upload |-> 0]]
      /\ closed' = [kind |-> x, upload |-> file[x].upload, length |-> file[x].length]
      /\ pc' = [pc EXCEPT ![Web] = IF file_type = NoKind THEN "run" ELSE "notify"]
  BY DEF UploadClose, Uploading, RecoveryInv, TypeOK
<1>2. /\ session \in [Sessions -> [kind : Kinds \cup {NoKind}, upload : 0 .. MaxUploads]]
      /\ file \in [Kinds -> [upload : 0 .. MaxUploads, length : 0 .. Capacity]]
      /\ pc \in [Threads -> WebLabels \cup FlashLabels] /\ job \in Kinds
      /\ status \in -1 .. 100 \cup {404}
  BY Zenon DEF RecoveryInv, TypeOK
<1>3. Flash \in Threads /\ Web \in Threads /\ Flash # Web /\ NoKind \notin Kinds
  BY Facts, Zenon
<1>4. /\ pc' \in [Threads -> WebLabels \cup FlashLabels] /\ pc'[Flash] = pc[Flash]
      /\ pc'[Web] = (IF file_type = NoKind THEN "run" ELSE "notify")
  BY <1>1, <1>2, <1>3 DEF WebLabels
<1>5. status' \in -1 .. 100 \cup {404} /\ status' # 100
  BY <1>1, <1>2 DEF StatusReset
<1>6. /\ session' \in [Sessions -> [kind : Kinds \cup {NoKind}, upload : 0 .. MaxUploads]]
      /\ session'[s].kind = NoKind /\ \A o \in Sessions : o # s => session'[o] = session[o]
  BY <1>1, <1>2, RecoveryAssumption
<1> HIDE DEF x
<1>7. /\ closed' \in [kind : Kinds \cup {NoKind}, upload : 0 .. MaxUploads, length : 0 .. Capacity]
      /\ closed'.kind = x /\ closed'.upload = file[x].upload /\ closed'.length = file[x].length
  BY <1>1, <1>2
<1>8. (FlashBusy' <=> FlashBusy) /\ (Working' <=> Working)
  BY <1>1, <1>4, Zenon DEF FlashBusy, Working
<1>9. TypeOK'
  BY <1>1, <1>4, <1>5, <1>6, <1>7 DEF RecoveryInv, TypeOK, WebLabels
<1>10. ThreadsInv'
  <2>1. k.stat[me] = "RUNNING"
    BY <1>1, Facts, Zenon DEF AboutToSchedule
  <2>2. QED BY <1>1, <1>4, <1>8, <2>1, Zenon DEF RecoveryInv, ThreadsInv, me
<1>11. ImagesInv'
  <2>1. \A o \in Sessions : session'[o].kind \in {NoKind, session[o].kind}
    BY <1>6, Zenon
  <2>2. QED BY <1>1, <1>2, <1>3, <1>4, <1>8, <2>1 DEF RecoveryInv, ImagesInv, WritesOneUpload
<1>12. CalmInv'
  <2>1. SUFFICES ASSUME "hurry" \notin faults PROVE CalmInv'
    BY <1>1, Zenon DEF CalmInv
  <2>2. ~FlashBusy /\ file_type = x /\ e.set = {}
    BY <1>1, <2>1, Zenon DEF RecoveryInv, CalmInv, x
  <2>3. \A o \in Sessions : ~Uploading(o)'
    BY <1>1, <1>6, <2>1, Zenon DEF RecoveryInv, CalmInv, Uploading
  <2>4. ClosedInFile'
    <3>1. file[x] = [upload |-> file[x].upload, length |-> file[x].length]
      BY <1>1, <1>2 DEF x
    <3>2. x # NoKind
      BY <1>1, <1>3, Zenon DEF x
    <3>3. QED BY <1>1, <1>7, <3>1, <3>2, Zenon DEF ClosedInFile
  <2>5. QED BY <1>1, <1>4, <1>5, <1>7, <1>8, <2>2, <2>3, <2>4 DEF CalmInv
<1>13. QED BY <1>9, <1>10, <1>11, <1>12, Zenon DEF RecoveryInv

\* The notification wakes the flash thread, or is kept for it.
LEMMA NotifyInv ==
    ASSUME RecoveryInv, Notify
    PROVE  RecoveryInv'
<1> DEFINE x == rt_event_send(k, e, {file_type})
<1>1. /\ UNCHANGED <<file, file_type, session, status, job, got, pos, flash, uploads, closed, faults>>
      /\ me = Web /\ pc[Web] = "notify" /\ k' = x.k /\ e' = x.e
      /\ pc' \in {[pc EXCEPT ![Web] = "run"], [pc EXCEPT ![Web] = "sched"]}
  BY Zenon DEF Notify
<1>2. /\ KernelOK(k, {}) /\ k.lock_nest = 0 /\ EventList \in Lists /\ k.current = Web
      /\ Flash \in Threads /\ Web \in Threads /\ Flash # Web /\ k.stat[Web] = "RUNNING"
      /\ On(k, EventList) \subseteq {Flash}
      /\ Flash \in On(k, EventList) => e.want[Flash] = Bits /\ e.info[Flash] = {"OR", "CLEAR"}
  <2>1. Bits = Kinds
    BY RecoveryAssumption, Zenon
  <2>2. k.stat[me] = "RUNNING"
    BY <1>1, Facts, Zenon DEF AboutToSchedule
  <2>3. QED BY <1>1, <2>1, <2>2, Facts, Zenon DEF RecoveryInv, ThreadsInv, FlashBusy, me
<1>3. e \in EventStates /\ {file_type} \in SUBSET Bits /\ {file_type} # {} /\ file_type \in Kinds
  BY <1>1, RecoveryAssumption DEF RecoveryInv, TypeOK, ThreadsInv
<1>4. Sent(x, k, e, {file_type}, Flash)
  BY <1>2, <1>3, SendEffect, Zenon
<1> HIDE DEF x
<1>5. /\ pc \in [Threads -> WebLabels \cup FlashLabels]
      /\ pc' \in [Threads -> WebLabels \cup FlashLabels] /\ pc'[Flash] = pc[Flash]
      /\ pc'[Web] \in {"run", "sched"}
  <2>1. pc \in [Threads -> WebLabels \cup FlashLabels]
    BY Zenon DEF RecoveryInv, TypeOK
  <2>2. PICK l \in {"run", "sched"} : pc' = [pc EXCEPT ![Web] = l]
    BY <1>1, Zenon
  <2>3. l \in WebLabels
    BY Zenon DEF WebLabels
  <2>4. QED BY <1>2, <2>1, <2>2, <2>3, Zenon
<1>6. Working' <=> Working
  BY <1>5, Zenon DEF Working
<1>7. /\ KernelOK(k', {}) /\ k'.lock_nest = 0 /\ k'.current = Web /\ k'.stat[Web] = "RUNNING"
      /\ On(k', EventList) = {}
      /\ IF FlashBusy
         THEN e' = [e EXCEPT !.set = e.set \cup {file_type}]
         ELSE e' = [e EXCEPT !.want[Flash] = e.set \cup {file_type}, !.set = {}]
  <2>1. CASE FlashBusy
    BY <1>1, <1>2, <1>4, <2>1, Facts, Zenon DEF Sent, FlashBusy
  <2>2. CASE ~FlashBusy
    <3>1. k' = rt_ipc_list_resume(k, EventList)
          /\ e' = [e EXCEPT !.want[Flash] = e.set \cup {file_type}, !.set = {}]
      BY <1>1, <1>4, <2>2, Zenon DEF Sent, FlashBusy
    <3>2. Head(k.wait[EventList]) = Flash /\ k.wait[EventList] # <<>>
      <4>1. Flash \in On(k, EventList)
        BY <2>2, Zenon DEF FlashBusy
      <4>2. Len(k.wait[EventList]) = 1 /\ Head(k.wait[EventList]) = Flash
        BY <1>2, <4>1, OneOnList, Zenon
      <4>3. QED BY <4>2
    <3>3. /\ KernelOK(k', {}) /\ k'.current = k.current /\ k'.lock_nest = k.lock_nest
          /\ \A y \in Threads \ {Flash} : k'.stat[y] = k.stat[y]
          /\ \A m \in Lists : On(k', m) = On(k, m) \ {Flash}
      BY <1>2, <3>1, <3>2, ResumeHeadEffect
    <3>4. QED BY <1>2, <2>2, <3>1, <3>3, Zenon
  <2>3. QED BY <2>1, <2>2, Zenon
<1>8. /\ e' \in EventStates /\ e'.info = e.info
      /\ FlashBusy => e'.want = e.want /\ e'.set = e.set \cup {file_type}
      /\ ~FlashBusy => e'.want[Flash] = e.set \cup {file_type} /\ e'.set = {}
  <2>1. CASE FlashBusy
    BY <1>3, <1>7, <2>1 DEF EventStates
  <2>2. CASE ~FlashBusy
    <3> DEFINE g == e.set \cup {file_type}
               w == [e.want EXCEPT ![Flash] = g]
    <3>1. e' = [e EXCEPT !.want = w, !.set = {}] /\ w[Flash] = g
      BY <1>2, <1>3, <1>7, <2>2, Zenon DEF EventStates
    <3>2. w \in [Threads -> SUBSET Bits]
      BY <1>3, Zenon DEF EventStates
    <3> HIDE DEF w, g
    <3>3. QED BY <1>3, <2>2, <3>1, <3>2, Zenon DEF EventStates, g
  <2>3. QED BY <2>1, <2>2, Zenon
<1>9. FlashBusy'
  BY <1>7, Zenon DEF FlashBusy
<1>10. TypeOK'
  BY <1>1, <1>5, <1>7, <1>8 DEF RecoveryInv, TypeOK, WebLabels, KernelOK, Shape
<1>11. ThreadsInv'
  BY <1>1, <1>5, <1>7, <1>8, <1>9, Zenon DEF RecoveryInv, ThreadsInv, me
<1>12. ImagesInv'
  BY <1>1, <1>5, <1>6, Zenon DEF RecoveryInv, ImagesInv, WritesOneUpload
<1>13. CalmInv'
  <2>1. SUFFICES ASSUME "hurry" \notin faults PROVE CalmInv'
    BY <1>1, Zenon DEF CalmInv
  <2>2. /\ ~FlashBusy /\ ClosedInFile /\ closed.kind = file_type /\ e.set = {}
        /\ \A o \in Sessions : ~Uploading(o)
        /\ status = 100 /\ "write" \notin faults => Flashed
    BY <1>1, <2>1, Zenon DEF RecoveryInv, CalmInv
  <2>3. (ClosedInFile' <=> ClosedInFile) /\ (Flashed' <=> Flashed)
        /\ \A o \in Sessions : Uploading(o)' <=> Uploading(o)
    BY <1>1, Zenon DEF ClosedInFile, Flashed, Uploading
  <2>4. pc[Flash] \in {"recv", "back"}
    BY <2>2, Zenon DEF RecoveryInv, ThreadsInv
  <2>5. ~Working' /\ pc'[Flash] # "open" /\ e'.set = {} /\ e'.want[Flash] = {closed.kind}
    BY <1>5, <1>8, <2>2, <2>4, Zenon DEF Working
  <2>6. QED BY <1>1, <1>5, <2>2, <2>3, <2>5, Zenon DEF CalmInv
<1>14. QED BY <1>10, <1>11, <1>12, <1>13, Zenon DEF RecoveryInv

(***************************************************************************)
(* The flash thread.                                                       *)
(***************************************************************************)
LEMMA ChosenOne ==
    ASSUME NEW s \in SUBSET Kinds, s # {}
    PROVE  Chosen(s) \in s /\ Chosen(s) \in Kinds
<1>1. CASE "FIRMWARE" \in s
  BY <1>1, Zenon DEF Chosen, Kinds
<1>2. CASE "FIRMWARE" \notin s /\ "UBOOT" \in s
  BY <1>2, Zenon DEF Chosen, Kinds
<1>3. CASE s \cap {"FIRMWARE", "UBOOT"} = {} /\ "ART" \in s
  BY <1>3, Zenon DEF Chosen, Kinds
<1>4. CASE s \cap {"FIRMWARE", "UBOOT", "ART"} = {}
  <2>1. s = {"FULL"}
    BY <1>4, Zenon DEF Kinds
  <2>2. QED BY <2>1, Zenon DEF Chosen, Kinds
<1>5. QED BY <1>1, <1>2, <1>3, <1>4, Zenon

\* A step of the flash thread that ends neither in waiting nor in a sleep.
LEMMA FlashGoesOn ==
    ASSUME RecoveryInv, UNCHANGED <<k, file_type>>, me = Flash, pc[Flash] \notin AboutToSchedule,
           e'.want = e.want, NEW l \in {"loop", "open", "erase", "write"},
           pc' = [pc EXCEPT ![Flash] = l]
    PROVE  /\ ThreadsInv' /\ FlashBusy /\ FlashBusy'
           /\ pc' \in [Threads -> WebLabels \cup FlashLabels]
           /\ pc'[Web] = pc[Web] /\ pc'[Flash] = l /\ l \in FlashLabels
<1>1. Flash \in Threads /\ Web \in Threads /\ Flash # Web /\ k.stat[me] = "RUNNING" /\ FlashBusy
  BY Facts, Zenon
<1>2. pc \in [Threads -> WebLabels \cup FlashLabels] /\ l \in FlashLabels
  BY Zenon DEF RecoveryInv, TypeOK, FlashLabels
<1>3. pc' \in [Threads -> WebLabels \cup FlashLabels] /\ pc'[Web] = pc[Web] /\ pc'[Flash] = l
  BY <1>1, <1>2, Zenon
<1>4. FlashBusy'
  BY <1>1, Zenon DEF FlashBusy
<1>5. ThreadsInv'
  BY <1>1, <1>3, <1>4, Zenon DEF RecoveryInv, ThreadsInv, me
<1>6. QED BY <1>1, <1>2, <1>3, <1>4, <1>5, Zenon

LEMMA ReceiveBackInv ==
    ASSUME RecoveryInv, ReceiveBack
    PROVE  RecoveryInv'
<1>1. /\ UNCHANGED <<k, e, file, file_type, session, got, pos, flash, uploads, closed, faults>>
      /\ me = Flash /\ pc[Flash] = "back" /\ pc' = [pc EXCEPT ![Flash] = "open"]
      /\ job' = Chosen(e.want[Flash]) /\ status' = 0
  BY Zenon DEF ReceiveBack
<1>2. /\ ThreadsInv' /\ FlashBusy /\ FlashBusy'
      /\ pc' \in [Threads -> WebLabels \cup FlashLabels]
      /\ pc'[Web] = pc[Web] /\ pc'[Flash] = "open" /\ "open" \in FlashLabels
  BY <1>1, FlashGoesOn, Zenon DEF AboutToSchedule
<1>3. job' \in e.want[Flash] /\ job' \in Kinds
  <2>1. e \in EventStates /\ e.want[Flash] # {} /\ Flash \in Threads /\ Bits = Kinds
    BY <1>1, RecoveryAssumption, Zenon DEF RecoveryInv, TypeOK, ThreadsInv
  <2>2. e.want[Flash] \in SUBSET Kinds
    BY <2>1, Zenon DEF EventStates
  <2>3. QED BY <1>1, <2>1, <2>2, ChosenOne, Zenon
<1>4. TypeOK'
  BY <1>1, <1>2, <1>3 DEF RecoveryInv, TypeOK
<1>5. ImagesInv'
  BY <1>1, <1>2, Zenon DEF RecoveryInv, ImagesInv, WritesOneUpload, Working
<1>6. CalmInv'
  <2>1. (ClosedInFile' <=> ClosedInFile) /\ \A o \in Sessions : Uploading(o)' <=> Uploading(o)
    BY <1>1, Zenon DEF ClosedInFile, Uploading
  <2>2. QED BY <1>1, <1>2, <1>3, <2>1 DEF RecoveryInv, CalmInv
<1>7. QED BY <1>2, <1>4, <1>5, <1>6, Zenon DEF RecoveryInv

LEMMA ReceiveInv ==
    ASSUME RecoveryInv, Receive
    PROVE  RecoveryInv'
<1>1. /\ UNCHANGED <<file, file_type, session, got, pos, flash, uploads, closed, faults>>
      /\ me = Flash /\ pc[Flash] = "loop"
  BY Zenon DEF Receive
<1>2. /\ Flash \in Threads /\ Web \in Threads /\ Flash # Web /\ EventList \in Lists
      /\ KernelOK(k, {}) /\ k.lock_nest = 0
      /\ k.current = Flash /\ k.stat[k.current] = "RUNNING" /\ k.current # Idle
      /\ FlashBusy /\ On(k, EventList) = {} /\ ~Working
  BY <1>1, Facts, Zenon DEF me, AboutToSchedule, Working
<1>3. e \in EventStates /\ Bits = Kinds
  BY RecoveryAssumption, Zenon DEF RecoveryInv, TypeOK
<1>4. CASE e.set # {}
  <2>1. /\ UNCHANGED k /\ pc' = [pc EXCEPT ![Flash] = "open"] /\ status' = 0
        /\ job' = Chosen(e.set) /\ e' = [e EXCEPT !.set = e.set \ Kinds]
    BY <1>4, Zenon DEF Receive, Received
  <2>2. e' \in EventStates /\ e'.want = e.want
    BY <1>3, <2>1, Zenon DEF EventStates
  <2>3. /\ ThreadsInv' /\ FlashBusy'
        /\ pc' \in [Threads -> WebLabels \cup FlashLabels]
        /\ pc'[Web] = pc[Web] /\ pc'[Flash] = "open" /\ "open" \in FlashLabels
    BY <1>1, <2>1, <2>2, FlashGoesOn, Zenon DEF AboutToSchedule
  <2>4. job' \in Kinds
    BY <1>3, <1>4, <2>1, ChosenOne, Zenon DEF EventStates
  <2>5. TypeOK'
    BY <1>1, <2>1, <2>2, <2>3, <2>4 DEF RecoveryInv, TypeOK
  <2>6. ImagesInv'
    BY <1>1, <2>3, Zenon DEF RecoveryInv, ImagesInv, WritesOneUpload, Working
  <2>7. CalmInv'
    BY <1>1, <1>4, Zenon DEF RecoveryInv, CalmInv
  <2>8. QED BY <2>3, <2>5, <2>6, <2>7, Zenon DEF RecoveryInv
<1>5. CASE e.set = {}
  <2>1. /\ k' = WaitKernel(k, Flash, FALSE, "FIFO") /\ UNCHANGED <<job, status>>
        /\ e' = [e EXCEPT !.want[Flash] = Kinds, !.info[Flash] = {"OR", "CLEAR"}]
        /\ pc' = [pc EXCEPT ![Flash] = "recv"]
    BY <1>5, Zenon DEF Receive, WaitEvent
  <2>2. k' = Waiting(k, EventList, "FIFO", FALSE)
    BY <1>2, <2>1, Zenon DEF WaitKernel, Waiting
  <2>3. KernelOK(k', {}) /\ Joined(k', k, EventList, FALSE)
    BY <1>2, <2>2, WaitEffect, Zenon
  <2>4. /\ k'.current = Flash /\ k'.lock_nest = 0 /\ Flash \notin k'.timer
        /\ On(k', EventList) = {Flash}
    BY <1>2, <2>3, Zenon DEF Joined
  <2>5. /\ e' \in EventStates /\ e'.set = e.set
        /\ e'.want[Flash] = Kinds /\ e'.info[Flash] = {"OR", "CLEAR"}
    <3> DEFINE w == [e.want EXCEPT ![Flash] = Kinds]
               i == [e.info EXCEPT ![Flash] = {"OR", "CLEAR"}]
    <3>1. e' = [e EXCEPT !.want = w, !.info = i]
      BY <2>1, Zenon
    <3>2. /\ w \in [Threads -> SUBSET Bits] /\ w[Flash] = Kinds
          /\ i \in [Threads -> Options] /\ i[Flash] = {"OR", "CLEAR"}
      BY <1>2, <1>3, Zenon DEF EventStates, Options
    <3> HIDE DEF w, i
    <3>3. QED BY <1>3, <3>1, <3>2, Zenon DEF EventStates
  <2>6. /\ pc' \in [Threads -> WebLabels \cup FlashLabels]
        /\ pc'[Web] = pc[Web] /\ pc'[Flash] = "recv" /\ "recv" \in FlashLabels
    BY <1>2, <2>1 DEF RecoveryInv, TypeOK, FlashLabels
  <2>7. ~FlashBusy'
    BY <2>4, Zenon DEF FlashBusy
  <2>8. TypeOK'
    BY <1>1, <2>1, <2>3, <2>5, <2>6 DEF RecoveryInv, TypeOK, KernelOK, Shape
  <2>9. ThreadsInv'
    <3>1. e'.want[Flash] # {}
      BY <2>5, Zenon DEF Kinds
    <3>2. pc'[k'.current] \in AboutToSchedule
      BY <2>4, <2>6, Zenon DEF AboutToSchedule
    <3>3. QED BY <1>1, <2>3, <2>4, <2>5, <2>6, <2>7, <3>1, <3>2, Zenon DEF RecoveryInv, ThreadsInv, me
  <2>10. ImagesInv'
    BY <1>1, <2>6, Zenon DEF RecoveryInv, ImagesInv, WritesOneUpload, Working
  <2>11. CalmInv'
    <3>1. (Flashed' <=> Flashed) /\ \A o \in Sessions : Uploading(o)' <=> Uploading(o)
      BY <1>1, Zenon DEF Flashed, Uploading
    <3>2. QED BY <1>1, <1>2, <1>5, <2>1, <2>5, <2>6, <2>7, <3>1, Zenon DEF RecoveryInv, CalmInv
  <2>12. QED BY <2>8, <2>9, <2>10, <2>11, Zenon DEF RecoveryInv
<1>6. QED BY <1>4, <1>5, Zenon

LEMMA OpenInv ==
    ASSUME RecoveryInv, Open
    PROVE  RecoveryInv'
<1>1. /\ UNCHANGED <<k, e, file, file_type, session, job, flash, uploads, closed>>
      /\ me = Flash /\ pc[Flash] = "open"
  BY Zenon DEF Open
<1>2. (ClosedInFile' <=> ClosedInFile) /\ (Flashed' <=> Flashed)
      /\ \A o \in Sessions : Uploading(o)' <=> Uploading(o)
  BY <1>1, Zenon DEF ClosedInFile, Flashed, Uploading
<1>3. ASSUME pc' = [pc EXCEPT ![Flash] = "loop"], UNCHANGED <<got, pos>>,
             \/ status' = status /\ faults' = faults \cup {"malloc"}
             \/ status' = -1 /\ faults' = faults
      PROVE  RecoveryInv'
  <2>1. /\ ThreadsInv' /\ FlashBusy /\ FlashBusy'
        /\ pc' \in [Threads -> WebLabels \cup FlashLabels]
        /\ pc'[Web] = pc[Web] /\ pc'[Flash] = "loop" /\ "loop" \in FlashLabels
    BY <1>1, <1>3, FlashGoesOn, Zenon DEF AboutToSchedule
  <2>2. TypeOK'
    <3>1. status' \in -1 .. 100 \cup {404} /\ faults' \subseteq {"write", "malloc", "hurry"}
      <4>1. status \in -1 .. 100 \cup {404} /\ faults \subseteq {"write", "malloc", "hurry"}
        BY Zenon DEF RecoveryInv, TypeOK
      <4>2. status' = status \/ status' = -1
        BY <1>3, Zenon
      <4>3. status' \in -1 .. 100 \cup {404}
        BY <4>1, <4>2
      <4>4. faults' \subseteq {"write", "malloc", "hurry"}
        BY <1>3, <4>1
      <4>5. QED BY <4>3, <4>4
    <3>2. QED BY <1>1, <1>3, <2>1, <3>1 DEF RecoveryInv, TypeOK
  <2>3. ImagesInv'
    BY <1>1, <2>1, Zenon DEF RecoveryInv, ImagesInv, WritesOneUpload, Working
  <2>4. CalmInv'
    BY <1>1, <1>2, <1>3, <2>1 DEF RecoveryInv, CalmInv, Working
  <2>5. QED BY <2>1, <2>2, <2>3, <2>4, Zenon DEF RecoveryInv
<1>4. ASSUME file[job] # NoFile, ~IsOpen(job), got' = file[job].upload, pos' = 0,
             pc' = [pc EXCEPT ![Flash] = "erase"], UNCHANGED <<status, faults>>
      PROVE  RecoveryInv'
  <2>1. /\ ThreadsInv' /\ FlashBusy /\ FlashBusy'
        /\ pc' \in [Threads -> WebLabels \cup FlashLabels]
        /\ pc'[Web] = pc[Web] /\ pc'[Flash] = "erase" /\ "erase" \in FlashLabels
    BY <1>1, <1>4, FlashGoesOn, Zenon DEF AboutToSchedule
  <2>2. job \in Kinds /\ Length(job) \in Nat \ {0}
    BY Layout, Zenon DEF RecoveryInv, TypeOK
  <2>3. TypeOK'
    <3>1. job \in Kinds /\ file \in [Kinds -> [upload : 0 .. MaxUploads, length : 0 .. Capacity]]
      BY Zenon DEF RecoveryInv, TypeOK
    <3>2. got' \in 0 .. MaxUploads
      BY <1>4, <3>1
    <3>3. pos' \in 0 .. Capacity
      BY <1>4, RecoveryAssumption
    <3>4. /\ k' = k /\ e' = e /\ file' = file /\ file_type' = file_type /\ session' = session
          /\ job' = job /\ flash' = flash /\ uploads' = uploads /\ closed' = closed
          /\ status' = status /\ faults' = faults
      BY <1>1, <1>4
    <3>5. pc'[Web] \in WebLabels /\ pc'[Flash] \in FlashLabels
      <4>1. pc[Web] \in WebLabels
        BY Zenon DEF RecoveryInv, TypeOK
      <4>2. QED BY <2>1, <4>1
    <3>6. QED BY <2>1, <3>2, <3>3, <3>4, <3>5, Zenon DEF RecoveryInv, TypeOK
  <2>4. ImagesInv'
    <3>1. \A s \in Sessions : session[s].kind # job
      BY <1>4, Zenon DEF IsOpen
    <3>2. QED BY <1>1, <1>4, <2>1, <2>2, <3>1 DEF RecoveryInv, ImagesInv, WritesOneUpload, Working
  <2>5. CalmInv'
    BY <1>1, <1>2, <1>4, <2>1, Zenon DEF RecoveryInv, CalmInv, Working
  <2>6. QED BY <2>1, <2>3, <2>4, <2>5, Zenon DEF RecoveryInv
<1>5. QED BY <1>3, <1>4, Zenon DEF Open

\* The block at pos is erased; after the last one writing begins.
LEMMA EraseInv ==
    ASSUME RecoveryInv, Erase
    PROVE  RecoveryInv' /\ flash' = [flash EXCEPT ![Start(job) + pos] = Erased]
           /\ pos \in 0 .. Length(job) - 1 /\ job \in Kinds
<1> DEFINE more == pos + 1 < Length(job)
           l == IF more THEN "erase" ELSE "write"
<1>1. /\ UNCHANGED <<k, e, file, file_type, session, job, got, uploads, closed, faults>>
      /\ me = Flash /\ pc[Flash] = "erase"
      /\ flash' = [flash EXCEPT ![Start(job) + pos] = Erased]
      /\ status' = Percent(pos) \div 2
      /\ pos' = IF more THEN pos + 1 ELSE 0
      /\ pc' = [pc EXCEPT ![Flash] = l]
  BY Zenon DEF Erase, EraseRound
<1>2. /\ job \in Kinds /\ pos \in Nat /\ pos < Length(job) /\ pos <= Length(job)
      /\ Start(job) \in Nat /\ Length(job) \in Nat \ {0} /\ Start(job) + Length(job) <= Capacity
      /\ Capacity \in Nat
  <2>1. job \in Kinds /\ pos \in 0 .. Capacity /\ Capacity \in Nat
    BY RecoveryAssumption, Zenon DEF RecoveryInv, TypeOK
  <2>2. pos < Length(job)
    BY <1>1, Zenon DEF RecoveryInv, ImagesInv
  <2>3. QED BY <2>1, <2>2, Layout
<1>3. /\ \A i \in 0 .. pos - 1 : flash[Start(job) + i] = Erased
      /\ flash \in [0 .. Capacity - 1 -> (0 .. MaxUploads) \X (0 .. Capacity)]
      /\ Working
  BY <1>1, Zenon DEF RecoveryInv, TypeOK, ImagesInv, Working
<1>4. status' \in 0 .. 49
  <2>1. Percent(pos) \in 0 .. 100 /\ Percent(pos) < 100
    BY <1>2, Progress, Zenon
  <2>2. QED BY <1>1, <2>1
<1>5. /\ ThreadsInv' /\ FlashBusy /\ FlashBusy'
      /\ pc' \in [Threads -> WebLabels \cup FlashLabels]
      /\ pc'[Web] = pc[Web] /\ pc'[Flash] = l /\ l \in FlashLabels
  BY <1>1, FlashGoesOn, Zenon DEF AboutToSchedule
<1>6. /\ flash' \in [0 .. Capacity - 1 -> (0 .. MaxUploads) \X (0 .. Capacity)]
      /\ \A i \in 0 .. Length(job) - 1 : i <= pos => flash'[Start(job) + i] = Erased
  <2>1. Erased \in (0 .. MaxUploads) \X (0 .. Capacity)
    BY RecoveryAssumption DEF Erased
  <2>2. flash' \in [0 .. Capacity - 1 -> (0 .. MaxUploads) \X (0 .. Capacity)]
    BY <1>1, <1>3, <2>1, Zenon
  <2>3. ASSUME NEW i \in 0 .. Length(job) - 1, i <= pos PROVE flash'[Start(job) + i] = Erased
    <3>1. Start(job) + i \in 0 .. Capacity - 1
      BY <1>2
    <3>2. CASE i = pos
      BY <1>1, <1>3, <3>1, <3>2, Zenon
    <3>3. CASE i # pos
      <4>1. i \in 0 .. pos - 1 /\ Start(job) + i # Start(job) + pos
        BY <1>2, <2>3, <3>3
      <4>2. QED BY <1>1, <1>3, <3>1, <4>1, Zenon
    <3>4. QED BY <3>2, <3>3, Zenon
  <2>4. QED BY <2>2, <2>3, Zenon
<1>7. TypeOK'
  <2>1. pos' \in 0 .. Capacity
    BY <1>1, <1>2
  <2>2. status' \in -1 .. 100 \cup {404}
    BY <1>4
  <2>3. pc'[Web] \in WebLabels /\ pc'[Flash] \in FlashLabels
    BY <1>5 DEF RecoveryInv, TypeOK
  <2>4. flash' \in [0 .. Capacity - 1 -> (0 .. MaxUploads) \X (0 .. Capacity)]
        /\ pc' \in [Threads -> WebLabels \cup FlashLabels]
    BY <1>5, <1>6, Zenon
  <2>5. QED BY <1>1, <2>1, <2>2, <2>3, <2>4 DEF RecoveryInv, TypeOK
<1>8. Working'
  BY <1>5, Zenon DEF Working
<1>9. ImagesInv'
  <2>1. /\ file'[job'].upload = got' /\ \A s \in Sessions : session'[s].kind # job'
        /\ \A x \in Kinds : file'[x].length <= Length(x)
    BY <1>1, <1>3, Zenon DEF RecoveryInv, ImagesInv, WritesOneUpload
  <2>2. CASE more
    <3>1. \A i \in 0 .. pos' - 1 : flash'[Start(job) + i] = Erased
      <4>1. SUFFICES ASSUME NEW i \in 0 .. pos' - 1 PROVE flash'[Start(job) + i] = Erased
        BY Zenon
      <4>2. i \in 0 .. Length(job) - 1 /\ i <= pos
        BY <1>1, <1>2, <2>2
      <4>3. QED BY <1>6, <4>2, Zenon
    <3>2. pc'[Flash] = "erase" /\ pos' < Length(job)
      BY <1>1, <1>5, <2>2, Zenon
    <3>3. QED BY <1>1, <2>1, <3>1, <3>2, Zenon DEF ImagesInv, WritesOneUpload
  <2>3. CASE ~more
    <3>1. \A i \in 0 .. Length(job) - 1 : flash'[Start(job) + i] = Erased
      BY <1>2, <1>6, <2>3
    <3>2. pc'[Flash] = "write" /\ pos' = 0
      BY <1>1, <1>5, <2>3, Zenon
    <3>3. pos' <= file[job].length
      BY <1>2, <3>2 DEF RecoveryInv, TypeOK
    <3>4. WritesOneUpload'
      BY <1>1, <2>1, <3>1, <3>2 DEF WritesOneUpload
    <3>5. QED BY <1>1, <2>1, <3>2, <3>3, <3>4, Zenon DEF ImagesInv
  <2>4. QED BY <2>2, <2>3, Zenon
<1>10. CalmInv'
  <2>1. (ClosedInFile' <=> ClosedInFile) /\ \A o \in Sessions : Uploading(o)' <=> Uploading(o)
    BY <1>1, Zenon DEF ClosedInFile, Uploading
  <2>2. status' # 100
    BY <1>4
  <2>3. QED BY <1>1, <1>3, <1>5, <2>1, <2>2 DEF RecoveryInv, CalmInv
<1>11. QED BY <1>1, <1>2, <1>5, <1>7, <1>9, <1>10 DEF RecoveryInv

\* One block is written, or fails to be; after the last one the status is 100.
LEMMA WriteInv ==
    ASSUME RecoveryInv, Write
    PROVE  /\ RecoveryInv'
           /\ flash' = flash \/ \E v : /\ flash' = [flash EXCEPT ![Start(job) + pos] = v]
                                       /\ pos \in 0 .. Length(job) - 1 /\ job \in Kinds
<1>1. /\ UNCHANGED <<k, e, file, file_type, session, job, got, uploads, closed>>
      /\ me = Flash /\ pc[Flash] = "write" /\ Working
  BY Zenon DEF Write, WriteRound, Working
<1>2. /\ job \in Kinds /\ pos \in Nat /\ Capacity \in Nat /\ file[job].length \in Nat
      /\ pos <= file[job].length /\ file[job].length <= Length(job)
      /\ Start(job) \in Nat /\ Length(job) \in Nat \ {0} /\ Start(job) + Length(job) <= Capacity
  <2>1. job \in Kinds /\ pos \in 0 .. Capacity /\ Capacity \in Nat /\ file[job].length \in 0 .. Capacity
    BY RecoveryAssumption DEF RecoveryInv, TypeOK
  <2>2. pos <= file[job].length /\ file[job].length <= Length(job)
    BY <1>1, <2>1, Zenon DEF RecoveryInv, ImagesInv
  <2>3. QED BY <2>1, <2>2, Layout
<1>3. /\ file[job].upload = got /\ \A s \in Sessions : session[s].kind # job
      /\ \A i \in 0 .. Length(job) - 1 :
            IF i >= pos THEN flash[Start(job) + i] = Erased
            ELSE \/ flash[Start(job) + i] = <<got, i>>
                 \/ flash[Start(job) + i] = Erased /\ "write" \in faults
      /\ \A x \in Kinds : file[x].length <= Length(x)
  BY <1>1, Zenon DEF RecoveryInv, ImagesInv, WritesOneUpload
<1>4. /\ flash \in [0 .. Capacity - 1 -> (0 .. MaxUploads) \X (0 .. Capacity)]
      /\ got \in 0 .. MaxUploads
  BY Zenon DEF RecoveryInv, TypeOK
<1>5. (ClosedInFile' <=> ClosedInFile) /\ \A o \in Sessions : Uploading(o)' <=> Uploading(o)
  BY <1>1, Zenon DEF ClosedInFile, Uploading
<1>6. ASSUME "hurry" \notin faults
      PROVE  /\ closed.kind = job /\ closed.upload = got /\ closed.length = file[job].length
             /\ e.set = {} /\ ClosedInFile /\ pc[Web] # "notify"
             /\ \A o \in Sessions : ~Uploading(o)
  <2>1. FlashBusy
    BY <1>1, Facts, Zenon DEF AboutToSchedule
  <2>2. /\ closed.kind = job /\ e.set = {} /\ ClosedInFile /\ pc[Web] # "notify"
        /\ \A o \in Sessions : ~Uploading(o)
    BY <1>1, <1>6, <2>1, Zenon DEF RecoveryInv, CalmInv
  <2>3. QED BY <1>3, <2>2 DEF ClosedInFile
<1>7. CASE pos < file[job].length
  <2> DEFINE b == Start(job) + pos
  <2>1. /\ pos' = pos + 1 /\ UNCHANGED pc /\ status' = (Percent(pos + 1) \div 2) + 50
        /\ \/ flash' = [flash EXCEPT ![b] = Programmed(b, <<file[job].upload, pos>>)] /\ faults' = faults
           \/ flash' = flash /\ faults' = faults \cup {"write"}
    BY <1>7, Zenon DEF Write, WriteRound
  <2>2. pos \in 0 .. Length(job) - 1 /\ b \in 0 .. Capacity - 1 /\ pos' \in 0 .. Capacity
        /\ pos' <= file[job].length
    BY <1>2, <1>7, <2>1
  <2>3. flash[b] = Erased
    BY <1>3, <2>2
  <2>4. /\ status' \in 50 .. 100 /\ (status' = 100 => pos' >= Length(job))
    <3>1. pos + 1 \in Nat /\ pos + 1 <= Length(job)
      BY <1>2, <1>7
    <3>2. Percent(pos + 1) \in 0 .. 100 /\ (pos + 1 < Length(job) => Percent(pos + 1) < 100)
      BY <1>2, <3>1, Progress, Zenon
    <3>3. QED BY <1>2, <2>1, <3>1, <3>2
  <2>5. \/ flash' = [flash EXCEPT ![b] = <<got, pos>>] /\ faults' = faults
        \/ flash' = flash /\ faults' = faults \cup {"write"}
    BY <1>3, <2>1, <2>3, Zenon DEF Programmed
  <2>6. flash' \in [0 .. Capacity - 1 -> (0 .. MaxUploads) \X (0 .. Capacity)]
    <3>1. <<got, pos>> \in (0 .. MaxUploads) \X (0 .. Capacity)
      <4>1. pos \in 0 .. Capacity
        BY <1>2
      <4>2. QED BY <1>4, <4>1, Zenon
    <3>2. QED BY <1>4, <2>5, <3>1, Zenon
  <2>7. ASSUME NEW i \in 0 .. Length(job) - 1
        PROVE  IF i >= pos' THEN flash'[Start(job) + i] = Erased
               ELSE \/ flash'[Start(job) + i] = <<got, i>>
                    \/ flash'[Start(job) + i] = Erased /\ "write" \in faults'
    <3>1. Start(job) + i \in 0 .. Capacity - 1
      BY <1>2
    <3>2. CASE i = pos
      <4>1. ~(i >= pos') /\ Start(job) + i = b
        BY <1>2, <2>1, <3>2
      <4>2. QED BY <1>4, <2>2, <2>3, <2>5, <3>2, <4>1, Zenon
    <3>3. CASE i # pos
      <4>1. (i >= pos' <=> i >= pos) /\ Start(job) + i # b
        BY <1>2, <2>1, <3>3
      <4>2. flash'[Start(job) + i] = flash[Start(job) + i] /\ faults \subseteq faults'
        BY <1>4, <2>5, <3>1, <4>1, Zenon
      <4>3. QED BY <1>3, <4>1, <4>2, Zenon
    <3>4. QED BY <3>2, <3>3, Zenon
  <2>8. /\ pc' = pc /\ (FlashBusy' <=> FlashBusy) /\ (Working' <=> Working)
    BY <1>1, <2>1, Zenon DEF FlashBusy, Working
  <2>9. TypeOK'
    <3>1. status' \in -1 .. 100 \cup {404}
      BY <2>4
    <3>2. faults' \subseteq {"write", "malloc", "hurry"}
      BY <2>1 DEF RecoveryInv, TypeOK
    <3>3. QED BY <1>1, <2>2, <2>6, <2>8, <3>1, <3>2 DEF RecoveryInv, TypeOK
  <2>10. ThreadsInv'
    BY <1>1, <2>8, Zenon DEF RecoveryInv, ThreadsInv, me
  <2>11. ImagesInv'
    <3>1. WritesOneUpload'
      BY <1>1, <1>3, <2>7, Zenon DEF WritesOneUpload
    <3>2. QED BY <1>1, <1>3, <2>2, <2>8, <3>1, Zenon DEF ImagesInv
  <2>12. CalmInv'
    <3>1. SUFFICES ASSUME "hurry" \notin faults' PROVE CalmInv'
      BY Zenon DEF CalmInv
    <3>2. "hurry" \notin faults
      BY <2>1, <3>1, Zenon
    <3>3. ASSUME status' = 100, "write" \notin faults' PROVE Flashed'
      <4>1. SUFFICES ASSUME NEW i \in 0 .. closed.length - 1
                     PROVE  flash'[Start(closed.kind) + i] = <<closed.upload, i>>
        BY <1>1, Zenon DEF Flashed
      <4>2. i \in 0 .. Length(job) - 1 /\ ~(i >= pos')
        BY <1>2, <1>6, <2>1, <2>4, <3>2, <3>3
      <4>3. QED BY <1>6, <2>7, <3>2, <3>3, <4>2, Zenon
    <3>4. QED BY <1>1, <1>5, <1>6, <2>8, <3>2, <3>3, Zenon DEF CalmInv
  <2>13. QED BY <2>2, <2>5, <2>9, <2>10, <2>11, <2>12, <1>2, Zenon DEF RecoveryInv
<1>8. CASE ~(pos < file[job].length)
  <2>1. status' = 100 /\ pc' = [pc EXCEPT ![Flash] = "loop"] /\ UNCHANGED <<flash, pos, faults>>
    BY <1>8, Zenon DEF Write, WriteRound
  <2>2. /\ ThreadsInv' /\ FlashBusy /\ FlashBusy'
        /\ pc' \in [Threads -> WebLabels \cup FlashLabels]
        /\ pc'[Web] = pc[Web] /\ pc'[Flash] = "loop" /\ "loop" \in FlashLabels
    BY <1>1, <2>1, FlashGoesOn, Zenon DEF AboutToSchedule
  <2>3. TypeOK'
    <3>1. status' \in -1 .. 100 \cup {404}
      BY <2>1
    <3>2. QED BY <1>1, <2>1, <2>2, <3>1 DEF RecoveryInv, TypeOK
  <2>4. ImagesInv'
    BY <1>1, <2>2, Zenon DEF RecoveryInv, ImagesInv, WritesOneUpload, Working
  <2>5. ASSUME "hurry" \notin faults, "write" \notin faults PROVE Flashed'
    <3>1. SUFFICES ASSUME NEW i \in 0 .. closed.length - 1
                   PROVE  flash[Start(closed.kind) + i] = <<closed.upload, i>>
      BY <1>1, <2>1, Zenon DEF Flashed
    <3>2. i \in 0 .. Length(job) - 1 /\ ~(i >= pos)
      BY <1>2, <1>6, <1>8, <2>5
    <3>3. QED BY <1>3, <1>6, <2>5, <3>2, Zenon
  <2>6. CalmInv'
    BY <1>1, <1>5, <1>6, <2>1, <2>2, <2>5, Zenon DEF CalmInv, Working
  <2>7. QED BY <2>1, <2>2, <2>3, <2>4, <2>6, Zenon DEF RecoveryInv
<1>9. QED BY <1>7, <1>8, Zenon

(***************************************************************************)
(* The initial state: the flash thread, being the most urgent, runs before *)
(* the web server thread and waits for its first event.                    *)
(***************************************************************************)
LEMMA InitInv ==
    ASSUME Init
    PROVE  RecoveryInv
<1> DEFINE f == [t \in Threads |-> CASE t = Flash -> 0 [] t = Web -> 1 [] t = Idle -> 2]
           a == Asleep(f)
           b == rt_thread_timeout(a, Flash)
           c == rt_thread_timeout(b, Web)
<1>1. /\ Threads = {Idle, Web, Flash} /\ Web # Flash /\ Idle # Web /\ Idle # Flash
      /\ EventList \in Lists /\ Bits = Kinds /\ Priorities = 0 .. 2
  BY RecoveryAssumption, EventAssumption DEF Priorities
<1>2. /\ f \in [Threads -> Priorities] /\ f[Flash] = 0 /\ f[Web] = 1 /\ f[Idle] = 2
  BY <1>1
<1> HIDE DEF f
<1>3. /\ KernelOK(a, {}) /\ a.lock_nest = 0 /\ a.priority = f /\ a.timer = Workers
      /\ On(a, EventList) = {}
  BY <1>1, <1>2, AsleepOK, Zenon
<1> HIDE DEF a
<1>4. /\ KernelOK(b, {}) /\ Settled(b) /\ b.lock_nest = 0 /\ a.stat[Flash] = "SUSPEND"
      /\ b.stat[Flash] \in {"READY", "RUNNING"} /\ b.priority = a.priority
      /\ b.error = [a.error EXCEPT ![Flash] = "ETIMEOUT"] /\ b.timer = a.timer \ {Flash}
      /\ On(b, EventList) = On(a, EventList) \ {Flash}
  <2>1. Flash \in a.timer /\ b \in Expiry(a, Flash)
    BY <1>1, <1>3, Zenon DEF Workers, Expiry
  <2> HIDE DEF b
  <2>2. QED BY <1>1, <1>3, <2>1, ExpiryEffect
<1> HIDE DEF b
<1>5. /\ KernelOK(c, {}) /\ Settled(c) /\ c.lock_nest = 0 /\ b.stat[Web] = "SUSPEND"
      /\ c.stat[Web] \in {"READY", "RUNNING"} /\ c.priority = b.priority
      /\ c.error = [b.error EXCEPT ![Web] = "ETIMEOUT"] /\ c.timer = b.timer \ {Web}
      /\ On(c, EventList) = On(b, EventList) \ {Web}
      /\ c.stat[Flash] \in {"READY", "RUNNING"}
  <2>1. Web \in b.timer /\ c \in Expiry(b, Web)
    BY <1>1, <1>3, <1>4, Zenon DEF Workers, Expiry
  <2> HIDE DEF c
  <2>2. /\ KernelOK(c, {}) /\ Settled(c) /\ c.lock_nest = 0 /\ b.stat[Web] = "SUSPEND"
        /\ c.stat[Web] \in {"READY", "RUNNING"} /\ c.priority = b.priority
        /\ c.error = [b.error EXCEPT ![Web] = "ETIMEOUT"] /\ c.timer = b.timer \ {Web}
        /\ On(c, EventList) = On(b, EventList) \ {Web}
        /\ \A x \in Threads : c.stat[x] # b.stat[x] => c.stat[x] \in {"READY", "RUNNING"}
    BY <1>1, <1>4, <2>1, ExpiryEffect
  <2>3. QED BY <1>1, <1>4, <2>2, Zenon
<1> HIDE DEF c
<1>6. c.current = Flash /\ c.stat[c.current] = "RUNNING" /\ c.current # Idle
  <2>1. c \in KernelStates /\ c.priority = f /\ c.current \in Threads /\ c.stat[c.current] = "RUNNING"
    BY <1>3, <1>4, <1>5, Zenon DEF KernelOK, Shape, KernelStates, Settled
  <2>2. CASE c.stat[Flash] = "RUNNING"
    BY <1>1, <1>5, <2>1, <2>2, Zenon DEF KernelOK, Occupied
  <2>3. CASE c.stat[Flash] = "READY"
    <3>1. In(c.table[0], Flash)
      BY <1>1, <1>2, <1>5, <2>1, <2>3 DEF KernelOK, Linked
    <3>2. 0 \in c.group
      BY <1>1, <1>5, <3>1 DEF KernelOK, Shape, In
    <3>3. c.priority[c.current] <= 0
      BY <1>5, <3>2, Zenon DEF Settled
    <3>4. QED BY <1>1, <1>2, <2>1, <3>3
  <2>4. QED BY <1>5, <2>2, <2>3, Zenon
<1>7. k = Waiting(c, EventList, "FIFO", FALSE)
  BY <1>6, Zenon DEF Init, WaitKernel, Waiting, a, b, c, f
<1>8. KernelOK(k, {}) /\ Joined(k, c, EventList, FALSE)
  BY <1>1, <1>5, <1>6, <1>7, WaitEffect, Zenon
<1>9. /\ k.current = Flash /\ k.lock_nest = 0 /\ Flash \notin k.timer /\ On(k, EventList) = {Flash}
  BY <1>1, <1>3, <1>4, <1>5, <1>6, <1>8, Zenon DEF Joined
<1>10. /\ e \in EventStates /\ e.set = {}
       /\ e.want[Flash] = Kinds /\ e.info[Flash] = {"OR", "CLEAR"}
  <2> DEFINE w == [t \in Threads |-> IF t = Flash THEN Kinds ELSE {}]
             i == [t \in Threads |-> IF t = Flash THEN {"OR", "CLEAR"} ELSE {"OR"}]
  <2>1. e = [set |-> {}, want |-> w, info |-> i]
    BY Zenon DEF Init, WaitEvent, rt_event_init
  <2>2. /\ w \in [Threads -> SUBSET Bits] /\ w[Flash] = Kinds
        /\ i \in [Threads -> Options] /\ i[Flash] = {"OR", "CLEAR"}
    BY <1>1, Zenon DEF Options
  <2> HIDE DEF w, i
  <2>3. QED BY <2>1, <2>2, Zenon DEF EventStates
<1>11. /\ pc \in [Threads -> WebLabels \cup FlashLabels] /\ pc[Web] = "run" /\ pc[Flash] = "recv"
       /\ pc[Web] \in WebLabels /\ pc[Flash] \in FlashLabels
  BY <1>1, Zenon DEF Init, WebLabels, FlashLabels
<1>12. ~FlashBusy /\ ~Working
  BY <1>9, <1>11, Zenon DEF FlashBusy, Working
<1>13. TypeOK
  <2>1. Old \in (0 .. MaxUploads) \X (0 .. Capacity) /\ 0 \in 0 .. MaxUploads /\ 0 \in 0 .. Capacity
    BY RecoveryAssumption DEF Old
  <2>2. flash \in [0 .. Capacity - 1 -> (0 .. MaxUploads) \X (0 .. Capacity)]
    BY <2>1, Zenon DEF Init
  <2>3. /\ file \in [Kinds -> [upload : 0 .. MaxUploads, length : 0 .. Capacity]]
        /\ session \in [Sessions -> [kind : Kinds \cup {NoKind}, upload : 0 .. MaxUploads]]
        /\ closed \in [kind : Kinds \cup {NoKind}, upload : 0 .. MaxUploads, length : 0 .. Capacity]
    BY <2>1, Zenon DEF Init, NoFile
  <2>4. job \in Kinds /\ file_type \in Kinds \cup {NoKind} /\ faults = {} /\ status = 0
        /\ got = 0 /\ pos = 0 /\ uploads = 0
    BY Zenon DEF Init, Kinds
  <2>5. k \in KernelStates
    BY <1>8, Zenon DEF KernelOK, Shape
  <2>6. QED BY <1>10, <1>11, <2>1, <2>2, <2>3, <2>4, <2>5 DEF TypeOK
<1>14. ThreadsInv
  BY <1>8, <1>9, <1>10, <1>11, <1>12, Zenon DEF ThreadsInv, AboutToSchedule, me, Kinds
<1>15. ImagesInv
  <2>1. \A x \in Kinds : file[x].length = 0
    BY Zenon DEF Init, NoFile
  <2>2. QED BY <1>11, <1>12, <2>1, Layout DEF ImagesInv, WritesOneUpload
<1>16. CalmInv
  BY <1>10, <1>11, <1>12 DEF CalmInv, Init, Uploading
<1>17. QED BY <1>13, <1>14, <1>15, <1>16, Zenon DEF RecoveryInv

(***************************************************************************)
(* The results.                                                            *)
(***************************************************************************)
LEMMA NextInv ==
    ASSUME RecoveryInv, [Next]_vars
    PROVE  RecoveryInv'
<1>1. CASE WebStep
  BY <1>1, NotifyInv, WebWaitsInv, UploadOpenUnknownInv, UploadWriteInv, UploadCloseInv,
     UploadOpenInv, Zenon DEF WebStep
<1>2. CASE FlashStep
  BY <1>2, ReceiveInv, ReceiveBackInv, OpenInv, EraseInv, WriteInv, SfudDelayInv, Zenon DEF FlashStep
<1>3. CASE Schedule
  BY <1>3, ScheduleInv, Zenon
<1>4. CASE \E t \in Threads : Expire(t)
  BY <1>4, ExpireInv, Zenon
<1>5. CASE UNCHANGED vars
  <2>1. UNCHANGED <<k, e, pc, file, file_type, session, status, job, got, pos, flash, uploads,
                    closed, faults>>
    BY <1>5, Zenon DEF vars
  <2>2. TypeOK'
    BY <2>1 DEF RecoveryInv, TypeOK
  <2>3. ThreadsInv'
    BY <2>1, Zenon DEF RecoveryInv, ThreadsInv, FlashBusy, me
  <2>4. ImagesInv'
    BY <2>1, Zenon DEF RecoveryInv, ImagesInv, WritesOneUpload, Working
  <2>5. CalmInv'
    BY <2>1, Zenon DEF RecoveryInv, CalmInv, Working, FlashBusy, Uploading, ClosedInFile, Flashed
  <2>6. QED BY <2>2, <2>3, <2>4, <2>5, Zenon DEF RecoveryInv
<1>6. QED BY <1>1, <1>2, <1>3, <1>4, <1>5, Zenon DEF Next

\* RecoveryInv is inductive: the web server (wn_main.c) and the flash thread
\* (flash.c) keep it in every interleaving of their steps and the clock.
THEOREM RecoveryInvariant == Spec => []RecoveryInv
<1>1. Init => RecoveryInv
  BY InitInv, Zenon
<1>2. RecoveryInv /\ [Next]_vars => RecoveryInv'
  BY NextInv, Zenon
<1>3. QED BY <1>1, <1>2, PTL DEF Spec

\* When board_flash_status says 100, the image uploaded last is in its region of
\* the flash, if every write succeeded and every upload waited for the one before.
THEOREM DoneIsFlashed == Spec => []DoneMeansFlashed
<1>1. RecoveryInv => DoneMeansFlashed
  BY Zenon DEF RecoveryInv, CalmInv, DoneMeansFlashed
<1>2. QED BY <1>1, RecoveryInvariant, PTL

\* Whatever the sessions do, the flash thread reads one upload that nobody writes
\* any more, and writes it to blocks that it has erased.
THEOREM OneUploadWritten == Spec => []WritesOneUpload
<1>1. RecoveryInv => WritesOneUpload
  BY Zenon DEF RecoveryInv, ImagesInv
<1>2. QED BY <1>1, RecoveryInvariant, PTL

\* No step changes a block of the flash outside the region of the current job.
THEOREM OtherRegionsKept == Spec => RegionRespected
<1> DEFINE Kept == \A b \in DOMAIN flash : flash'[b] # flash[b] => b \in Region(job)
<1>1. ASSUME RecoveryInv, [Next]_vars
      PROVE  [Kept]_vars
  <2>1. ASSUME NEW v, flash' = [flash EXCEPT ![Start(job) + pos] = v],
               pos \in 0 .. Length(job) - 1, job \in Kinds
        PROVE  Kept
    <3>1. Start(job) + pos \in Region(job)
      BY <2>1, Layout DEF Region
    <3>2. QED BY <2>1, <3>1, Zenon
  <2>2. CASE Erase
    BY <1>1, <2>1, <2>2, EraseInv, Zenon
  <2>3. CASE Write
    BY <1>1, <2>1, <2>3, WriteInv, Zenon
  <2>4. CASE flash' = flash
    BY <2>4, Zenon
  <2>5. Erase \/ Write \/ flash' = flash
    BY <1>1, Zenon DEF Next, WebStep, FlashStep, vars, Notify, WebWaits, UploadOpenUnknown, UploadWrite,
                UploadClose, UploadOpen, Receive, ReceiveBack, Open, SfudDelay, Schedule, Expire
  <2>6. QED BY <2>2, <2>3, <2>4, <2>5, Zenon
<1>2. QED BY <1>1, RecoveryInvariant, PTL DEF Spec, RegionRespected

=============================================================================
