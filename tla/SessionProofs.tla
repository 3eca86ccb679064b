--------------------------- MODULE SessionProofs ---------------------------
(***************************************************************************)
(* That every question asked is the one on screen, that the close veto      *)
(* follows the store, and that recovery loses and resurrects nothing: for   *)
(* any number of flows, files, versions and writes, with the calls to the   *)
(* backend under way, and crashes, at any moment.                           *)
(*                                                                          *)
(* The argument has two layers.  FlowsOK ties the queue of calls to the     *)
(* flows that await them, and the mirror of the dirty flag to the last call *)
(* about it.  RecoveryInv, on top of it, says what the two recovery files   *)
(* hold between any two calls.                                              *)
(***************************************************************************)
EXTENDS Session, SequenceTheorems, TLAPS

Commands  == {"set_dirty", "save_project", "load_project", "push_recent", "clear_recovery",
              "autosave_recovery", "autosave_meta"}
Autosaves == {"autosave_recovery", "autosave_meta"}
Calls == [cmd : Commands, slot : Slots \cup {NoSlot}, path : Paths \cup {NoPath}, doc : Int]
Steps == {"idle", "asked", "picking", "pickSave", "writing", "recording", "clearing",
          "loading", "opened", "closing"}
Kinds == {"none", "new", "open", "recent", "close", "save", "offer"}
Flows == [pc : Steps, kind : Kinds, path : Paths \cup {NoPath}, doc : Int]

\* The calls under way.
InFlight(q) == {q[i] : i \in 1 .. Len(q)}

\* Where a flow stands that made the call.
Awaiting(c, fl) ==
  /\ c.cmd \in {"save_project", "load_project", "push_recent"} => c.slot # NoSlot
  /\ c.slot # NoSlot =>
       \/ c.cmd = "save_project"   /\ fl[c.slot].pc = "writing"
       \/ c.cmd = "load_project"   /\ fl[c.slot].pc = "loading"
       \/ c.cmd = "push_recent"    /\ fl[c.slot].pc \in {"recording", "opened"}
       \/ c.cmd = "clear_recovery" /\ fl[c.slot].pc = "clearing"

\* A flow has one call under way.
Once(q) == \A i, j \in 1 .. Len(q) : q[i].slot = q[j].slot /\ q[i].slot # NoSlot => i = j

\* An autosave is the first call.
First(q) == \A i \in 1 .. Len(q) : q[i].cmd \in Autosaves => i = 1

\* The last mirror call under way, or the mirror itself, is the flag.
Mirrored(q, mirror, flag) ==
  \/ mirror = flag /\ \A i \in 1 .. Len(q) : q[i].cmd # "set_dirty"
  \/ \E i \in 1 .. Len(q) : /\ q[i].cmd = "set_dirty" /\ (q[i].doc = 1) = flag
                            /\ \A j \in i + 1 .. Len(q) : q[j].cmd # "set_dirty"

QueueOK(q, fl, mirror, flag) ==
  /\ q \in Seq(Calls)
  /\ \A c \in InFlight(q) : Awaiting(c, fl)
  /\ Once(q) /\ First(q) /\ Mirrored(q, mirror, flag)

\* The first layer: every flow waits for what the queue holds, and nothing else.
FlowsOK ==
  /\ flows \in [Slots -> Flows] /\ prompt \in Slots \cup {NoSlot}
  /\ dirty \in BOOLEAN /\ backendDirty \in BOOLEAN
  /\ EveryAskerIsOnScreen
  /\ QueueOK(ipc, flows, backendDirty, dirty)

\* The versions made so far.
Made == 0 .. made
\* The prompt on screen offers the recovery file.
Offering == prompt # NoSlot /\ flows[prompt].kind = "offer"
\* The types, sharper than TypeOK: no version is of the future, nothing is loaded from,
\* or saved to, no path, and the offer holds a version.
TypeInv ==
  /\ made \in 0 .. MaxVersions /\ clock \in 0 .. MaxWrites
  /\ doc \in Made /\ path \in Paths \cup {NoPath}
  /\ dragging \in BOOLEAN /\ owed \in BOOLEAN /\ timer \in BOOLEAN
  /\ origin \in {"fresh", "edited", "dragged", "loaded", "restored", "crashed", "closed"}
  /\ \A f \in Slots : /\ flows[f].doc \in Made \cup {Absent}
                      /\ flows[f].pc \in {"loading", "opened"} \/ flows[f].kind = "recent"
                           => flows[f].path # NoPath
  /\ Offering => flows[prompt].doc \in Made
  /\ disk \in [Paths -> Made \cup {Absent}] /\ mtime \in [Paths -> 0 .. clock]
  /\ working \in Made \cup {Absent} /\ workingPath \in Paths \cup {NoPath}
  /\ meta \in [path : Paths \cup {NoPath}, time : 0 .. clock \cup {Absent}]
  /\ botched \in BOOLEAN
  /\ \A c \in InFlight(ipc) :
       /\ c.cmd \in {"save_project", "load_project"} => c.path # NoPath
       /\ c.cmd \in {"save_project"} \cup Autosaves => c.doc \in Made

InFlightHas(cmds) == \E c \in InFlight(ipc) : c.cmd \in cmds
\* check_recovery would find the metadata file newer than the project, and it is not
\* what a failed or cut off step left.
MetaLive == ~botched /\ meta # NoMeta /\ Newer(meta)
\* The recovery files are about to be cleared, or the author is being asked about them.
ClearComing == InFlightHas({"push_recent", "clear_recovery"}) \/ Offering
DiscardComing == \E c \in InFlight(ipc) : c.cmd = "clear_recovery" /\ c.slot = NoSlot
Leaving(pc) == \E f \in Slots : At(f, pc)
\* The autosave has fired since the last edit.
Resting == dirty /\ origin = "edited" /\ ~timer

\* The offer stands before anything is edited.
OfferIsClean == Offering => ~dirty /\ ~dragging /\ origin # "edited"
\* write_recovery writes the document before the metadata, clear_recovery deletes both.
PairIsWhole == MetaLive => working # Absent \/ InFlightHas({"clear_recovery"})
\* When the timer has fired since the last edit, the recovery files hold the document, or
\* an autosave of it is under way, and no clear will come after it.
RestIsSaved ==
  Resting => /\ ~InFlightHas({"push_recent", "clear_recovery"})
             /\ \A c \in InFlight(ipc) : c.cmd \in Autosaves => c.path = path /\ c.doc = doc
             /\ ~InFlightHas(Autosaves) /\ ~botched => Recoverable
\* Between its two writes, write_recovery finds its document on disk, and the clock past
\* the time of every project.
MetaComesNext ==
  \A c \in InFlight(ipc) : c.cmd = "autosave_meta" =>
    working = c.doc /\ workingPath = c.path /\ \A p \in Paths : mtime[p] < clock
\* An autosave under way is of the path of the session, or its files will be cleared, and
\* of unsaved work, or its files will be discarded or left by a close.
AutosaveIsOurs ==
  \A c \in InFlight(ipc) : c.cmd \in Autosaves =>
    /\ c.cmd = "autosave_recovery" /\ MetaLive => meta.path = c.path
    /\ c.path = path \/ ClearComing
    /\ dirty \/ Leaving("closing") \/ DiscardComing
\* Recovery files that would be offered name their own path, and that of the session
\* unless they will be cleared.
MetaIsOurs ==
  MetaLive => (working # Absent => meta.path = workingPath) /\ (meta.path = path \/ ClearComing)
\* Recovery files that would be offered for the file of a clean session are ones whose
\* work the author closed, replaced or discarded.
SavedIsOlder ==
  MetaLive /\ meta.path = path /\ path # NoPath /\ ~dirty =>
    doc # disk[path] \/ Leaving("closing") \/ Leaving("opened") \/ DiscardComing

RecoveryInv == /\ OfferIsClean /\ PairIsWhole /\ RestIsSaved /\ MetaComesNext
               /\ AutosaveIsOurs /\ MetaIsOurs /\ SavedIsOlder

-----------------------------------------------------------------------------
(* Queues of calls. *)

\* A call made is under way with the others.
LEMMA AppendCalls ==
  ASSUME NEW q \in Seq(Calls), NEW c \in Calls
  PROVE  /\ Append(q, c) \in Seq(Calls) /\ InFlight(Append(q, c)) = InFlight(q) \cup {c}
         /\ Append(q, c) # << >>
<1>1. /\ Append(q, c) \in Seq(Calls) /\ Len(Append(q, c)) = Len(q) + 1 /\ Len(q) \in Nat
      /\ \A i \in 1 .. Len(q) : Append(q, c)[i] = q[i]
      /\ Append(q, c)[Len(q) + 1] = c
  BY AppendProperties, LenProperties
<1>2. InFlight(Append(q, c)) = InFlight(q) \cup {c}
  BY <1>1 DEF InFlight
<1> QED  BY <1>1, <1>2

\* A call that is finished leaves the others under way.
LEMMA TailCalls ==
  ASSUME NEW q \in Seq(Calls), q # << >>
  PROVE  /\ Head(q) \in Calls /\ Tail(q) \in Seq(Calls) /\ Head(q) = q[1]
         /\ Len(q) \in Nat \ {0} /\ Len(Tail(q)) = Len(q) - 1
         /\ \A i \in 1 .. Len(Tail(q)) : Tail(q)[i] = q[i + 1]
         /\ InFlight(q) = {Head(q)} \cup InFlight(Tail(q))
<1>1. /\ Head(q) \in Calls /\ Tail(q) \in Seq(Calls) /\ Head(q) = q[1]
      /\ Len(q) \in Nat \ {0} /\ Len(Tail(q)) = Len(q) - 1
      /\ \A i \in 1 .. Len(Tail(q)) : Tail(q)[i] = q[i + 1]
  BY HeadTailProperties, LenProperties, EmptySeq
<1>2. ASSUME NEW c \in InFlight(q) PROVE c \in {Head(q)} \cup InFlight(Tail(q))
  <2>1. PICK i \in 1 .. Len(q) : c = q[i]  BY DEF InFlight
  <2>2. CASE i = 1  BY <1>1, <2>1, <2>2
  <2>3. CASE i # 1
    <3>1. i - 1 \in 1 .. Len(Tail(q)) /\ q[i] = Tail(q)[i - 1]  BY <1>1, <2>3
    <3> QED  BY <3>1, <2>1 DEF InFlight
  <2> QED  BY <2>2, <2>3
<1>3. InFlight(Tail(q)) \subseteq InFlight(q)
  <2>1. \A i \in 1 .. Len(Tail(q)) : Tail(q)[i] = q[i + 1] /\ i + 1 \in 1 .. Len(q)  BY <1>1
  <2> QED  BY <2>1 DEF InFlight
<1>4. Head(q) \in InFlight(q)  BY <1>1 DEF InFlight
<1> QED  BY <1>1, <1>2, <1>3, <1>4

\* What is under way is made of calls.
LEMMA FlightIsCalls ==
  ASSUME NEW q \in Seq(Calls)
  PROVE  InFlight(q) \subseteq Calls
<1>1. \A i \in 1 .. Len(q) : q[i] \in Calls  BY ElementOfSeq
<1> QED  BY <1>1 DEF InFlight

\* A flow that is waiting for no call has none under way.
LEMMA NoCallOf ==
  ASSUME NEW q, NEW fl, NEW mirror, NEW flag, QueueOK(q, fl, mirror, flag), NEW f \in Slots,
         fl[f].pc \notin {"writing", "recording", "clearing", "loading", "opened"}
  PROVE  \A c \in InFlight(q) : c.slot # f
BY PathsAssumption DEF QueueOK, Awaiting

\* The queue depends on no flow but those that have a call under way.
LEMMA Moves ==
  ASSUME NEW q, NEW fl, NEW fl2, NEW mirror, NEW flag, QueueOK(q, fl, mirror, flag),
         \A c \in InFlight(q) : c.slot # NoSlot => fl2[c.slot] = fl[c.slot]
  PROVE  QueueOK(q, fl2, mirror, flag)
BY DEF QueueOK, Awaiting

\* A flow that has no call under way may make one, if it then waits for it.
LEMMA Adds ==
  ASSUME NEW q, NEW fl, NEW mirror, NEW flag, QueueOK(q, fl, mirror, flag), NEW c \in Calls,
         c.cmd \notin Autosaves \cup {"set_dirty"}, Awaiting(c, fl),
         c.slot # NoSlot => \A d \in InFlight(q) : d.slot # c.slot
  PROVE  QueueOK(Append(q, c), fl, mirror, flag)
<1> DEFINE r == Append(q, c)
<1>1. q \in Seq(Calls)  BY DEF QueueOK
<1>2. /\ r \in Seq(Calls) /\ Len(r) = Len(q) + 1 /\ Len(q) \in Nat
      /\ \A i \in 1 .. Len(q) : r[i] = q[i]
      /\ r[Len(q) + 1] = c
  BY <1>1, AppendProperties, LenProperties
<1>3. InFlight(r) = InFlight(q) \cup {c}  BY <1>1, AppendCalls
<1>4. \A i \in 1 .. Len(q) : q[i] \in InFlight(q)  BY DEF InFlight
<1> HIDE DEF r
<1>5. \A d \in InFlight(r) : Awaiting(d, fl)  BY <1>3 DEF QueueOK
<1>6. Once(r)
  <2> SUFFICES ASSUME NEW i \in 1 .. Len(r), NEW j \in 1 .. Len(r),
                      r[i].slot = r[j].slot, r[i].slot # NoSlot
               PROVE  i = j
    BY DEF Once
  <2>1. CASE i \in 1 .. Len(q) /\ j \in 1 .. Len(q)
    BY <2>1, <1>2 DEF QueueOK, Once
  <2>2. CASE i \in 1 .. Len(q) /\ j = Len(q) + 1
    BY <2>2, <1>2, <1>4
  <2>3. CASE i = Len(q) + 1 /\ j \in 1 .. Len(q)
    BY <2>3, <1>2, <1>4
  <2> QED  BY <1>2, <2>1, <2>2, <2>3
<1>7. First(r)  BY <1>2 DEF QueueOK, First
<1>8. Mirrored(r, mirror, flag)
  <2>1. CASE mirror = flag /\ \A i \in 1 .. Len(q) : q[i].cmd # "set_dirty"
    BY <2>1, <1>2 DEF Mirrored
  <2>2. CASE \E i \in 1 .. Len(q) : /\ q[i].cmd = "set_dirty" /\ (q[i].doc = 1) = flag
                                    /\ \A j \in i + 1 .. Len(q) : q[j].cmd # "set_dirty"
    <3>1. PICK i \in 1 .. Len(q) : /\ q[i].cmd = "set_dirty" /\ (q[i].doc = 1) = flag
                                   /\ \A j \in i + 1 .. Len(q) : q[j].cmd # "set_dirty"
      BY <2>2
    <3>2. i \in 1 .. Len(r) /\ r[i] = q[i]  BY <1>2
    <3>3. \A j \in i + 1 .. Len(r) : r[j].cmd # "set_dirty"  BY <3>1, <1>2
    <3> QED  BY <3>1, <3>2, <3>3 DEF Mirrored
  <2> QED  BY <2>1, <2>2 DEF QueueOK, Mirrored
<1> QED  BY <1>2, <1>5, <1>6, <1>7, <1>8 DEF QueueOK, r

\* Mirror makes calls about the flag, of no flow.
LEMMA MirrorCalls ==
  ASSUME NEW q \in Seq(Calls), NEW flag
  PROVE  q \o Mirror(flag) = IF flag = dirty THEN q
           ELSE Append(q, Call("set_dirty", NoSlot, NoPath, IF flag THEN 1 ELSE 0))
<1> DEFINE c == Call("set_dirty", NoSlot, NoPath, IF flag THEN 1 ELSE 0)
<1>1. c \in Calls  BY DEF Call, Calls, Commands
<1>2. q \o << >> = q  BY ConcatEmptySeq
<1>3. q \o <<c>> = Append(q, c)  BY <1>1, AppendIsConcat
<1> QED  BY <1>2, <1>3 DEF Mirror

\* A sequence of one call is put behind the others like the call.
LEMMA OneCall ==
  ASSUME NEW q \in Seq(Calls), NEW c \in Calls
  PROVE  q \o <<c>> = Append(q, c)
BY AppendIsConcat

\* After Mirror the last call about the flag, or the mirror itself, is the new flag.
LEMMA Mirrors ==
  ASSUME NEW q, NEW fl, NEW mirror, QueueOK(q, fl, mirror, dirty), NEW flag \in BOOLEAN, dirty \in BOOLEAN
  PROVE  QueueOK(q \o Mirror(flag), fl, mirror, flag)
<1> DEFINE c == Call("set_dirty", NoSlot, NoPath, IF flag THEN 1 ELSE 0)
           r == Append(q, c)
<1>1. q \in Seq(Calls)  BY DEF QueueOK
<1>2. CASE flag = dirty
  BY <1>1, <1>2, MirrorCalls
<1>3. CASE flag # dirty
  <2>1. c \in Calls /\ c.slot = NoSlot /\ c.cmd = "set_dirty" /\ (c.doc = 1) = flag
    BY DEF Call, Calls, Commands
  <2>2. q \o Mirror(flag) = r  BY <1>1, <1>3, MirrorCalls
  <2> HIDE DEF c
  <2>3. /\ r \in Seq(Calls) /\ Len(r) = Len(q) + 1 /\ Len(q) \in Nat
        /\ \A i \in 1 .. Len(q) : r[i] = q[i]
        /\ r[Len(q) + 1] = c
    BY <1>1, <2>1, AppendProperties, LenProperties
  <2>4. InFlight(r) = InFlight(q) \cup {c}  BY <1>1, <2>1, AppendCalls
  <2> HIDE DEF r
  <2>5. \A d \in InFlight(r) : Awaiting(d, fl)
    BY <2>1, <2>4 DEF QueueOK, Awaiting
  <2>6. Once(r)
    BY <2>3, <2>1 DEF QueueOK, Once
  <2>7. First(r)  BY <2>3, <2>1 DEF QueueOK, First, Autosaves
  <2>8. Mirrored(r, mirror, flag)
    <3>1. Len(r) \in 1 .. Len(r) /\ r[Len(r)] = c /\ \A j \in Len(r) + 1 .. Len(r) : FALSE  BY <2>3
    <3> QED  BY <3>1, <2>1 DEF Mirrored
  <2> QED  BY <2>2, <2>3, <2>5, <2>6, <2>7, <2>8 DEF QueueOK
<1> QED  BY <1>2, <1>3

\* When the first call is finished the flow that made it may go on.
LEMMA Pops ==
  ASSUME NEW q, NEW fl, NEW mirror, NEW flag, QueueOK(q, fl, mirror, flag), q # << >>
  PROVE  /\ QueueOK(Tail(q), fl, IF Head(q).cmd = "set_dirty" THEN Head(q).doc = 1 ELSE mirror, flag)
         /\ \A c \in InFlight(Tail(q)) : c.cmd \notin Autosaves
         /\ Head(q).slot # NoSlot => \A c \in InFlight(Tail(q)) : c.slot # Head(q).slot
         /\ Head(q) \in Calls /\ Awaiting(Head(q), fl) /\ Head(q) \in InFlight(q)
         /\ InFlight(q) = {Head(q)} \cup InFlight(Tail(q))
<1> DEFINE r == Tail(q)
           now == IF Head(q).cmd = "set_dirty" THEN Head(q).doc = 1 ELSE mirror
<1>1. q \in Seq(Calls)  BY DEF QueueOK
<1>2. /\ Head(q) \in Calls /\ r \in Seq(Calls) /\ Head(q) = q[1]
      /\ Len(q) \in Nat \ {0} /\ Len(r) = Len(q) - 1
      /\ \A i \in 1 .. Len(r) : r[i] = q[i + 1]
      /\ InFlight(q) = {Head(q)} \cup InFlight(r)
  BY <1>1, TailCalls
<1> HIDE DEF r
<1>3. \A c \in InFlight(q) : Awaiting(c, fl)  BY DEF QueueOK
<1>4. Once(r)
  BY <1>2 DEF QueueOK, Once
<1>5. First(r) /\ \A c \in InFlight(r) : c.cmd \notin Autosaves
  <2>1. \A i \in 1 .. Len(r) : r[i].cmd \notin Autosaves
    <3> SUFFICES ASSUME NEW i \in 1 .. Len(r), r[i].cmd \in Autosaves PROVE FALSE  OBVIOUS
    <3>1. i + 1 \in 1 .. Len(q) /\ q[i + 1] = r[i] /\ i + 1 # 1  BY <1>2
    <3> QED  BY <3>1 DEF QueueOK, First
  <2> QED  BY <2>1 DEF First, InFlight
<1>6. Head(q).slot # NoSlot => \A c \in InFlight(r) : c.slot # Head(q).slot
  <2> SUFFICES ASSUME Head(q).slot # NoSlot, NEW i \in 1 .. Len(r), r[i].slot = Head(q).slot PROVE FALSE
    BY DEF InFlight
  <2>1. i + 1 \in 1 .. Len(q) /\ q[i + 1] = r[i] /\ i + 1 # 1 /\ 1 \in 1 .. Len(q)  BY <1>2
  <2> QED  BY <2>1, <1>2 DEF QueueOK, Once
<1>7. Mirrored(r, now, flag)
  <2>1. CASE mirror = flag /\ \A i \in 1 .. Len(q) : q[i].cmd # "set_dirty"
    <3>1. \A i \in 1 .. Len(r) : i + 1 \in 1 .. Len(q) /\ r[i] = q[i + 1]  BY <1>2
    <3>2. 1 \in 1 .. Len(q)  BY <1>2
    <3>3. now = flag  BY <3>2, <2>1, <1>2
    <3>4. \A i \in 1 .. Len(r) : r[i].cmd # "set_dirty"  BY <3>1, <2>1
    <3> QED  BY <3>3, <3>4 DEF Mirrored
  <2>2. CASE \E i \in 1 .. Len(q) : /\ q[i].cmd = "set_dirty" /\ (q[i].doc = 1) = flag
                                    /\ \A j \in i + 1 .. Len(q) : q[j].cmd # "set_dirty"
    <3>1. PICK i \in 1 .. Len(q) : /\ q[i].cmd = "set_dirty" /\ (q[i].doc = 1) = flag
                                   /\ \A j \in i + 1 .. Len(q) : q[j].cmd # "set_dirty"
      BY <2>2
    <3>2. CASE i = 1
      <4>1. now = flag  BY <3>1, <3>2, <1>2
      <4>2. \A j \in 1 .. Len(r) : r[j].cmd # "set_dirty"
        <5>1. \A j \in 1 .. Len(r) : j + 1 \in i + 1 .. Len(q) /\ r[j] = q[j + 1]  BY <1>2, <3>2
        <5> QED  BY <5>1, <3>1
      <4> QED  BY <4>1, <4>2 DEF Mirrored
    <3>3. CASE i # 1
      <4>1. i - 1 \in 1 .. Len(r) /\ r[i - 1] = q[i]  BY <1>2, <3>3
      <4>2. \A j \in (i - 1) + 1 .. Len(r) : r[j].cmd # "set_dirty"
        <5>1. \A j \in (i - 1) + 1 .. Len(r) : j + 1 \in i + 1 .. Len(q) /\ r[j] = q[j + 1]  BY <1>2, <3>3
        <5> QED  BY <5>1, <3>1
      <4> QED  BY <4>1, <4>2, <3>1 DEF Mirrored
    <3> QED  BY <3>2, <3>3
  <2> QED  BY <2>1, <2>2 DEF QueueOK, Mirrored
<1>8. QueueOK(r, fl, now, flag)
  BY <1>2, <1>3, <1>4, <1>5, <1>7 DEF QueueOK
<1> QED  BY <1>2, <1>3, <1>5, <1>6, <1>8 DEF r

-----------------------------------------------------------------------------
(* The flows and the queue stay in step. *)

\* What Flow makes, and its fields.
LEMMA FlowFields ==
  ASSUME NEW pc \in Steps, NEW kind \in Kinds, NEW p \in Paths \cup {NoPath}, NEW v \in Int
  PROVE  /\ Flow(pc, kind, p, v) \in Flows
         /\ Flow(pc, kind, p, v).pc = pc /\ Flow(pc, kind, p, v).kind = kind
         /\ Flow(pc, kind, p, v).path = p /\ Flow(pc, kind, p, v).doc = v
BY DEF Flow, Flows

\* The idle flow.
LEMMA IdleFields == /\ Idle \in Flows /\ Idle.pc = "idle" /\ Idle.kind = "none"
                    /\ Idle.path = NoPath /\ Idle.doc = Absent
BY DEF Idle, Flow, Flows, Steps, Kinds, Absent

\* What Call makes, and its fields.
LEMMA CallFields ==
  ASSUME NEW cmd \in Commands, NEW s \in Slots \cup {NoSlot}, NEW p \in Paths \cup {NoPath}, NEW v \in Int
  PROVE  /\ Call(cmd, s, p, v) \in Calls
         /\ Call(cmd, s, p, v).cmd = cmd /\ Call(cmd, s, p, v).slot = s
         /\ Call(cmd, s, p, v).path = p /\ Call(cmd, s, p, v).doc = v
BY DEF Call, Calls

\* The call of openPath.
LEMMA LoadFields ==
  ASSUME NEW s \in Slots, NEW p \in Paths \cup {NoPath}, NEW c, c = Call("load_project", s, p, Absent)
  PROVE  c \in Calls /\ c.cmd = "load_project" /\ c.path = p
<1>1. "load_project" \in Commands /\ s \in Slots \cup {NoSlot} /\ Absent \in Int
  BY DEF Commands, Absent
<1> QED  BY <1>1, CallFields

\* The call of clear_recovery.
LEMMA ClearFields ==
  ASSUME NEW s \in Slots \cup {NoSlot}
  PROVE  /\ Clear(s) \in Calls /\ Clear(s).cmd = "clear_recovery" /\ Clear(s).slot = s
BY CallFields DEF Clear, Commands, Absent

\* One flow changes.
OnlyFlow(f, pc, kind) ==
  /\ flows' \in [Slots -> Flows]
  /\ flows'[f].pc = pc /\ flows'[f].kind = kind
  /\ \A s \in Slots : s # f => flows'[s] = flows[s]

\* Goto moves one flow and keeps its kind, path and document.
LEMMA GotoMoves ==
  ASSUME FlowsOK, NEW f \in Slots, NEW pc \in Steps, Goto(f, pc)
  PROVE  OnlyFlow(f, pc, flows[f].kind) /\ flows'[f].path = flows[f].path /\ flows'[f].doc = flows[f].doc
<1>1. flows \in [Slots -> Flows] /\ flows[f] \in Flows  BY DEF FlowsOK
<1>2. flows' = [flows EXCEPT ![f] = [flows[f] EXCEPT !.pc = pc]]  BY <1>1 DEF Goto
<1>3. [flows[f] EXCEPT !.pc = pc] \in Flows  BY <1>1 DEF Flows
<1> QED  BY <1>1, <1>2, <1>3 DEF OnlyFlow, Flows

\* Finish makes one flow idle.
LEMMA FinishMoves ==
  ASSUME FlowsOK, NEW f \in Slots, Finish(f)
  PROVE  OnlyFlow(f, "idle", "none") /\ flows'[f] = Idle
<1>1. flows \in [Slots -> Flows]  BY DEF FlowsOK
<1>2. Idle \in Flows /\ Idle.pc = "idle" /\ Idle.kind = "none"  BY IdleFields
<1> QED  BY <1>1, <1>2 DEF OnlyFlow, Finish

\* Saving moves one flow and keeps its target, the path an Open Recent will open.
LEMMA SavingMoves ==
  ASSUME FlowsOK, NEW f \in Slots, NEW kind \in Kinds, NEW pc \in Steps, Saving(f, kind, pc)
  PROVE  OnlyFlow(f, pc, kind) /\ flows'[f].path = flows[f].path /\ flows'[f].doc = Absent
<1>1. flows \in [Slots -> Flows] /\ flows[f] \in Flows  BY DEF FlowsOK
<1> DEFINE new == Flow(pc, kind, flows[f].path, Absent)
<1>2. flows' = [flows EXCEPT ![f] = new]  BY <1>1 DEF Saving
<1>3. /\ new \in Flows /\ new.pc = pc /\ new.kind = kind
      /\ new.path = flows[f].path /\ new.doc = Absent
  <2>1. flows[f].path \in Paths \cup {NoPath}  BY <1>1 DEF Flows
  <2> QED  BY <2>1, FlowFields DEF Absent
<1> HIDE DEF new
<1> QED  BY <1>1, <1>2, <1>3 DEF OnlyFlow

\* What an action on one flow has to show.
LEMMA OneFlowSuffices ==
  ASSUME FlowsOK, NEW f \in Slots, NEW pc \in Steps, NEW kind \in Kinds, OnlyFlow(f, pc, kind),
         pc # "asked", prompt' = IF prompt = f THEN NoSlot ELSE prompt,
         dirty' \in BOOLEAN, backendDirty' \in BOOLEAN,
         QueueOK(ipc', flows', backendDirty', dirty')
  PROVE  FlowsOK'
<1>1. EveryAskerIsOnScreen'
  BY PathsAssumption DEF FlowsOK, OnlyFlow, EveryAskerIsOnScreen, At
<1> QED  BY <1>1 DEF FlowsOK, OnlyFlow

\* A step of one flow that makes no call keeps the queue right.
LEMMA QueueMoves ==
  ASSUME NEW q, NEW mirror, NEW flag, QueueOK(q, flows, mirror, flag), NEW f \in Slots,
         NEW pc, NEW kind, OnlyFlow(f, pc, kind), \A c \in InFlight(q) : c.slot # f
  PROVE  QueueOK(q, flows', mirror, flag)
<1>0. q \in Seq(Calls)  BY DEF QueueOK
<1>1. \A c \in InFlight(q) : c.slot # NoSlot => c.slot \in Slots
  BY <1>0, FlightIsCalls DEF Calls
<1>2. \A c \in InFlight(q) : c.slot # NoSlot => flows'[c.slot] = flows[c.slot]
  BY <1>1 DEF OnlyFlow
<1> QED  BY <1>2, Moves

\* A flow makes its next call.
LEMMA QueueCalls ==
  ASSUME NEW q, NEW mirror, NEW flag, QueueOK(q, flows, mirror, flag), NEW f \in Slots,
         NEW pc, NEW kind, OnlyFlow(f, pc, kind), \A c \in InFlight(q) : c.slot # f,
         NEW c \in Calls, c.slot = f,
         \/ c.cmd = "save_project"   /\ pc = "writing"
         \/ c.cmd = "load_project"   /\ pc = "loading"
         \/ c.cmd = "push_recent"    /\ pc \in {"recording", "opened"}
         \/ c.cmd = "clear_recovery" /\ pc = "clearing"
  PROVE  QueueOK(Append(q, c), flows', mirror, flag)
<1>1. QueueOK(q, flows', mirror, flag)  BY QueueMoves
<1>2. Awaiting(c, flows')  BY PathsAssumption DEF Awaiting, OnlyFlow
<1>3. c.cmd \notin Autosaves \cup {"set_dirty"}  BY DEF Autosaves
<1> QED  BY <1>1, <1>2, <1>3, Adds

\* A flow that is done may leave a clear_recovery behind.
LEMMA QueueClears ==
  ASSUME NEW q, NEW fl, NEW mirror, NEW flag, QueueOK(q, fl, mirror, flag)
  PROVE  QueueOK(Append(q, Clear(NoSlot)), fl, mirror, flag)
<1>1. Awaiting(Clear(NoSlot), fl) /\ Clear(NoSlot).cmd \notin Autosaves \cup {"set_dirty"}
  BY ClearFields DEF Awaiting, Autosaves
<1> QED  BY <1>1, ClearFields, Adds

\* What a guarded action does, when it may, keeps flows and queue in step.
LEMMA ProceedKeeps ==
  ASSUME FlowsOK, TypeInv, NEW f \in Slots, NEW q, NEW debt, Proceed(f, q, debt),
         QueueOK(q, flows, backendDirty, dirty), \A c \in InFlight(q) : c.slot # f
  PROVE  /\ \E pc \in {"idle", "picking", "loading", "closing"}, kind \in Kinds : OnlyFlow(f, pc, kind)
         /\ dirty' \in BOOLEAN
         /\ QueueOK(ipc', flows', backendDirty, dirty')
<1>0. flows[f] \in Flows /\ dirty \in BOOLEAN /\ q \in Seq(Calls)  BY DEF FlowsOK, QueueOK
<1>k. flows[f].kind \in Kinds /\ flows[f].path \in Paths \cup {NoPath}  BY <1>0 DEF Flows
<1>p. {"idle", "picking", "loading", "closing"} \subseteq Steps /\ "none" \in Kinds  BY DEF Steps, Kinds
<1>1. CASE ProceedNew(f, q)
  <2> DEFINE r == q \o Mirror(FALSE)
  <2>1. OnlyFlow(f, "idle", "none")  BY <1>1, FinishMoves DEF ProceedNew
  <2>2. dirty' = FALSE /\ ipc' = r \o <<Clear(NoSlot)>>  BY <1>1 DEF ProceedNew, Replace
  <2>3. QueueOK(q, flows', backendDirty, dirty)  BY <2>1, QueueMoves
  <2>4. QueueOK(r, flows', backendDirty, FALSE)  BY <2>3, <1>0, Mirrors
  <2>5. r \in Seq(Calls)  BY <2>4 DEF QueueOK
  <2> HIDE DEF r
  <2>6. ipc' = Append(r, Clear(NoSlot))  BY <2>2, <2>5, ClearFields, OneCall
  <2>7. QueueOK(ipc', flows', backendDirty, FALSE)  BY <2>4, <2>6, QueueClears
  <2> QED  BY <2>1, <2>2, <2>7, <1>p
<1>2. CASE ProceedOpen(f, q, debt)
  <2>1. OnlyFlow(f, "picking", flows[f].kind) /\ ipc' = q /\ dirty' = dirty
    BY <1>2, <1>p, GotoMoves DEF ProceedOpen
  <2>2. QueueOK(q, flows', backendDirty, dirty)  BY <2>1, QueueMoves
  <2> QED  BY <2>1, <2>2, <1>p, <1>k, <1>0
<1>3. CASE ProceedRecent(f, q, debt)
  <2> DEFINE c == Call("load_project", f, flows[f].path, Absent)
  <2>1. OnlyFlow(f, "loading", flows[f].kind) /\ ipc' = Append(q, c) /\ dirty' = dirty
    BY <1>3, <1>p, GotoMoves DEF ProceedRecent
  <2>2. c \in Calls /\ c.slot = f /\ c.cmd = "load_project"
    BY <1>k, CallFields DEF Commands, Absent
  <2> HIDE DEF c
  <2>3. QueueOK(ipc', flows', backendDirty, dirty)  BY <2>1, <2>2, QueueCalls
  <2> QED  BY <2>1, <2>3, <1>p, <1>k, <1>0
<1>4. CASE ProceedClose(f, q, debt)
  <2>1. OnlyFlow(f, "closing", flows[f].kind) /\ ipc' = q \o Mirror(FALSE) /\ dirty' = FALSE
    BY <1>4, <1>p, GotoMoves DEF ProceedClose
  <2>2. QueueOK(q, flows', backendDirty, dirty)  BY <2>1, QueueMoves
  <2>3. QueueOK(ipc', flows', backendDirty, FALSE)  BY <2>1, <2>2, <1>0, Mirrors
  <2> QED  BY <2>1, <2>3, <1>p, <1>k
<1> QED  BY <1>1, <1>2, <1>3, <1>4 DEF Proceed

\* A save, as any flow makes it, keeps flows and queue in step.
LEMMA SaveKeeps ==
  ASSUME FlowsOK, TypeInv, NEW f \in Slots, NEW kind \in Kinds,
         \/ Save(f, kind) \/ PickSavePath(f, kind)
         \/ \E p \in Paths : WriteTo(f, kind, p),
         flows[f].pc \notin {"writing", "recording", "clearing", "loading", "opened"}
  PROVE  /\ \E pc \in {"writing", "pickSave"} : OnlyFlow(f, pc, kind)
         /\ QueueOK(ipc', flows', backendDirty, dirty)
<1>0. QueueOK(ipc, flows, backendDirty, dirty) /\ ipc \in Seq(Calls)  BY DEF FlowsOK, QueueOK
<1>1. \A c \in InFlight(ipc) : c.slot # f  BY <1>0, NoCallOf
<1>2. {"writing", "pickSave"} \subseteq Steps  BY DEF Steps
<1>3. CASE PickSavePath(f, kind)
  <2>1. OnlyFlow(f, "pickSave", kind) /\ ipc' = ipc  BY <1>2, <1>3, SavingMoves DEF PickSavePath
  <2> QED  BY <1>0, <1>1, <2>1, QueueMoves
<1>4. ASSUME NEW p \in Paths \cup {NoPath}, WriteTo(f, kind, p)
      PROVE  OnlyFlow(f, "writing", kind) /\ QueueOK(ipc', flows', backendDirty, dirty)
  <2> DEFINE c == Call("save_project", f, p, doc)
  <2>1. OnlyFlow(f, "writing", kind) /\ ipc' = Append(ipc, c)  BY <1>2, <1>4, SavingMoves DEF WriteTo
  <2>2. doc \in Int  BY DEF TypeInv, Made
  <2>3. c \in Calls /\ c.slot = f /\ c.cmd = "save_project"  BY <2>2, CallFields DEF Commands
  <2> HIDE DEF c
  <2> QED  BY <1>0, <1>1, <2>1, <2>3, QueueCalls
<1>5. path \in Paths \cup {NoPath}  BY DEF TypeInv
<1> QED  BY <1>3, <1>4, <1>5 DEF Save

-----------------------------------------------------------------------------
(* Every step keeps the flows and the queue in step. *)

\* At the start every flow is idle and nothing is under way.
LEMMA FlowsInit == Init => FlowsOK
<1> SUFFICES ASSUME Init PROVE FlowsOK  OBVIOUS
<1>1. Idle \in Flows /\ Idle.pc # "asked"  BY IdleFields
<1>2. flows \in [Slots -> Flows] /\ EveryAskerIsOnScreen /\ prompt \in Slots \cup {NoSlot}
  BY <1>1, PathsAssumption DEF Init, EveryAskerIsOnScreen, At
<1>3. ipc = << >> /\ dirty = FALSE /\ backendDirty = FALSE  BY DEF Init
<1>4. << >> \in Seq(Calls) /\ Len(<< >>) = 0  BY EmptySeq
<1>5. QueueOK(<< >>, flows, FALSE, FALSE)
  BY <1>4 DEF QueueOK, InFlight, Once, First, Mirrored
<1> QED  BY <1>2, <1>3, <1>5 DEF FlowsOK

\* Every item of the file menu, and the close, keeps flows and queue in step: the question
\* it replaces is answered for the flow that asked it.
LEMMA StartKeepsFlows ==
  ASSUME FlowsOK, TypeInv, Start
  PROVE  FlowsOK'
<1>0. /\ flows \in [Slots -> Flows] /\ dirty \in BOOLEAN /\ backendDirty \in BOOLEAN
      /\ prompt \in Slots \cup {NoSlot} /\ EveryAskerIsOnScreen
      /\ QueueOK(ipc, flows, backendDirty, dirty)
  BY DEF FlowsOK
<1>b. backendDirty' = backendDirty  BY DEF Start
<1>p. {"idle", "asked", "picking", "loading", "closing", "writing", "pickSave"} \subseteq Steps
  BY DEF Steps
<1>k. {"none", "new", "open", "recent", "close", "save"} \subseteq Kinds  BY DEF Kinds
<1>f. PICK f \in Slots : /\ At(f, "idle")
                         /\ StartNew(f) \/ StartOpen(f) \/ StartRecent(f) \/ StartClose(f) \/ StartSave(f)
  BY DEF Start
<1>i. /\ flows[f].pc = "idle" /\ prompt # f
      /\ \A c \in InFlight(ipc) : c.slot # f
  BY <1>0, <1>f, NoCallOf DEF At, EveryAskerIsOnScreen
<1>1. ASSUME NEW kind \in {"new", "open", "recent", "close"}, NEW p \in Paths \cup {NoPath},
             Ask(f, kind, p), dirty' = dirty
      PROVE  FlowsOK'
  <2> DEFINE new == Flow("asked", kind, p, Absent)
  <2>1. new \in Flows /\ new.pc = "asked"  BY <1>p, <1>k, <1>1, FlowFields DEF Absent
  <2>2. Idle \in Flows /\ Idle.pc # "asked"  BY IdleFields
  <2>3. /\ prompt' = f
        /\ flows' = [s \in Slots |-> IF s = f THEN new ELSE IF s = prompt THEN Idle ELSE flows[s]]
    BY <1>1 DEF Ask
  <2> HIDE DEF new
  <2>5. flows' \in [Slots -> Flows]  BY <1>0, <2>1, <2>2, <2>3
  <2>6. EveryAskerIsOnScreen'
    <3> SUFFICES ASSUME NEW s \in Slots PROVE flows'[s].pc = "asked" <=> f = s
      BY <2>3 DEF EveryAskerIsOnScreen, At
    <3>1. CASE s = f  BY <2>1, <2>3, <3>1
    <3>2. CASE s # f /\ s = prompt  BY <2>2, <2>3, <3>2
    <3>3. CASE s # f /\ s # prompt  BY <1>0, <2>3, <3>3 DEF EveryAskerIsOnScreen, At
    <3> QED  BY <3>1, <3>2, <3>3
  <2>7. \A c \in InFlight(ipc) : c.slot # NoSlot => flows'[c.slot] = flows[c.slot]
    <3>1. \A c \in InFlight(ipc) : c.slot # NoSlot => c.slot \in Slots
      <4>1. ipc \in Seq(Calls)  BY <1>0 DEF QueueOK
      <4> QED  BY <4>1, FlightIsCalls DEF Calls
    <3>2. CASE prompt = NoSlot  BY <1>i, <2>3, <3>1, <3>2, PathsAssumption
    <3>3. CASE prompt # NoSlot
      <4>1. \A c \in InFlight(ipc) : c.slot # prompt
        <5>1. prompt \in Slots /\ flows[prompt].pc = "asked"
          BY <1>0, <3>3 DEF EveryAskerIsOnScreen, At
        <5> QED  BY <5>1, <1>0, NoCallOf
      <4> QED  BY <4>1, <1>i, <2>3, <3>1
    <3> QED  BY <3>2, <3>3
  <2>8. QueueOK(ipc, flows', backendDirty, dirty)  BY <1>0, <2>7, Moves
  <2>9. ipc' = Append(ipc, Clear(NoSlot)) \/ ipc' = ipc  BY <1>1 DEF Ask
  <2>10. QueueOK(ipc', flows', backendDirty, dirty)  BY <2>8, <2>9, QueueClears
  <2>11. prompt' \in Slots \cup {NoSlot}  BY <2>3
  <2> QED  BY <1>0, <1>b, <1>1, <2>5, <2>6, <2>10, <2>11 DEF FlowsOK
<1>n. UNCHANGED prompt => prompt' = IF prompt = f THEN NoSlot ELSE prompt  BY <1>i
<1>2. CASE StartNew(f)
  <2>1. CASE dirty  BY <1>1, <1>2, <2>1 DEF StartNew, store
  <2>2. CASE ~dirty
    <3>1. dirty' = FALSE /\ ipc' = Append(ipc, Clear(NoSlot)) /\ UNCHANGED <<flows, prompt>>
      BY <1>2, <2>2 DEF StartNew, Replace
    <3>2. dirty = FALSE  BY <1>0, <2>2
    <3>3. QueueOK(ipc', flows, backendDirty, FALSE)  BY <1>0, <3>1, <3>2, QueueClears
    <3> QED  BY <1>0, <1>b, <3>1, <3>3 DEF FlowsOK, EveryAskerIsOnScreen, At
  <2> QED  BY <2>1, <2>2
<1>3. CASE StartOpen(f)
  <2>1. CASE Ask(f, "open", NoPath)  BY <1>1, <1>3, <2>1 DEF StartOpen, store
  <2>2. CASE flows' = [flows EXCEPT ![f] = Flow("picking", "open", NoPath, Absent)]
             /\ UNCHANGED <<prompt, ipc>>
    <3> DEFINE new == Flow("picking", "open", NoPath, Absent)
    <3>1. new \in Flows /\ new.pc = "picking" /\ new.kind = "open"
      BY <1>p, <1>k, FlowFields DEF Absent
    <3>2. dirty' = dirty  BY <1>3 DEF StartOpen, store
    <3> HIDE DEF new
    <3>3. OnlyFlow(f, "picking", "open")  BY <1>0, <2>2, <3>1 DEF OnlyFlow, new
    <3>4. QueueOK(ipc, flows', backendDirty, dirty)  BY <1>0, <1>i, <3>3, QueueMoves
    <3> QED  BY <1>0, <1>b, <1>n, <1>p, <1>k, <2>2, <3>2, <3>3, <3>4, OneFlowSuffices
  <2> QED  BY <1>3, <2>1, <2>2 DEF StartOpen
<1>4. CASE StartRecent(f)
  <2>p. PICK p \in Paths :
       \/ /\ dirty /\ Ask(f, "recent", p)
       \/ /\ ~dirty
          /\ flows' = [flows EXCEPT ![f] = Flow("loading", "recent", p, Absent)]
          /\ ipc' = Append(ipc, Call("load_project", f, p, Absent)) /\ UNCHANGED prompt
    BY <1>4 DEF StartRecent
  <2>1. dirty' = dirty  BY <1>4 DEF StartRecent, store
  <2>2. CASE Ask(f, "recent", p)  BY <1>1, <2>1, <2>2
  <2>3. CASE ~Ask(f, "recent", p)
    <3> DEFINE new == Flow("loading", "recent", p, Absent)
               c == Call("load_project", f, p, Absent)
    <3>1. new \in Flows /\ new.pc = "loading" /\ new.kind = "recent"
      BY <1>p, <1>k, FlowFields DEF Absent
    <3>2. flows' = [flows EXCEPT ![f] = new] /\ ipc' = Append(ipc, c) /\ UNCHANGED prompt
      BY <2>p, <2>3
    <3>3. c \in Calls /\ c.slot = f /\ c.cmd = "load_project"
      BY CallFields DEF Commands, Absent
    <3> HIDE DEF new, c
    <3>4. OnlyFlow(f, "loading", "recent")  BY <1>0, <3>1, <3>2 DEF OnlyFlow
    <3>5. QueueOK(ipc', flows', backendDirty, dirty)  BY <1>0, <1>i, <3>2, <3>3, <3>4, QueueCalls
    <3> QED  BY <1>0, <1>b, <1>n, <1>p, <1>k, <2>1, <3>2, <3>4, <3>5, OneFlowSuffices
  <2> QED  BY <2>2, <2>3
<1>5. CASE StartClose(f)
  <2>1. dirty' = dirty  BY <1>5 DEF StartClose, store
  <2>2. CASE Ask(f, "close", NoPath)  BY <1>1, <2>1, <2>2
  <2>3. CASE ~Ask(f, "close", NoPath)
    <3> DEFINE new == Flow("closing", "close", NoPath, Absent)
    <3>0. "closing" \in Steps /\ "close" \in Kinds /\ NoPath \in Paths \cup {NoPath} /\ Absent \in Int
      BY <1>p, <1>k DEF Absent
    <3>1. new \in Flows /\ new.pc = "closing" /\ new.kind = "close"  BY <3>0, FlowFields
    <3>2. flows' = [flows EXCEPT ![f] = new] /\ UNCHANGED <<prompt, ipc>>
      BY <1>5, <2>3 DEF StartClose
    <3> HIDE DEF new
    <3>3. OnlyFlow(f, "closing", "close")  BY <1>0, <3>1, <3>2 DEF OnlyFlow
    <3>4. QueueOK(ipc, flows', backendDirty, dirty)  BY <1>0, <1>i, <3>3, QueueMoves
    <3> QED  BY <1>0, <1>b, <1>n, <1>p, <1>k, <2>1, <3>2, <3>3, <3>4, OneFlowSuffices
  <2> QED  BY <2>2, <2>3
<1>6. CASE StartSave(f)
  <2>1. dirty' = dirty /\ UNCHANGED prompt  BY <1>6 DEF StartSave, store
  <2>2. /\ \E pc \in {"writing", "pickSave"} : OnlyFlow(f, pc, "save")
        /\ QueueOK(ipc', flows', backendDirty, dirty)
    BY <1>6, <1>i, <1>k, SaveKeeps DEF StartSave
  <2> QED  BY <1>0, <1>b, <1>n, <1>p, <1>k, <2>1, <2>2, OneFlowSuffices
<1> QED  BY <1>f, <1>2, <1>3, <1>4, <1>5, <1>6

\* So does an answer to the guard or to the offer.
LEMMA AnswersKeepFlows ==
  ASSUME FlowsOK, TypeInv, AnswerGuard \/ AnswerOffer
  PROVE  FlowsOK'
<1> DEFINE f == prompt
<1>0. /\ f \in Slots /\ flows[f] \in Flows /\ flows[f].pc = "asked" /\ dirty \in BOOLEAN
      /\ backendDirty' = backendDirty /\ backendDirty \in BOOLEAN
      /\ QueueOK(ipc, flows, backendDirty, dirty) /\ ipc \in Seq(Calls)
      /\ prompt' = NoSlot
  BY DEF FlowsOK, QueueOK, AnswerGuard, AnswerOffer, EveryAskerIsOnScreen, At
<1> HIDE DEF f
<1>1. /\ \A c \in InFlight(ipc) : c.slot # f
      /\ prompt' = IF prompt = f THEN NoSlot ELSE prompt
  BY <1>0, NoCallOf DEF f
<1>p. /\ {"idle", "picking", "loading", "closing", "writing", "pickSave"} \subseteq Steps
      /\ "none" \in Kinds /\ flows[f].kind \in Kinds
  BY <1>0 DEF Steps, Kinds, Flows
<1>2. CASE AnswerGuard
  <2>1. \/ Finish(f) /\ UNCHANGED <<store, ipc>>
        \/ Proceed(f, ipc, FALSE)
        \/ Save(f, flows[f].kind) /\ UNCHANGED store
    BY <1>2 DEF AnswerGuard, f
  <2>2. CASE Finish(f) /\ UNCHANGED <<store, ipc>>
    <3>1. OnlyFlow(f, "idle", "none") /\ dirty' = dirty /\ ipc' = ipc
      BY <1>0, <2>2, FinishMoves DEF store
    <3>2. QueueOK(ipc', flows', backendDirty, dirty)  BY <1>0, <1>1, <3>1, QueueMoves
    <3> QED  BY <1>0, <1>1, <1>p, <3>1, <3>2, OneFlowSuffices
  <2>3. CASE Proceed(f, ipc, FALSE)
    <3>1. /\ \E pc \in {"idle", "picking", "loading", "closing"}, kind \in Kinds : OnlyFlow(f, pc, kind)
          /\ dirty' \in BOOLEAN
          /\ QueueOK(ipc', flows', backendDirty, dirty')
      BY <1>0, <1>1, <2>3, ProceedKeeps
    <3> QED  BY <1>0, <1>1, <1>p, <3>1, OneFlowSuffices
  <2>4. CASE Save(f, flows[f].kind) /\ UNCHANGED store
    <3>1. dirty' = dirty  BY <2>4 DEF store
    <3>2. /\ \E pc \in {"writing", "pickSave"} : OnlyFlow(f, pc, flows[f].kind)
          /\ QueueOK(ipc', flows', backendDirty, dirty)
      BY <1>0, <1>p, <2>4, SaveKeeps
    <3> QED  BY <1>0, <1>1, <1>p, <3>1, <3>2, OneFlowSuffices
  <2> QED  BY <2>1, <2>2, <2>3, <2>4
<1>3. CASE AnswerOffer
  <2>1. OnlyFlow(f, "idle", "none")  BY <1>0, <1>3, FinishMoves DEF AnswerOffer, f
  <2>2. QueueOK(ipc, flows', backendDirty, dirty)  BY <1>0, <1>1, <2>1, QueueMoves
  <2>3. CASE dirty' = TRUE /\ ipc' = ipc \o Mirror(TRUE) \o <<Clear(NoSlot)>>
    <3> DEFINE r == ipc \o Mirror(TRUE)
    <3>1. QueueOK(r, flows', backendDirty, TRUE)  BY <1>0, <2>2, Mirrors
    <3>2. r \in Seq(Calls)  BY <3>1 DEF QueueOK
    <3>3. ipc' = r \o <<Clear(NoSlot)>>  BY <2>3
    <3> HIDE DEF r
    <3>4. ipc' = Append(r, Clear(NoSlot))  BY <3>2, <3>3, ClearFields, OneCall
    <3>5. QueueOK(ipc', flows', backendDirty, TRUE)  BY <3>1, <3>4, QueueClears
    <3> QED  BY <1>0, <1>1, <1>p, <2>1, <2>3, <3>5, OneFlowSuffices
  <2>4. CASE dirty' = dirty /\ ipc' = Append(ipc, Clear(NoSlot))
    <3>1. QueueOK(ipc', flows', backendDirty, dirty)  BY <2>2, <2>4, QueueClears
    <3> QED  BY <1>0, <1>1, <1>p, <2>1, <2>4, <3>1, OneFlowSuffices
  <2> QED  BY <1>3, <2>3, <2>4 DEF AnswerOffer, Replace, store
<1> QED  BY <1>2, <1>3

\* So does an answer to a native dialog.
LEMMA PickPathKeepsFlows ==
  ASSUME FlowsOK, TypeInv, PickPath
  PROVE  FlowsOK'
<1>f. PICK f \in Slots :
    /\ \/ /\ At(f, "picking")
          /\ \/ Finish(f) /\ UNCHANGED ipc
             \/ \E p \in Paths :
                  /\ flows' = [flows EXCEPT ![f] = Flow("loading", @.kind, p, Absent)]
                  /\ ipc' = Append(ipc, Call("load_project", f, p, Absent))
       \/ /\ At(f, "pickSave")
          /\ \/ Finish(f) /\ UNCHANGED ipc
             \/ \E p \in Paths : WriteTo(f, flows[f].kind, p)
    /\ UNCHANGED <<store, timer, prompt, backendDirty, files, made>>
  BY DEF PickPath
<1>0. /\ flows \in [Slots -> Flows] /\ flows[f] \in Flows /\ dirty' = dirty /\ dirty \in BOOLEAN
      /\ backendDirty' = backendDirty /\ backendDirty \in BOOLEAN /\ prompt' = prompt
      /\ QueueOK(ipc, flows, backendDirty, dirty)
      /\ flows[f].pc \in {"picking", "pickSave"} /\ EveryAskerIsOnScreen
  BY <1>f DEF FlowsOK, store, At
<1>1. /\ \A c \in InFlight(ipc) : c.slot # f
      /\ prompt' = IF prompt = f THEN NoSlot ELSE prompt
  BY <1>0, NoCallOf DEF EveryAskerIsOnScreen, At
<1>p. /\ {"idle", "loading", "writing", "pickSave"} \subseteq Steps
      /\ "none" \in Kinds /\ flows[f].kind \in Kinds
  BY <1>0 DEF Steps, Kinds, Flows
<1>2. CASE Finish(f) /\ UNCHANGED ipc
  <2>1. OnlyFlow(f, "idle", "none") /\ ipc' = ipc  BY <1>2, FinishMoves
  <2>2. QueueOK(ipc', flows', backendDirty, dirty)  BY <1>0, <1>1, <2>1, QueueMoves
  <2> QED  BY <1>0, <1>1, <1>p, <2>1, <2>2, OneFlowSuffices
<1>3. ASSUME NEW p \in Paths,
             flows' = [flows EXCEPT ![f] = Flow("loading", @.kind, p, Absent)],
             ipc' = Append(ipc, Call("load_project", f, p, Absent))
      PROVE  FlowsOK'
  <2> DEFINE new == Flow("loading", flows[f].kind, p, Absent)
             c == Call("load_project", f, p, Absent)
  <2>0. p \in Paths \cup {NoPath} /\ Absent \in Int /\ "load_project" \in Commands
    BY DEF Absent, Commands
  <2>1. new \in Flows /\ new.pc = "loading" /\ new.kind = flows[f].kind  BY <1>p, <2>0, FlowFields
  <2>2. c \in Calls /\ c.slot = f /\ c.cmd = "load_project"  BY <2>0, CallFields
  <2>3. flows' = [flows EXCEPT ![f] = new] /\ ipc' = Append(ipc, c)  BY <1>0, <1>3
  <2> HIDE DEF new, c
  <2>4. OnlyFlow(f, "loading", flows[f].kind)  BY <1>0, <2>1, <2>3 DEF OnlyFlow
  <2>5. QueueOK(ipc', flows', backendDirty, dirty)  BY <1>0, <1>1, <2>2, <2>3, <2>4, QueueCalls
  <2> QED  BY <1>0, <1>1, <1>p, <2>4, <2>5, OneFlowSuffices
<1>4. ASSUME NEW p \in Paths, WriteTo(f, flows[f].kind, p) PROVE FlowsOK'
  <2>1. /\ \E pc \in {"writing", "pickSave"} : OnlyFlow(f, pc, flows[f].kind)
        /\ QueueOK(ipc', flows', backendDirty, dirty)
    BY <1>0, <1>p, <1>4, SaveKeeps
  <2> QED  BY <1>0, <1>1, <1>p, <2>1, OneFlowSuffices
<1> QED  BY <1>f, <1>2, <1>3, <1>4

\* So does an edit, whose flag is mirrored.
LEMMA EditsKeepFlows ==
  ASSUME FlowsOK, TypeInv, Edit \/ DragMove \/ DragEnd
  PROVE  FlowsOK'
<1>0. /\ dirty \in BOOLEAN /\ QueueOK(ipc, flows, backendDirty, dirty)
      /\ UNCHANGED <<flows, prompt, backendDirty>>
  BY DEF FlowsOK, Edit, DragMove, DragEnd, web
<1>1. \/ dirty' = TRUE /\ ipc' = ipc \o Mirror(TRUE)
      \/ dirty' = dirty /\ ipc' = ipc
  BY DEF Edit, DragMove, DragEnd
<1>2. QueueOK(ipc', flows, backendDirty, dirty') /\ dirty' \in BOOLEAN
  BY <1>0, <1>1, Mirrors
<1> QED  BY <1>0, <1>2 DEF FlowsOK, EveryAskerIsOnScreen, At

\* What a sequence of one element holds.
LEMMA OneElement ==
  ASSUME NEW c \in Calls
  PROVE  /\ <<c>> \in Seq(Calls) /\ Len(<<c>>) = 1 /\ <<c>>[1] = c /\ InFlight(<<c>>) = {c}
BY DEF InFlight

\* An autosave put before the calls under way is the first of them.
LEMMA PutCalls ==
  ASSUME NEW q \in Seq(Calls), NEW c \in Calls
  PROVE  LET r == <<c>> \o q IN
         /\ r \in Seq(Calls) /\ Len(r) = Len(q) + 1 /\ Len(q) \in Nat /\ r[1] = c
         /\ \A i \in 1 .. Len(q) : r[i + 1] = q[i]
         /\ InFlight(r) = {c} \cup InFlight(q)
<1> DEFINE r == <<c>> \o q
<1>1. <<c>> \in Seq(Calls) /\ Len(<<c>>) = 1 /\ <<c>>[1] = c  BY OneElement
<1>2. Len(q) \in Nat  BY LenProperties
<1>3. r \in Seq(Calls) /\ Len(r) = 1 + Len(q)
      /\ \A i \in 1 .. Len(r) : r[i] = IF i <= 1 THEN <<c>>[i] ELSE q[i - 1]
  BY <1>1, ConcatProperties
<1> HIDE DEF r
<1>4. r[1] = c /\ \A i \in 1 .. Len(q) : r[i + 1] = q[i]
  BY <1>1, <1>2, <1>3
<1>5. \A i \in 1 .. Len(r) : i = 1 \/ (i - 1 \in 1 .. Len(q) /\ r[i] = q[i - 1])
  BY <1>2, <1>3
<1>6. \A i \in 1 .. Len(q) : i + 1 \in 1 .. Len(r)  BY <1>2, <1>3
<1>7. 1 \in 1 .. Len(r)  BY <1>2, <1>3
<1>8. InFlight(r) = {c} \cup InFlight(q)
  BY <1>4, <1>5, <1>6, <1>7 DEF InFlight
<1> QED  BY <1>2, <1>3, <1>4, <1>8 DEF r

\* So does the autosave timer.
LEMMA TimerKeepsFlows ==
  ASSUME FlowsOK, TypeInv, TimerFires
  PROVE  FlowsOK'
<1> DEFINE c == Call("autosave_recovery", NoSlot, path, doc)
<1>0. /\ dirty \in BOOLEAN /\ QueueOK(ipc, flows, backendDirty, dirty)
      /\ UNCHANGED <<flows, prompt, backendDirty, dirty>> /\ ipc = << >>
      /\ ipc' = IF dirty THEN <<c>> ELSE << >>
  BY DEF FlowsOK, TimerFires, store, Settled
<1>1. c \in Calls /\ c.slot = NoSlot /\ c.cmd = "autosave_recovery"
  <2>1. path \in Paths \cup {NoPath} /\ doc \in Int  BY DEF TypeInv, Made
  <2> QED  BY <2>1, CallFields DEF Commands
<1>2. backendDirty = dirty
  BY <1>0 DEF QueueOK, Mirrored
<1> HIDE DEF c
<1>3. QueueOK(<<c>>, flows, backendDirty, dirty)
  <2>1. /\ <<c>> \in Seq(Calls) /\ Len(<<c>>) = 1 /\ <<c>>[1] = c /\ InFlight(<<c>>) = {c}
    BY <1>1, OneElement
  <2>2. Awaiting(c, flows)  BY <1>1 DEF Awaiting
  <2>3. Once(<<c>>) /\ First(<<c>>)  BY <2>1 DEF Once, First
  <2>4. Mirrored(<<c>>, backendDirty, dirty)  BY <1>1, <1>2, <2>1 DEF Mirrored
  <2> QED  BY <2>1, <2>2, <2>3, <2>4 DEF QueueOK
<1> QED  BY <1>0, <1>3 DEF FlowsOK, EveryAskerIsOnScreen, At

-----------------------------------------------------------------------------
(* The backend executes the first call. *)

\* What is left of the queue, and where the flow of the call stands.
LEMMA ExecPops ==
  ASSUME FlowsOK, ipc # << >>
  PROVE  /\ flows \in [Slots -> Flows] /\ prompt \in Slots \cup {NoSlot}
         /\ dirty \in BOOLEAN /\ backendDirty \in BOOLEAN
         /\ Head(ipc) \in Calls /\ Head(ipc) \in InFlight(ipc)
         /\ InFlight(ipc) = {Head(ipc)} \cup InFlight(Tail(ipc))
         /\ Tail(ipc) \in Seq(Calls)
         /\ \A c \in InFlight(Tail(ipc)) : c.cmd \notin Autosaves
         /\ QueueOK(Tail(ipc), flows, IF Head(ipc).cmd = "set_dirty" THEN Head(ipc).doc = 1
                                      ELSE backendDirty, dirty)
         /\ Head(ipc).slot # NoSlot =>
              /\ Head(ipc).slot \in Slots /\ prompt # Head(ipc).slot
              /\ flows[Head(ipc).slot] \in Flows
              /\ \A c \in InFlight(Tail(ipc)) : c.slot # Head(ipc).slot
         /\ Head(ipc).cmd \in {"save_project", "load_project", "push_recent"} => Head(ipc).slot # NoSlot
         /\ Awaiting(Head(ipc), flows)
<1>0. /\ QueueOK(ipc, flows, backendDirty, dirty) /\ flows \in [Slots -> Flows]
      /\ prompt \in Slots \cup {NoSlot} /\ dirty \in BOOLEAN /\ backendDirty \in BOOLEAN
      /\ EveryAskerIsOnScreen
  BY DEF FlowsOK
<1>1. /\ QueueOK(Tail(ipc), flows, IF Head(ipc).cmd = "set_dirty" THEN Head(ipc).doc = 1
                                   ELSE backendDirty, dirty)
      /\ \A c \in InFlight(Tail(ipc)) : c.cmd \notin Autosaves
      /\ Head(ipc).slot # NoSlot => \A c \in InFlight(Tail(ipc)) : c.slot # Head(ipc).slot
      /\ Head(ipc) \in Calls /\ Awaiting(Head(ipc), flows) /\ Head(ipc) \in InFlight(ipc)
      /\ InFlight(ipc) = {Head(ipc)} \cup InFlight(Tail(ipc))
  BY <1>0, Pops
<1>2. Tail(ipc) \in Seq(Calls)  BY <1>1 DEF QueueOK
<1>3. Head(ipc).slot \in Slots \cup {NoSlot}  BY <1>1 DEF Calls
<1>4. Head(ipc).cmd \in {"save_project", "load_project", "push_recent"} => Head(ipc).slot # NoSlot
  BY <1>1 DEF Awaiting
<1>5. ASSUME Head(ipc).slot # NoSlot
      PROVE  Head(ipc).slot \in Slots /\ prompt # Head(ipc).slot /\ flows[Head(ipc).slot] \in Flows
  <2>1. Head(ipc).slot \in Slots  BY <1>3, <1>5
  <2>2. flows[Head(ipc).slot].pc # "asked"  BY <1>1, <1>5 DEF Awaiting
  <2> QED  BY <1>0, <2>1, <2>2 DEF EveryAskerIsOnScreen, At
<1> QED  BY <1>0, <1>1, <1>2, <1>4, <1>5

\* So does every command of the backend: its answer meets the flow that waits for it.
LEMMA ExecKeepsFlows ==
  ASSUME FlowsOK, TypeInv, Exec
  PROVE  FlowsOK'
<1> DEFINE h == Head(ipc)
           f == Head(ipc).slot
           t == Tail(ipc)
<1>e. ipc # << >>
  BY DEF Exec, ExecSetDirty, ExecSave, ExecSaveFails, ExecLoad, ExecRecent, ExecClear,
         ExecRemove, ExecAutosaveDoc, ExecAutosaveMeta, ExecAutosaveFails, Executes
<1>0. /\ flows \in [Slots -> Flows] /\ prompt \in Slots \cup {NoSlot}
      /\ dirty \in BOOLEAN /\ backendDirty \in BOOLEAN
      /\ h \in Calls /\ h \in InFlight(ipc) /\ t \in Seq(Calls)
      /\ QueueOK(t, flows, IF h.cmd = "set_dirty" THEN h.doc = 1 ELSE backendDirty, dirty)
      /\ f # NoSlot => /\ f \in Slots /\ prompt # f /\ flows[f] \in Flows
                       /\ \A c \in InFlight(t) : c.slot # f
      /\ h.cmd \in {"save_project", "load_project", "push_recent"} => f # NoSlot
      /\ EveryAskerIsOnScreen
  BY <1>e, ExecPops DEF FlowsOK
<1>a. ASSUME h.cmd # "set_dirty" PROVE QueueOK(t, flows, backendDirty, dirty)
  BY <1>0, <1>a
<1>c. \A c \in InFlight(t) : c.cmd \notin Autosaves  BY <1>e, ExecPops
<1>w. Awaiting(h, flows)  BY <1>e, ExecPops
<1>p. /\ {"idle", "recording", "opened", "clearing", "picking", "loading", "closing"} \subseteq Steps
      /\ "none" \in Kinds /\ (f # NoSlot => flows[f].kind \in Kinds)
  BY <1>0 DEF Steps, Kinds, Flows
<1>h. h.path \in Paths \cup {NoPath} /\ h.slot = f  BY <1>0 DEF Calls
<1>1. CASE ExecSetDirty
  <2>1. /\ h.cmd = "set_dirty" /\ backendDirty' = (h.doc = 1) /\ ipc' = t
        /\ UNCHANGED <<dirty, flows, prompt>>
    BY <1>1 DEF ExecSetDirty, Executes, store, web
  <2>2. QueueOK(ipc', flows, backendDirty', dirty)  BY <1>0, <2>1
  <2>3. backendDirty' \in BOOLEAN  BY <2>1
  <2> QED  BY <1>0, <2>1, <2>2, <2>3 DEF FlowsOK, EveryAskerIsOnScreen, At
<1> HIDE DEF h, f, t
\* The calls of a flow.
<1>g. ASSUME f # NoSlot, prompt' = prompt, backendDirty' = backendDirty, dirty' \in BOOLEAN,
             NEW pc \in Steps, NEW kind \in Kinds, pc # "asked", OnlyFlow(f, pc, kind),
             QueueOK(ipc', flows', backendDirty, dirty')
      PROVE  FlowsOK'
  <2>1. f \in Slots /\ prompt' = IF prompt = f THEN NoSlot ELSE prompt  BY <1>0, <1>g
  <2> QED  BY <1>0, <1>g, <2>1, OneFlowSuffices
<1>r. ASSUME f # NoSlot, NEW pc \in {"recording", "opened"}, NEW p \in Paths \cup {NoPath}, h.cmd # "set_dirty",
             OnlyFlow(f, pc, flows[f].kind),
             ipc' = t \o Mirror(FALSE) \o <<Call("push_recent", f, p, Absent)>>
      PROVE  QueueOK(ipc', flows', backendDirty, FALSE)
  <2> DEFINE r == t \o Mirror(FALSE)
             c == Call("push_recent", f, p, Absent)
  <2>1. c \in Calls /\ c.slot = f /\ c.cmd = "push_recent"
    BY <1>0, <1>r, CallFields DEF Absent, Commands
  <2>2. QueueOK(t, flows, backendDirty, dirty) /\ f \in Slots /\ \A d \in InFlight(t) : d.slot # f
    BY <1>0, <1>a, <1>r
  <2>3. QueueOK(r, flows, backendDirty, FALSE)  BY <1>0, <2>2, Mirrors
  <2>4. \A d \in InFlight(r) : d.slot # f
    <3> DEFINE m == Call("set_dirty", NoSlot, NoPath, IF FALSE THEN 1 ELSE 0)
    <3>1. m \in Calls /\ m.slot = NoSlot  BY CallFields DEF Commands
    <3>2. r = t \/ r = Append(t, m)  BY <1>0, MirrorCalls
    <3>3. InFlight(Append(t, m)) = InFlight(t) \cup {m}  BY <1>0, <3>1, AppendCalls
    <3> HIDE DEF m, r
    <3> QED  BY <1>r, <2>2, <3>1, <3>2, <3>3
  <2>5. r \in Seq(Calls)  BY <2>3 DEF QueueOK
  <2>6. ipc' = r \o <<c>>  BY <1>r
  <2> HIDE DEF r, c
  <2>7. ipc' = Append(r, c)  BY <2>1, <2>5, <2>6, OneCall
  <2> QED  BY <1>r, <2>1, <2>2, <2>3, <2>4, <2>7, QueueCalls
<1>2. CASE ExecSave
  <2>1. /\ h.cmd = "save_project" /\ Goto(f, "recording") /\ dirty' = FALSE
        /\ ipc' = t \o Mirror(FALSE) \o <<Call("push_recent", f, h.path, Absent)>>
        /\ prompt' = prompt /\ backendDirty' = backendDirty
    BY <1>2 DEF ExecSave, Executes, SaveLands, h, f, t
  <2>2. OnlyFlow(f, "recording", flows[f].kind)  BY <1>0, <1>p, <2>1, GotoMoves
  <2>3. QueueOK(ipc', flows', backendDirty, FALSE)  BY <1>0, <1>h, <1>r, <2>1, <2>2
  <2> QED  BY <1>0, <1>g, <1>p, <2>1, <2>2, <2>3
<1>3. CASE ExecSaveFails
  <2>1. /\ h.cmd = "save_project" /\ Finish(f) /\ dirty' = dirty /\ ipc' = t
        /\ prompt' = prompt /\ backendDirty' = backendDirty
    BY <1>3 DEF ExecSaveFails, Executes, store, h, f, t
  <2>2. OnlyFlow(f, "idle", "none")  BY <1>0, <2>1, FinishMoves
  <2>3. QueueOK(ipc', flows', backendDirty, dirty)  BY <1>0, <1>a, <2>1, <2>2, QueueMoves
  <2> QED  BY <1>0, <1>g, <1>p, <2>1, <2>2, <2>3
<1>4. CASE ExecLoad
  <2>0. h.cmd = "load_project" /\ prompt' = prompt /\ backendDirty' = backendDirty
    BY <1>4 DEF ExecLoad, Executes, h
  <2>1. CASE Finish(f) /\ ipc' = t /\ UNCHANGED store
    <3>1. OnlyFlow(f, "idle", "none") /\ dirty' = dirty  BY <1>0, <2>0, <2>1, FinishMoves DEF store
    <3>2. QueueOK(ipc', flows', backendDirty, dirty)  BY <1>0, <1>a, <2>0, <2>1, <3>1, QueueMoves
    <3> QED  BY <1>0, <1>g, <1>p, <2>0, <3>1, <3>2
  <2>2. CASE /\ dirty' = FALSE /\ Goto(f, "opened")
             /\ ipc' = t \o Mirror(FALSE) \o <<Call("push_recent", f, h.path, Absent)>>
    <3>1. OnlyFlow(f, "opened", flows[f].kind)  BY <1>0, <1>p, <2>0, <2>2, GotoMoves
    <3>2. QueueOK(ipc', flows', backendDirty, FALSE)  BY <1>0, <1>h, <1>r, <2>0, <2>2, <3>1
    <3> QED  BY <1>0, <1>g, <1>p, <2>0, <2>2, <3>1, <3>2
  <2> QED  BY <1>4, <2>1, <2>2 DEF ExecLoad, Replace, h, f, t
<1>5. CASE ExecRecent
  <2>0. /\ h.cmd = "push_recent" /\ prompt' = prompt /\ backendDirty' = backendDirty /\ dirty' = dirty
        /\ QueueOK(t, flows, backendDirty, dirty)
    BY <1>5, <1>a DEF ExecRecent, Executes, store, h
  <2>1. CASE Goto(f, "clearing") /\ ipc' = Append(t, Clear(f))
    <3>1. OnlyFlow(f, "clearing", flows[f].kind)  BY <1>0, <1>p, <2>0, <2>1, GotoMoves
    <3>2. Clear(f) \in Calls /\ Clear(f).slot = f /\ Clear(f).cmd = "clear_recovery"
      BY <1>0, <2>0, ClearFields
    <3>3. QueueOK(ipc', flows', backendDirty, dirty)  BY <1>0, <2>0, <2>1, <3>1, <3>2, QueueCalls
    <3> QED  BY <1>0, <1>g, <1>p, <2>0, <3>1, <3>3
  <2>2. CASE Finish(f) /\ ipc' = Append(t, Clear(NoSlot))
    <3>1. OnlyFlow(f, "idle", "none")  BY <1>0, <2>0, <2>2, FinishMoves
    <3>2. QueueOK(t, flows', backendDirty, dirty)  BY <1>0, <2>0, <3>1, QueueMoves
    <3>3. QueueOK(ipc', flows', backendDirty, dirty)  BY <2>2, <3>2, QueueClears
    <3> QED  BY <1>0, <1>g, <1>p, <2>0, <3>1, <3>3
  <2> QED  BY <1>5, <2>1, <2>2 DEF ExecRecent, h, f, t
<1>6. CASE ExecClear
  <2>0. /\ h.cmd = "clear_recovery" /\ prompt' = prompt /\ backendDirty' = backendDirty
        /\ QueueOK(t, flows, backendDirty, dirty)
    BY <1>6, <1>a DEF ExecClear, Executes, h
  <2>1. CASE f = NoSlot /\ ipc' = t /\ UNCHANGED <<store, flows>>
    BY <1>0, <2>0, <2>1 DEF FlowsOK, EveryAskerIsOnScreen, At, store
  <2>2. CASE f # NoSlot /\ Finish(f) /\ ipc' = t /\ UNCHANGED store
    <3>1. OnlyFlow(f, "idle", "none") /\ dirty' = dirty  BY <1>0, <2>2, FinishMoves DEF store
    <3>2. QueueOK(ipc', flows', backendDirty, dirty)  BY <1>0, <2>0, <2>2, <3>1, QueueMoves
    <3> QED  BY <1>0, <1>g, <1>p, <2>0, <2>2, <3>1, <3>2
  <2>3. CASE f # NoSlot /\ Proceed(f, t, owed)
    <3>1. /\ \E pc \in {"idle", "picking", "loading", "closing"}, kind \in Kinds : OnlyFlow(f, pc, kind)
          /\ dirty' \in BOOLEAN
          /\ QueueOK(ipc', flows', backendDirty, dirty')
      BY <1>0, <2>0, <2>3, ProceedKeeps
    <3> QED  BY <1>0, <1>g, <1>p, <2>0, <2>3, <3>1
  <2> QED  BY <1>6, <2>1, <2>2, <2>3 DEF ExecClear, h, f, t
<1>7. CASE ExecAutosaveDoc
  <2> DEFINE m == [h EXCEPT !.cmd = "autosave_meta"]
  <2>1. /\ h.cmd = "autosave_recovery" /\ ipc' = <<m>> \o t
        /\ UNCHANGED <<dirty, flows, prompt, backendDirty>>
    BY <1>7 DEF ExecAutosaveDoc, Executes, store, web, h, t
  <2>2. m \in Calls /\ m.cmd = "autosave_meta" /\ m.slot = NoSlot
    BY <1>0, <1>w, <2>1 DEF Calls, Commands, Awaiting
  <2> HIDE DEF m
  <2>3. /\ ipc' \in Seq(Calls) /\ Len(ipc') = Len(t) + 1 /\ Len(t) \in Nat /\ ipc'[1] = m
        /\ \A i \in 1 .. Len(t) : ipc'[i + 1] = t[i]
        /\ InFlight(ipc') = {m} \cup InFlight(t)
    BY <1>0, <2>1, <2>2, PutCalls
  <2>4. QueueOK(t, flows, backendDirty, dirty)  BY <1>a, <2>1
  <2>5. \A c \in InFlight(ipc') : Awaiting(c, flows)
    BY <2>2, <2>3, <2>4 DEF QueueOK, Awaiting
  <2>6. \A i \in 1 .. Len(ipc') : i = 1 \/ (i - 1 \in 1 .. Len(t) /\ ipc'[i] = t[i - 1])
    BY <2>3
  <2>7. Once(ipc')
    <3> SUFFICES ASSUME NEW i \in 1 .. Len(ipc'), NEW j \in 1 .. Len(ipc'),
                        ipc'[i].slot = ipc'[j].slot, ipc'[i].slot # NoSlot
                 PROVE  i = j
      BY DEF Once
    <3>1. i # 1 /\ j # 1  BY <2>2, <2>3
    <3>2. i - 1 \in 1 .. Len(t) /\ ipc'[i] = t[i - 1]  BY <2>6, <3>1
    <3>3. j - 1 \in 1 .. Len(t) /\ ipc'[j] = t[j - 1]  BY <2>6, <3>1
    <3>4. i - 1 = j - 1  BY <2>4, <3>2, <3>3 DEF QueueOK, Once
    <3> QED  BY <3>4
  <2>8. First(ipc')
    <3>1. \A i \in 1 .. Len(t) : t[i].cmd \notin Autosaves  BY <1>c DEF InFlight
    <3> QED  BY <2>6, <3>1 DEF First
  <2>9. Mirrored(ipc', backendDirty, dirty)
    <3>1. CASE backendDirty = dirty /\ \A i \in 1 .. Len(t) : t[i].cmd # "set_dirty"
      BY <2>2, <2>3, <2>6, <3>1 DEF Mirrored
    <3>2. CASE \E i \in 1 .. Len(t) : /\ t[i].cmd = "set_dirty" /\ (t[i].doc = 1) = dirty
                                      /\ \A j \in i + 1 .. Len(t) : t[j].cmd # "set_dirty"
      <4>1. PICK i \in 1 .. Len(t) : /\ t[i].cmd = "set_dirty" /\ (t[i].doc = 1) = dirty
                                     /\ \A j \in i + 1 .. Len(t) : t[j].cmd # "set_dirty"
        BY <3>2
      <4>2. i + 1 \in 1 .. Len(ipc') /\ ipc'[i + 1] = t[i]  BY <2>3
      <4>3. \A j \in (i + 1) + 1 .. Len(ipc') : j - 1 \in i + 1 .. Len(t) /\ ipc'[j] = t[j - 1]
        BY <2>3, <2>6
      <4> QED  BY <4>1, <4>2, <4>3 DEF Mirrored
    <3> QED  BY <2>4, <3>1, <3>2 DEF QueueOK, Mirrored
  <2>10. QueueOK(ipc', flows, backendDirty, dirty)  BY <2>3, <2>5, <2>7, <2>8, <2>9 DEF QueueOK
  <2> QED  BY <1>0, <2>1, <2>10 DEF FlowsOK, EveryAskerIsOnScreen, At
<1>8. CASE ExecAutosaveMeta \/ ExecAutosaveFails
  <2>1. /\ h.cmd \in Autosaves /\ h.cmd # "set_dirty" /\ ipc' = t
        /\ UNCHANGED <<dirty, flows, prompt, backendDirty>>
    BY <1>8 DEF ExecAutosaveMeta, ExecAutosaveFails, Executes, store, web, h, t, Autosaves
  <2>2. QueueOK(ipc', flows, backendDirty, dirty)  BY <1>a, <2>1
  <2> QED  BY <1>0, <2>1, <2>2 DEF FlowsOK, EveryAskerIsOnScreen, At
<1>9. CASE ExecRemove
  <2>1. UNCHANGED <<dirty, flows, prompt, backendDirty, ipc>>
    BY <1>9 DEF ExecRemove, store, web
  <2> QED  BY <2>1 DEF FlowsOK, EveryAskerIsOnScreen, At
<1> QED  BY <1>1, <1>2, <1>3, <1>4, <1>5, <1>6, <1>7, <1>8, <1>9 DEF Exec

\* So does a relaunch, which starts with empty queue and idle flows, and may offer.
LEMMA RelaunchKeepsFlows ==
  ASSUME FlowsOK, TypeInv, NEW how, Relaunch(how)
  PROVE  FlowsOK'
<1>1. /\ dirty' = FALSE /\ backendDirty' = FALSE /\ ipc' = << >>  BY DEF Relaunch, Replace
<1>2. << >> \in Seq(Calls) /\ Len(<< >>) = 0  BY EmptySeq
<1>3. QueueOK(ipc', flows', FALSE, FALSE)
  BY <1>1, <1>2 DEF QueueOK, InFlight, Once, First, Mirrored
<1>4. CASE Offerable
  <2>1. PICK f \in Slots :
            /\ prompt' = f
            /\ flows' = [s \in Slots |->
                 IF s = f THEN Flow("asked", "offer", meta.path, working) ELSE Idle]
    BY <1>4 DEF Relaunch
  <2>2. meta.path \in Paths \cup {NoPath} /\ working \in Int
    BY DEF TypeInv, Made, Absent
  <2>3. Flow("asked", "offer", meta.path, working) \in Flows
        /\ Flow("asked", "offer", meta.path, working).pc = "asked"
    BY <2>2, FlowFields DEF Steps, Kinds
  <2>4. flows' \in [Slots -> Flows] /\ EveryAskerIsOnScreen' /\ prompt' \in Slots
    BY <2>1, <2>3, IdleFields DEF EveryAskerIsOnScreen, At
  <2> QED  BY <1>1, <1>3, <2>4 DEF FlowsOK
<1>5. CASE ~Offerable
  <2>1. prompt' = NoSlot /\ flows' = [s \in Slots |-> Idle]  BY <1>5 DEF Relaunch
  <2>2. flows' \in [Slots -> Flows] /\ EveryAskerIsOnScreen' /\ prompt' \in {NoSlot}
    BY <2>1, IdleFields, PathsAssumption DEF EveryAskerIsOnScreen, At
  <2> QED  BY <1>1, <1>3, <2>2 DEF FlowsOK
<1> QED  BY <1>4, <1>5

\* Flows and queue stay in step.
LEMMA FlowsStep ==
  ASSUME FlowsOK, TypeInv, [Next]_vars
  PROVE  FlowsOK'
<1>1. CASE UNCHANGED vars
  BY <1>1 DEF vars, store, web, files, FlowsOK, EveryAskerIsOnScreen, At
<1>2. CASE Crash \/ CloseWindow
  BY <1>2, RelaunchKeepsFlows DEF Crash, CloseWindow
<1> QED
  BY <1>1, <1>2, EditsKeepFlows, StartKeepsFlows, AnswersKeepFlows, PickPathKeepsFlows,
     TimerKeepsFlows, ExecKeepsFlows DEF Next

-----------------------------------------------------------------------------
(* What the steps of the webview do to the document, the flows and the queue. *)

\* A flow on its way to a file has the path of one.
FlowRule(fl) == fl.pc \in {"loading", "opened"} \/ fl.kind = "recent" => fl.path # NoPath

\* What a step of the webview may make of a flow.
NewFlow(f) == /\ FlowRule(flows'[f]) /\ flows'[f].doc \in {Absent, flows[f].doc}
              /\ flows'[f].pc # "opened"
              /\ flows[f].pc \notin {"closing", "opened"}
              /\ f = prompt' => flows'[f].kind # "offer"

\* The queue grows out of q, by no autosave and no push_recent.
Grows(q) ==
  /\ InFlight(q) \subseteq InFlight(ipc')
  /\ \A c \in InFlight(ipc') :
       \/ c \in InFlight(q) \/ c.cmd = "set_dirty" \/ c = Clear(NoSlot)
       \/ /\ c.cmd \in {"save_project", "load_project"} /\ c.path # NoPath
          /\ c.cmd = "save_project" => c.doc = doc

\* No recovery is discarded, or one is.
ClearsAsBefore(q) == Clear(NoSlot) \in InFlight(ipc') => Clear(NoSlot) \in InFlight(q)
Clears == Clear(NoSlot) \in InFlight(ipc')

\* A step leaves the document alone, replaces it by a new one, gives up its unsaved state
\* to a close, declines the offer, or takes it.
Stays(q)  == ClearsAsBefore(q) /\ UNCHANGED <<doc, path, dirty, origin, dragging>>
Resets    == Clears /\ doc' = 0 /\ path' = NoPath /\ dirty' = FALSE /\ dragging' = FALSE /\ origin' = "fresh"
Closes(q) == /\ ClearsAsBefore(q) /\ UNCHANGED <<doc, path, origin, dragging>> /\ dirty' = FALSE
             /\ \E f \in Slots : flows'[f].pc = "closing"
Declines  == Clears /\ Offering /\ UNCHANGED <<doc, path, dirty, origin, dragging>>
Restores  == /\ Clears /\ Offering /\ doc' = flows[prompt].doc /\ path' = flows[prompt].path
             /\ dirty' = TRUE /\ dragging' = FALSE /\ origin' = "restored" /\ prompt' = NoSlot

\* Mirror puts nothing but calls about the flag under way.
LEMMA FlightMirrors ==
  ASSUME NEW q \in Seq(Calls), NEW flag
  PROVE  /\ q \o Mirror(flag) \in Seq(Calls)
         /\ InFlight(q) \subseteq InFlight(q \o Mirror(flag))
         /\ \A c \in InFlight(q \o Mirror(flag)) : c \in InFlight(q) \/ c.cmd = "set_dirty"
<1> DEFINE m == Call("set_dirty", NoSlot, NoPath, IF flag THEN 1 ELSE 0)
<1>1. m \in Calls /\ m.cmd = "set_dirty"  BY DEF Call, Calls, Commands
<1>2. q \o Mirror(flag) = q \/ q \o Mirror(flag) = Append(q, m)  BY MirrorCalls
<1>3. Append(q, m) \in Seq(Calls) /\ InFlight(Append(q, m)) = InFlight(q) \cup {m}  BY <1>1, AppendCalls
<1> HIDE DEF m
<1> QED  BY <1>1, <1>2, <1>3

\* The queue gets one call more, or none.
LEMMA GrowsByOne ==
  ASSUME NEW q \in Seq(Calls),
         \/ ipc' = q
         \/ \E c \in Calls : /\ ipc' = Append(q, c) /\ c.cmd \in {"save_project", "load_project"} /\ c.path # NoPath
                             /\ c.cmd = "save_project" => c.doc = doc
  PROVE  Grows(q) /\ ClearsAsBefore(q)
<1>1. CASE ipc' = q  BY <1>1 DEF Grows, ClearsAsBefore
<1>2. ASSUME NEW c \in Calls, ipc' = Append(q, c), c.cmd \in {"save_project", "load_project"}, c.path # NoPath,
             c.cmd = "save_project" => c.doc = doc
      PROVE  Grows(q) /\ ClearsAsBefore(q)
  <2>1. InFlight(ipc') = InFlight(q) \cup {c}  BY <1>2, AppendCalls
  <2>2. c # Clear(NoSlot)  BY <1>2, ClearFields
  <2> QED  BY <1>2, <2>1, <2>2 DEF Grows, ClearsAsBefore
<1> QED  BY <1>1, <1>2

\* The same of a clear_recovery,
LEMMA GrowsByClear ==
  ASSUME NEW q \in Seq(Calls), ipc' = Append(q, Clear(NoSlot))
  PROVE  Grows(q) /\ Clears
<1>1. InFlight(ipc') = InFlight(q) \cup {Clear(NoSlot)}  BY ClearFields, AppendCalls
<1> QED  BY <1>1 DEF Grows, Clears

\* of a change of the flag,
LEMMA GrowsByMirror ==
  ASSUME NEW q \in Seq(Calls), NEW flag, ipc' = q \o Mirror(flag)
  PROVE  Grows(q) /\ ClearsAsBefore(q)
<1>1. /\ InFlight(q) \subseteq InFlight(ipc')
      /\ \A c \in InFlight(ipc') : c \in InFlight(q) \/ c.cmd = "set_dirty"
  BY FlightMirrors
<1>2. Clear(NoSlot).cmd # "set_dirty"  BY ClearFields
<1> QED  BY <1>1, <1>2 DEF Grows, ClearsAsBefore

\* and of both.
LEMMA GrowsByMirrorAndClear ==
  ASSUME NEW q \in Seq(Calls), NEW flag, ipc' = q \o Mirror(flag) \o <<Clear(NoSlot)>>
  PROVE  Grows(q) /\ Clears
<1> DEFINE r == q \o Mirror(flag)
<1>1. /\ r \in Seq(Calls) /\ InFlight(q) \subseteq InFlight(r)
      /\ \A c \in InFlight(r) : c \in InFlight(q) \/ c.cmd = "set_dirty"
  BY FlightMirrors
<1>2. ipc' = r \o <<Clear(NoSlot)>>  OBVIOUS
<1> HIDE DEF r
<1>3. ipc' = Append(r, Clear(NoSlot))  BY <1>1, <1>2, ClearFields, OneCall
<1>4. InFlight(ipc') = InFlight(r) \cup {Clear(NoSlot)}  BY <1>1, <1>3, ClearFields, AppendCalls
<1> QED  BY <1>1, <1>4 DEF Grows, Clears

\* What a guarded action does to the document and the calls under way.
LEMMA ProceedDoes ==
  ASSUME FlowsOK, TypeInv, NEW f \in Slots, NEW q \in Seq(Calls), NEW debt, Proceed(f, q, debt),
         prompt' # f, flows[f].pc \notin {"closing", "opened"}
  PROVE  /\ Grows(q) /\ (Stays(q) \/ Resets \/ Closes(q))
         /\ NewFlow(f) /\ \A s \in Slots : s # f => flows'[s] = flows[s]
<1>0. flows[f] \in Flows /\ FlowRule(flows[f])  BY DEF FlowsOK, TypeInv, FlowRule
<1>p. {"idle", "picking", "loading", "closing"} \subseteq Steps  BY DEF Steps
<1>1. CASE ProceedNew(f, q)
  <2>1. OnlyFlow(f, "idle", "none") /\ flows'[f] = Idle  BY <1>1, FinishMoves DEF ProceedNew
  <2>2. Resets /\ Grows(q)
    BY <1>1, GrowsByMirrorAndClear DEF ProceedNew, Replace, Resets
  <2> QED  BY <2>1, <2>2, IdleFields DEF OnlyFlow, NewFlow, FlowRule
<1>2. CASE ProceedOpen(f, q, debt)
  <2>1. OnlyFlow(f, "picking", flows[f].kind) /\ flows'[f].doc = flows[f].doc
    BY <1>2, <1>p, GotoMoves DEF ProceedOpen
  <2>2. flows[f].kind = "open"  BY <1>2 DEF ProceedOpen
  <2>3. Grows(q) /\ Stays(q)  BY <1>2, GrowsByOne DEF ProceedOpen, Stays
  <2> QED  BY <2>1, <2>2, <2>3 DEF OnlyFlow, NewFlow, FlowRule
<1>3. CASE ProceedRecent(f, q, debt)
  <2> DEFINE c == Call("load_project", f, flows[f].path, Absent)
  <2>1. /\ OnlyFlow(f, "loading", flows[f].kind) /\ flows'[f].doc = flows[f].doc
        /\ flows'[f].path = flows[f].path
    BY <1>3, <1>p, GotoMoves DEF ProceedRecent
  <2>2. flows[f].kind = "recent" /\ flows[f].path # NoPath /\ ipc' = Append(q, c)
        /\ UNCHANGED <<doc, path, dirty, origin, dragging>>
    BY <1>0, <1>3 DEF ProceedRecent, FlowRule
  <2>p. flows[f].path \in Paths \cup {NoPath}  BY <1>0 DEF Flows
  <2>q. c = Call("load_project", f, flows[f].path, Absent)  OBVIOUS
  <2> HIDE DEF c
  <2>3. c \in Calls /\ c.cmd = "load_project" /\ c.path = flows[f].path
    BY <2>p, <2>q, LoadFields
  <2>4. Grows(q) /\ Stays(q)  BY <2>2, <2>3, GrowsByOne DEF Stays
  <2> QED  BY <2>1, <2>2, <2>4 DEF OnlyFlow, NewFlow, FlowRule
<1>4. CASE ProceedClose(f, q, debt)
  <2>1. /\ OnlyFlow(f, "closing", flows[f].kind) /\ flows'[f].doc = flows[f].doc
        /\ flows'[f].path = flows[f].path
    BY <1>4, <1>p, GotoMoves DEF ProceedClose
  <2>2. flows[f].kind = "close"  BY <1>4 DEF ProceedClose
  <2>3. Grows(q) /\ ClearsAsBefore(q)  BY <1>4, GrowsByMirror DEF ProceedClose
  <2>4. Closes(q)  BY <1>4, <2>1, <2>3 DEF ProceedClose, Closes, OnlyFlow
  <2> QED  BY <2>1, <2>2, <2>3, <2>4 DEF OnlyFlow, NewFlow, FlowRule
<1> QED  BY <1>1, <1>2, <1>3, <1>4 DEF Proceed

\* What a save does to them: it writes the document of this moment.
LEMMA SaveDoes ==
  ASSUME FlowsOK, TypeInv, NEW f \in Slots, NEW kind \in Kinds,
         kind = "recent" => flows[f].path # NoPath,
         \/ Save(f, kind) \/ PickSavePath(f, kind)
         \/ \E p \in Paths : WriteTo(f, kind, p),
         UNCHANGED store, prompt' # f, flows[f].pc \notin {"closing", "opened"}
  PROVE  /\ Grows(ipc) /\ Stays(ipc)
         /\ NewFlow(f) /\ \A s \in Slots : s # f => flows'[s] = flows[s]
<1>0. ipc \in Seq(Calls) /\ path \in Paths \cup {NoPath} /\ doc \in Int
  BY DEF FlowsOK, QueueOK, TypeInv, Made
<1>1. {"writing", "pickSave"} \subseteq Steps  BY DEF Steps
<1>2. CASE PickSavePath(f, kind)
  <2>1. OnlyFlow(f, "pickSave", kind) /\ flows'[f].path = flows[f].path /\ flows'[f].doc = Absent
    BY <1>1, <1>2, SavingMoves DEF PickSavePath
  <2>2. Grows(ipc) /\ Stays(ipc)  BY <1>0, <1>2, GrowsByOne DEF PickSavePath, Stays, store
  <2> QED  BY <2>1, <2>2 DEF OnlyFlow, NewFlow, FlowRule
<1>3. ASSUME NEW p \in Paths, WriteTo(f, kind, p)
      PROVE  /\ Grows(ipc) /\ Stays(ipc)
             /\ NewFlow(f) /\ \A s \in Slots : s # f => flows'[s] = flows[s]
  <2> DEFINE c == Call("save_project", f, p, doc)
  <2>1. OnlyFlow(f, "writing", kind) /\ flows'[f].path = flows[f].path /\ flows'[f].doc = Absent
    BY <1>1, <1>3, SavingMoves DEF WriteTo
  <2>2. c \in Calls /\ c.cmd = "save_project" /\ c.path = p /\ c.doc = doc
    BY <1>0, CallFields DEF Commands
  <2>3. ipc' = Append(ipc, c) /\ p # NoPath  BY <1>3, PathsAssumption DEF WriteTo
  <2> HIDE DEF c
  <2>4. Grows(ipc) /\ Stays(ipc)  BY <1>0, <2>2, <2>3, GrowsByOne DEF Stays, store
  <2> QED  BY <2>1, <2>4 DEF OnlyFlow, NewFlow, FlowRule
<1> QED  BY <1>0, <1>2, <1>3 DEF Save

\* A step of the webview, whatever it was.
WebStep ==
  /\ UNCHANGED <<files, made, timer>>
  /\ Grows(ipc) /\ (Stays(ipc) \/ Resets \/ Closes(ipc) \/ Declines \/ Restores)
  /\ \A f \in Slots : NewFlow(f) \/ flows'[f] = flows[f]
  /\ Offering' => Offering /\ prompt' = prompt /\ flows'[prompt] = flows[prompt]
  /\ Offering => Offering' \/ Clears

\* The answers are such steps,
LEMMA AnswersAreWebSteps ==
  ASSUME FlowsOK, TypeInv, AnswerGuard \/ AnswerOffer
  PROVE  WebStep
<1> DEFINE f == prompt
<1>0. /\ f \in Slots /\ flows[f] \in Flows /\ flows[f].pc = "asked" /\ ipc \in Seq(Calls)
      /\ prompt' = NoSlot /\ prompt # NoSlot /\ UNCHANGED <<files, made, timer>>
      /\ flows[f].kind = "recent" => flows[f].path # NoPath
  BY DEF FlowsOK, QueueOK, AnswerGuard, AnswerOffer, EveryAskerIsOnScreen, At, TypeInv
<1>1. ~Offering' /\ prompt' # f  BY <1>0 DEF Offering
<1> HIDE DEF f
<1>2. CASE AnswerGuard
  <2>0. ~Offering /\ flows[f].kind \in Kinds  BY <1>0, <1>2 DEF AnswerGuard, Offering, f, Flows
  <2>1. \/ Finish(f) /\ UNCHANGED <<store, ipc>>
        \/ Proceed(f, ipc, FALSE)
        \/ Save(f, flows[f].kind) /\ UNCHANGED store
    BY <1>2 DEF AnswerGuard, f
  <2>2. CASE Finish(f) /\ UNCHANGED <<store, ipc>>
    <3>1. OnlyFlow(f, "idle", "none") /\ flows'[f] = Idle  BY <1>0, <2>2, FinishMoves
    <3>2. Grows(ipc) /\ Stays(ipc)  BY <1>0, <2>2, GrowsByOne DEF store, Stays
    <3>3. NewFlow(f) /\ \A s \in Slots : s # f => flows'[s] = flows[s]
      BY <1>0, <1>1, <3>1, IdleFields DEF NewFlow, FlowRule, OnlyFlow
    <3> QED  BY <1>0, <1>1, <2>0, <3>2, <3>3 DEF WebStep
  <2>3. CASE Proceed(f, ipc, FALSE)
    <3>1. /\ Grows(ipc) /\ (Stays(ipc) \/ Resets \/ Closes(ipc))
          /\ NewFlow(f) /\ \A s \in Slots : s # f => flows'[s] = flows[s]
      BY <1>0, <1>1, <2>3, ProceedDoes
    <3> QED  BY <1>0, <1>1, <2>0, <3>1 DEF WebStep
  <2>4. CASE Save(f, flows[f].kind) /\ UNCHANGED store
    <3>1. /\ Grows(ipc) /\ Stays(ipc)
          /\ NewFlow(f) /\ \A s \in Slots : s # f => flows'[s] = flows[s]
      BY <1>0, <1>1, <2>0, <2>4, SaveDoes
    <3> QED  BY <1>0, <1>1, <2>0, <3>1 DEF WebStep
  <2> QED  BY <2>1, <2>2, <2>3, <2>4
<1>3. CASE AnswerOffer
  <2>0. Offering  BY <1>3 DEF AnswerOffer, Offering
  <2>1. OnlyFlow(f, "idle", "none") /\ flows'[f] = Idle  BY <1>0, <1>3, FinishMoves DEF AnswerOffer, f
  <2>2. \A s \in Slots : NewFlow(s) \/ flows'[s] = flows[s]
    BY <1>0, <1>1, <2>1, IdleFields DEF NewFlow, FlowRule, OnlyFlow
  <2>3. \/ /\ Replace(flows[prompt].doc, flows[prompt].path, TRUE, "restored")
           /\ ipc' = ipc \o Mirror(TRUE) \o <<Clear(NoSlot)>>
        \/ ipc' = Append(ipc, Clear(NoSlot)) /\ UNCHANGED store
    BY <1>3 DEF AnswerOffer
  <2>4. Grows(ipc) /\ Clears  BY <1>0, <2>3, GrowsByClear, GrowsByMirrorAndClear
  <2>5. Declines \/ Restores  BY <1>0, <2>0, <2>3, <2>4 DEF Declines, Restores, Replace, store
  <2> QED  BY <1>0, <1>1, <2>0, <2>2, <2>4, <2>5 DEF WebStep
<1> QED  BY <1>2, <1>3

\* the items of the menu,
LEMMA StartsAreWebSteps ==
  ASSUME FlowsOK, TypeInv, Start
  PROVE  WebStep
<1>0. /\ flows \in [Slots -> Flows] /\ ipc \in Seq(Calls) /\ prompt \in Slots \cup {NoSlot}
      /\ UNCHANGED <<files, made, timer>>
  BY DEF FlowsOK, QueueOK, Start
<1>f. PICK f \in Slots : /\ At(f, "idle")
                         /\ StartNew(f) \/ StartOpen(f) \/ StartRecent(f) \/ StartClose(f) \/ StartSave(f)
  BY DEF Start
<1>i. flows[f].pc = "idle" /\ prompt # f  BY <1>f DEF At, EveryAskerIsOnScreen, FlowsOK
<1>p. /\ {"asked", "picking", "loading", "closing"} \subseteq Steps
      /\ {"new", "open", "recent", "close", "save"} \subseteq Kinds
      /\ NoPath \in Paths \cup {NoPath} /\ Absent \in Int
  BY DEF Steps, Kinds, Absent
<1>1. ASSUME NEW kind \in {"new", "open", "recent", "close"}, NEW p \in Paths \cup {NoPath},
             kind = "recent" => p # NoPath, Ask(f, kind, p), UNCHANGED store
      PROVE  WebStep
  <2> DEFINE new == Flow("asked", kind, p, Absent)
  <2>1. new \in Flows /\ new.pc = "asked" /\ new.kind = kind /\ new.path = p /\ new.doc = Absent
    <3>1. kind \in Kinds  BY <1>p
    <3> QED  BY <1>p, <3>1, FlowFields
  <2>2. /\ prompt' = f
        /\ flows' = [s \in Slots |-> IF s = f THEN new ELSE IF s = prompt THEN Idle ELSE flows[s]]
        /\ ipc' = IF Offering THEN Append(ipc, Clear(NoSlot)) ELSE ipc
    BY <1>1 DEF Ask, Offering
  <2> HIDE DEF new
  <2>3. NewFlow(f)  BY <1>1, <1>i, <2>1, <2>2 DEF NewFlow, FlowRule
  <2>4. ASSUME NEW s \in Slots, s # f PROVE NewFlow(s) \/ flows'[s] = flows[s]
    <3>1. CASE s = prompt
      <4>1. flows[s].pc = "asked" /\ flows'[s] = Idle
        BY <2>2, <2>4, <3>1 DEF FlowsOK, EveryAskerIsOnScreen, At
      <4> QED  BY <4>1, IdleFields DEF NewFlow, FlowRule
    <3>2. CASE s # prompt  BY <2>2, <2>4, <3>2
    <3> QED  BY <3>1, <3>2
  <2>5. ~Offering'  BY <1>1, <2>1, <2>2 DEF Offering
  <2>6. CASE Offering
    <3>1. Grows(ipc) /\ Clears  BY <1>0, <2>2, <2>6, GrowsByClear
    <3>2. Declines  BY <1>1, <2>6, <3>1 DEF Declines, store
    <3> QED  BY <1>0, <2>3, <2>4, <2>5, <3>1, <3>2 DEF WebStep
  <2>7. CASE ~Offering
    <3>1. Grows(ipc) /\ Stays(ipc)  BY <1>0, <1>1, <2>2, <2>7, GrowsByOne DEF Stays, store
    <3> QED  BY <1>0, <2>3, <2>4, <2>5, <2>7, <3>1 DEF WebStep
  <2> QED  BY <2>6, <2>7
\* Without a question the prompt stays as it is.
<1>n. ASSUME prompt' = prompt, Grows(ipc), Stays(ipc) \/ Closes(ipc),
             NewFlow(f), \A s \in Slots : s # f => flows'[s] = flows[s]
      PROVE  WebStep
  <2>1. Offering' <=> Offering
    BY <1>0, <1>i, <1>n DEF Offering
  <2>2. Offering => flows'[prompt] = flows[prompt]
    BY <1>0, <1>i, <1>n DEF Offering
  <2> QED  BY <1>0, <1>n, <2>1, <2>2 DEF WebStep
<1>2. CASE StartNew(f)
  <2>1. CASE dirty /\ Ask(f, "new", NoPath) /\ UNCHANGED store  BY <1>1, <2>1
  <2>2. CASE ~dirty /\ Replace(0, NoPath, FALSE, "fresh")
             /\ ipc' = Append(ipc, Clear(NoSlot)) /\ UNCHANGED <<flows, prompt>>
    <3>1. Grows(ipc) /\ Clears  BY <1>0, <2>2, GrowsByClear
    <3>2. Resets  BY <2>2, <3>1 DEF Resets, Replace
    <3>3. (Offering' <=> Offering) /\ UNCHANGED <<flows, prompt>>  BY <2>2 DEF Offering
    <3> QED  BY <1>0, <3>1, <3>2, <3>3 DEF WebStep
  <2> QED  BY <1>2, <2>1, <2>2 DEF StartNew
<1>3. CASE StartOpen(f)
  <2>0. UNCHANGED store  BY <1>3 DEF StartOpen
  <2>1. CASE Ask(f, "open", NoPath)  BY <1>1, <2>0, <2>1
  <2>2. CASE flows' = [flows EXCEPT ![f] = Flow("picking", "open", NoPath, Absent)]
             /\ UNCHANGED <<prompt, ipc>>
    <3> DEFINE new == Flow("picking", "open", NoPath, Absent)
    <3>1. new.pc = "picking" /\ new.kind = "open" /\ new.doc = Absent  BY <1>p, FlowFields
    <3>2. flows' = [flows EXCEPT ![f] = new]  BY <2>2
    <3> HIDE DEF new
    <3>3. NewFlow(f) /\ \A s \in Slots : s # f => flows'[s] = flows[s]
      BY <1>0, <1>i, <3>1, <3>2 DEF NewFlow, FlowRule
    <3>4. Grows(ipc) /\ Stays(ipc)  BY <1>0, <2>0, <2>2, GrowsByOne DEF Stays, store
    <3> QED  BY <1>n, <2>2, <3>3, <3>4
  <2> QED  BY <1>3, <2>1, <2>2 DEF StartOpen
<1>4. CASE StartRecent(f)
  <2>0. UNCHANGED store  BY <1>4 DEF StartRecent
  <2>p. PICK p \in Paths :
       \/ /\ dirty /\ Ask(f, "recent", p)
       \/ /\ ~dirty
          /\ flows' = [flows EXCEPT ![f] = Flow("loading", "recent", p, Absent)]
          /\ ipc' = Append(ipc, Call("load_project", f, p, Absent)) /\ UNCHANGED prompt
    BY <1>4 DEF StartRecent
  <2>q. p \in Paths \cup {NoPath} /\ p # NoPath  BY PathsAssumption
  <2>1. CASE Ask(f, "recent", p)  BY <1>1, <2>0, <2>1, <2>q
  <2>2. CASE ~Ask(f, "recent", p)
    <3> DEFINE new == Flow("loading", "recent", p, Absent)
               c == Call("load_project", f, p, Absent)
    <3>1. new.pc = "loading" /\ new.kind = "recent" /\ new.path = p /\ new.doc = Absent
      BY <1>p, <2>q, FlowFields
    <3>2. c \in Calls /\ c.cmd = "load_project" /\ c.path = p
      <4>1. "load_project" \in Commands /\ f \in Slots \cup {NoSlot}  BY DEF Commands
      <4> QED  BY <1>p, <2>q, <4>1, CallFields
    <3>3. flows' = [flows EXCEPT ![f] = new] /\ ipc' = Append(ipc, c) /\ UNCHANGED prompt
      BY <2>p, <2>2
    <3> HIDE DEF new, c
    <3>4. NewFlow(f) /\ \A s \in Slots : s # f => flows'[s] = flows[s]
      BY <1>0, <1>i, <2>q, <3>1, <3>3 DEF NewFlow, FlowRule
    <3>5. Grows(ipc) /\ Stays(ipc)  BY <1>0, <2>0, <2>q, <3>2, <3>3, GrowsByOne DEF Stays, store
    <3> QED  BY <1>n, <3>3, <3>4, <3>5
  <2> QED  BY <2>1, <2>2
<1>5. CASE StartClose(f)
  <2>1. CASE Ask(f, "close", NoPath) /\ UNCHANGED store  BY <1>1, <2>1
  <2>2. CASE flows' = [flows EXCEPT ![f] = Flow("closing", "close", NoPath, Absent)]
             /\ UNCHANGED <<store, prompt, ipc>>
    <3> DEFINE new == Flow("closing", "close", NoPath, Absent)
    <3>1. new.pc = "closing" /\ new.kind = "close" /\ new.doc = Absent  BY <1>p, FlowFields
    <3>2. flows' = [flows EXCEPT ![f] = new]  BY <2>2
    <3> HIDE DEF new
    <3>3. NewFlow(f) /\ \A s \in Slots : s # f => flows'[s] = flows[s]
      BY <1>0, <1>i, <3>1, <3>2 DEF NewFlow, FlowRule
    <3>4. Grows(ipc) /\ Stays(ipc)  BY <1>0, <2>2, GrowsByOne DEF Stays, store
    <3> QED  BY <1>n, <2>2, <3>3, <3>4
  <2> QED  BY <1>5, <2>1, <2>2 DEF StartClose
<1>6. CASE StartSave(f)
  <2>1. UNCHANGED <<store, prompt>>  BY <1>6 DEF StartSave
  <2>2. /\ Grows(ipc) /\ Stays(ipc)
        /\ NewFlow(f) /\ \A s \in Slots : s # f => flows'[s] = flows[s]
    BY <1>6, <1>i, <1>p, <2>1, SaveDoes DEF StartSave
  <2> QED  BY <1>n, <2>1, <2>2
<1> QED  BY <1>f, <1>2, <1>3, <1>4, <1>5, <1>6

\* and the answers of native dialogs.
LEMMA PickPathIsWebStep ==
  ASSUME FlowsOK, TypeInv, PickPath
  PROVE  WebStep
<1>f. PICK f \in Slots :
    /\ \/ /\ At(f, "picking")
          /\ \/ Finish(f) /\ UNCHANGED ipc
             \/ \E p \in Paths :
                  /\ flows' = [flows EXCEPT ![f] = Flow("loading", @.kind, p, Absent)]
                  /\ ipc' = Append(ipc, Call("load_project", f, p, Absent))
       \/ /\ At(f, "pickSave")
          /\ \/ Finish(f) /\ UNCHANGED ipc
             \/ \E p \in Paths : WriteTo(f, flows[f].kind, p)
    /\ UNCHANGED <<store, timer, prompt, backendDirty, files, made>>
  BY DEF PickPath
<1>0. /\ flows \in [Slots -> Flows] /\ flows[f] \in Flows /\ ipc \in Seq(Calls)
      /\ UNCHANGED <<files, made, timer, store, prompt>> /\ prompt \in Slots \cup {NoSlot}
      /\ flows[f].pc \in {"picking", "pickSave"} /\ prompt # f
      /\ flows[f].kind = "recent" => flows[f].path # NoPath
      /\ flows[f].kind \in Kinds
  BY <1>f DEF FlowsOK, QueueOK, At, EveryAskerIsOnScreen, TypeInv, Flows
<1>n. ASSUME Grows(ipc), Stays(ipc), NewFlow(f), \A s \in Slots : s # f => flows'[s] = flows[s]
      PROVE  WebStep
  <2>1. Offering' <=> Offering  BY <1>0, <1>n DEF Offering
  <2>2. Offering => flows'[prompt] = flows[prompt]  BY <1>0, <1>n DEF Offering
  <2> QED  BY <1>0, <1>n, <2>1, <2>2 DEF WebStep
<1>1. CASE Finish(f) /\ UNCHANGED ipc
  <2>1. OnlyFlow(f, "idle", "none") /\ flows'[f] = Idle  BY <1>1, FinishMoves
  <2>2. NewFlow(f) /\ \A s \in Slots : s # f => flows'[s] = flows[s]
    BY <1>0, <2>1, IdleFields DEF NewFlow, FlowRule, OnlyFlow
  <2>3. Grows(ipc) /\ Stays(ipc)  BY <1>0, <1>1, GrowsByOne DEF Stays, store
  <2> QED  BY <1>n, <2>2, <2>3
<1>2. ASSUME NEW p \in Paths,
             flows' = [flows EXCEPT ![f] = Flow("loading", @.kind, p, Absent)],
             ipc' = Append(ipc, Call("load_project", f, p, Absent))
      PROVE  WebStep
  <2> DEFINE new == Flow("loading", flows[f].kind, p, Absent)
             c == Call("load_project", f, p, Absent)
  <2>0. /\ p \in Paths \cup {NoPath} /\ p # NoPath /\ Absent \in Int
        /\ "load_project" \in Commands /\ "loading" \in Steps /\ f \in Slots \cup {NoSlot}
    BY PathsAssumption DEF Absent, Commands, Steps
  <2>1. new.pc = "loading" /\ new.path = p /\ new.doc = Absent  BY <1>0, <2>0, FlowFields
  <2>2. c \in Calls /\ c.cmd = "load_project" /\ c.path = p  BY <2>0, CallFields
  <2>3. flows' = [flows EXCEPT ![f] = new] /\ ipc' = Append(ipc, c)  BY <1>0, <1>2
  <2> HIDE DEF new, c
  <2>4. NewFlow(f) /\ \A s \in Slots : s # f => flows'[s] = flows[s]
    BY <1>0, <2>0, <2>1, <2>3 DEF NewFlow, FlowRule
  <2>5. Grows(ipc) /\ Stays(ipc)  BY <1>0, <2>0, <2>2, <2>3, GrowsByOne DEF Stays, store
  <2> QED  BY <1>n, <2>4, <2>5
<1>3. ASSUME NEW p \in Paths, WriteTo(f, flows[f].kind, p) PROVE WebStep
  <2>1. /\ Grows(ipc) /\ Stays(ipc)
        /\ NewFlow(f) /\ \A s \in Slots : s # f => flows'[s] = flows[s]
    BY <1>0, <1>3, SaveDoes
  <2> QED  BY <1>n, <2>1
<1> QED  BY <1>f, <1>1, <1>2, <1>3

\* Whether an edit is owed stays a flag.
LEMMA OwedIsFlag ==
  ASSUME TypeInv, [Next]_vars
  PROVE  owed' \in BOOLEAN
<1>0. owed \in BOOLEAN  BY DEF TypeInv
<1>1. ASSUME NEW f, NEW q, NEW debt \in BOOLEAN, Proceed(f, q, debt) PROVE owed' \in BOOLEAN
  BY <1>1 DEF Proceed, ProceedNew, ProceedOpen, ProceedRecent, ProceedClose, Replace
<1>2. CASE Edit \/ DragMove \/ DragEnd \/ PickPath \/ TimerFires
  BY <1>0, <1>2 DEF Edit, DragMove, DragEnd, PickPath, TimerFires, store
<1>3. CASE Start
  BY <1>0, <1>3 DEF Start, StartNew, StartOpen, StartRecent, StartClose, StartSave, Replace, store
<1>4. CASE AnswerGuard \/ AnswerOffer
  BY <1>0, <1>1, <1>4 DEF AnswerGuard, AnswerOffer, Replace, store
<1>5. CASE Exec
  BY <1>0, <1>1, <1>5 DEF Exec, ExecSetDirty, ExecSave, ExecSaveFails, ExecLoad, ExecRecent, ExecRemove,
     ExecClear, ExecAutosaveDoc, ExecAutosaveMeta, ExecAutosaveFails, Replace, store
<1>6. CASE Crash \/ CloseWindow
  BY <1>6 DEF Crash, CloseWindow, Relaunch, Replace
<1>7. CASE UNCHANGED vars  BY <1>0, <1>7 DEF vars, store
<1> QED  BY <1>2, <1>3, <1>4, <1>5, <1>6, <1>7 DEF Next

\* Steps of the webview keep the types,
LEMMA WebStepKeepsTypes ==
  ASSUME FlowsOK, TypeInv, WebStep, owed' \in BOOLEAN, prompt' \in Slots \cup {NoSlot}
  PROVE  TypeInv'
<1>0. /\ flows \in [Slots -> Flows] /\ prompt \in Slots \cup {NoSlot}
      /\ UNCHANGED <<files, made, timer>> /\ Made' = Made
  BY DEF FlowsOK, WebStep, Made
<1>1. /\ doc' \in Made /\ path' \in Paths \cup {NoPath} /\ dragging' \in BOOLEAN
      /\ origin' \in {"fresh", "edited", "dragged", "loaded", "restored", "crashed", "closed"}
  <2>0. 0 \in Made  BY DEF TypeInv, Made
  <2>1. CASE Stays(ipc) \/ Resets \/ Closes(ipc) \/ Declines
    BY <2>0, <2>1 DEF TypeInv, Stays, Resets, Closes, Declines
  <2>2. CASE Restores
    <3>1. prompt \in Slots /\ flows[prompt].path \in Paths \cup {NoPath} /\ flows[prompt].doc \in Made
      BY <1>0, <2>2 DEF Restores, Offering, TypeInv, Flows
    <3> QED  BY <2>2, <3>1 DEF Restores
  <2> QED  BY <2>1, <2>2 DEF WebStep
<1>2. ASSUME NEW f \in Slots
      PROVE  flows'[f].doc \in Made \cup {Absent} /\ FlowRule(flows'[f])
  <2>1. flows[f].doc \in Made \cup {Absent} /\ FlowRule(flows[f])  BY DEF TypeInv, FlowRule
  <2>2. CASE flows'[f] = flows[f]  BY <2>1, <2>2
  <2>3. CASE NewFlow(f)  BY <2>1, <2>3 DEF NewFlow
  <2> QED  BY <2>2, <2>3 DEF WebStep
<1>3. Offering' => flows'[prompt'].doc \in Made  BY DEF WebStep, TypeInv
<1>4. ASSUME NEW c \in InFlight(ipc')
      PROVE  /\ c.cmd \in {"save_project", "load_project"} => c.path # NoPath
             /\ c.cmd \in {"save_project"} \cup Autosaves => c.doc \in Made
  <2>1. CASE c \in InFlight(ipc)  BY <2>1 DEF TypeInv
  <2>2. CASE c = Clear(NoSlot) \/ c.cmd = "set_dirty"
    BY <2>2, ClearFields DEF Autosaves
  <2>3. CASE /\ c.cmd \in {"save_project", "load_project"} /\ c.path # NoPath
             /\ c.cmd = "save_project" => c.doc = doc
    BY <2>3 DEF TypeInv, Autosaves
  <2> QED  BY <2>1, <2>2, <2>3 DEF WebStep, Grows
<1>5. /\ made' \in 0 .. MaxVersions /\ clock' \in 0 .. MaxWrites /\ timer' \in BOOLEAN
      /\ disk' \in [Paths -> Made \cup {Absent}] /\ mtime' \in [Paths -> 0 .. clock']
      /\ working' \in Made \cup {Absent} /\ workingPath' \in Paths \cup {NoPath}
      /\ meta' \in [path : Paths \cup {NoPath}, time : 0 .. clock' \cup {Absent}] /\ botched' \in BOOLEAN
  BY <1>0 DEF TypeInv, files
<1> QED  BY <1>0, <1>1, <1>2, <1>3, <1>4, <1>5 DEF TypeInv, FlowRule

\* and the files right for the document they leave.
LEMMA WebStepKeepsRecovery ==
  ASSUME FlowsOK, TypeInv, RecoveryInv, WebStep
  PROVE  RecoveryInv'
<1>0. /\ UNCHANGED <<disk, mtime, working, meta, workingPath, botched, clock, timer>>
      /\ InFlight(ipc) \subseteq InFlight(ipc')
      /\ Stays(ipc) \/ Resets \/ Closes(ipc) \/ Declines \/ Restores
  BY DEF WebStep, files, Grows
<1>a. \A c \in InFlight(ipc') : c.cmd \in Autosaves \cup {"push_recent"} => c \in InFlight(ipc)
  BY ClearFields DEF WebStep, Grows, Autosaves
<1>l. (MetaLive' <=> MetaLive) /\ (Offerable' <=> Offerable)  BY <1>0 DEF MetaLive, Newer, Offerable
<1>c. Clears => DiscardComing' /\ ClearComing'
  BY ClearFields DEF Clears, DiscardComing, ClearComing, InFlightHas
<1>d. (ClearComing => ClearComing') /\ (DiscardComing => DiscardComing')
  BY <1>0, <1>c DEF ClearComing, DiscardComing, InFlightHas, WebStep
<1>e. (Leaving("closing") => Leaving("closing")') /\ (Leaving("opened") => Leaving("opened")')
  BY DEF WebStep, NewFlow, Leaving, At
<1>1. OfferIsClean'
  <2>1. ASSUME Offering' PROVE Offering /\ ~Restores
    BY <2>1 DEF WebStep, Restores, Offering
  <2> QED  BY <1>0, <2>1 DEF RecoveryInv, OfferIsClean, Stays, Resets, Closes, Declines
<1>2. PairIsWhole'  BY <1>0, <1>l DEF RecoveryInv, PairIsWhole, InFlightHas
<1>3. RestIsSaved'
  <2> SUFFICES ASSUME Resting' PROVE
        /\ ~InFlightHas({"push_recent", "clear_recovery"})'
        /\ \A c \in InFlight(ipc') : c.cmd \in Autosaves => c.path = path' /\ c.doc = doc'
        /\ ~InFlightHas(Autosaves)' /\ ~botched' => Recoverable'
    BY DEF RestIsSaved
  <2>1. Stays(ipc) /\ Resting
    BY <1>0 DEF Resting, Stays, Resets, Closes, Declines, Restores, RecoveryInv, OfferIsClean
  <2>2. /\ ~InFlightHas({"push_recent", "clear_recovery"})
        /\ \A c \in InFlight(ipc) : c.cmd \in Autosaves => c.path = path /\ c.doc = doc
        /\ ~InFlightHas(Autosaves) /\ ~botched => Recoverable
    BY <2>1 DEF RecoveryInv, RestIsSaved
  <2>3. ASSUME NEW c \in InFlight(ipc'), c.cmd \in {"push_recent", "clear_recovery"} PROVE FALSE
    <3>1. c \in InFlight(ipc)
      BY <2>1, <2>3, <1>a DEF WebStep, Grows, Stays, ClearsAsBefore
    <3> QED  BY <2>2, <2>3, <3>1 DEF InFlightHas
  <2>4. ~InFlightHas(Autosaves)' => ~InFlightHas(Autosaves)  BY <1>0 DEF InFlightHas
  <2>5. Recoverable => Recoverable'  BY <1>0, <1>l, <2>1 DEF Recoverable, Stays
  <2> QED  BY <1>0, <1>a, <2>1, <2>2, <2>3, <2>4, <2>5 DEF InFlightHas, Stays
<1>4. MetaComesNext'  BY <1>0, <1>a DEF RecoveryInv, MetaComesNext, Autosaves
<1>5. ClearComing' \/ path' = path
  BY <1>0, <1>c DEF Stays, Resets, Closes, Declines, Restores
<1>6. dirty => dirty' \/ Leaving("closing")' \/ DiscardComing'
  BY <1>0, <1>c DEF Stays, Resets, Closes, Declines, Restores, Leaving, At
<1>7. AutosaveIsOurs'
  BY <1>0, <1>a, <1>l, <1>d, <1>e, <1>5, <1>6 DEF RecoveryInv, AutosaveIsOurs
<1>8. MetaIsOurs'
  BY <1>0, <1>l, <1>d, <1>5 DEF RecoveryInv, MetaIsOurs
<1>9. SavedIsOlder'
  <2> SUFFICES ASSUME MetaLive', meta'.path = path', path' # NoPath, ~dirty'
               PROVE  doc' # disk'[path'] \/ Leaving("closing")' \/ Leaving("opened")' \/ DiscardComing'
    BY DEF SavedIsOlder
  <2>1. CASE Stays(ipc)
    BY <1>0, <1>l, <1>d, <1>e, <2>1 DEF RecoveryInv, SavedIsOlder, Stays
  <2>2. CASE Closes(ipc)  BY <2>2 DEF Closes, Leaving, At
  <2>3. CASE Resets \/ Declines \/ Restores  BY <1>c, <2>3 DEF Resets, Declines, Restores
  <2> QED  BY <1>0, <2>1, <2>2, <2>3
<1> QED  BY <1>1, <1>2, <1>3, <1>4, <1>7, <1>8, <1>9 DEF RecoveryInv

-----------------------------------------------------------------------------
(* The other steps keep the documents, the files and their recovery right. *)

Kept == TypeInv' /\ RecoveryInv'

\* Nothing but the queue and the place of some flow changes.
LEMMA QuietStepKeeps ==
  ASSUME FlowsOK, TypeInv, RecoveryInv,
         UNCHANGED <<doc, path, dirty, dragging, origin, owed, timer, files, made, prompt>>,
         InFlight(ipc') \subseteq InFlight(ipc),
         \A c \in InFlight(ipc) : c \in InFlight(ipc') \/ c.cmd \in {"set_dirty", "save_project", "load_project"},
         \A f \in Slots : \/ flows'[f] = flows[f]
                          \/ flows'[f] = Idle /\ prompt # f /\ flows[f].pc \in {"writing", "loading"}
  PROVE  Kept
<1>0. /\ Made' = Made /\ UNCHANGED <<disk, mtime, working, meta, workingPath, botched, clock>>
  BY DEF Made, files
<1>1. \A f \in Slots : /\ flows'[f].doc \in Made \cup {Absent}
                       /\ flows'[f].pc \in {"loading", "opened"} \/ flows'[f].kind = "recent"
                            => flows'[f].path # NoPath
  BY IdleFields DEF TypeInv
<1>2. (Offering' <=> Offering) /\ (Offering => flows'[prompt] = flows[prompt])
  BY DEF Offering, FlowsOK
<1>3. TypeInv'  BY <1>0, <1>1, <1>2 DEF TypeInv
<1>4. \A c \in InFlight(ipc) : c.cmd \in Autosaves \cup {"push_recent", "clear_recovery"} => c \in InFlight(ipc')
  BY DEF Autosaves
<1>5. /\ MetaLive' <=> MetaLive
      /\ Recoverable' <=> Recoverable
      /\ Resting' <=> Resting
  BY <1>0 DEF MetaLive, Recoverable, Offerable, Newer, Resting
<1>6. ClearComing' <=> ClearComing
  BY <1>2, <1>4 DEF ClearComing, InFlightHas, Autosaves
<1>7. DiscardComing' <=> DiscardComing  BY <1>4 DEF DiscardComing
<1>8. (Leaving("closing") => Leaving("closing")') /\ (Leaving("opened") => Leaving("opened")')
  BY DEF Leaving, At
<1>9. OfferIsClean' /\ PairIsWhole'
  <2>1. InFlightHas({"clear_recovery"}) => InFlightHas({"clear_recovery"})'  BY <1>4 DEF InFlightHas
  <2> QED  BY <1>0, <1>2, <1>5, <2>1 DEF RecoveryInv, OfferIsClean, PairIsWhole
<1>10. RestIsSaved'
  <2>1. InFlightHas(Autosaves) => InFlightHas(Autosaves)'  BY <1>4 DEF InFlightHas
  <2>2. InFlightHas({"push_recent", "clear_recovery"})' => InFlightHas({"push_recent", "clear_recovery"})
    BY DEF InFlightHas
  <2> QED  BY <1>0, <1>5, <2>1, <2>2 DEF RecoveryInv, RestIsSaved
<1>11. MetaComesNext'  BY <1>0 DEF RecoveryInv, MetaComesNext
<1>12. AutosaveIsOurs'  BY <1>0, <1>5, <1>6, <1>7, <1>8 DEF RecoveryInv, AutosaveIsOurs
<1>13. MetaIsOurs'  BY <1>0, <1>5, <1>6 DEF RecoveryInv, MetaIsOurs
<1>14. SavedIsOlder'  BY <1>0, <1>5, <1>7, <1>8 DEF RecoveryInv, SavedIsOlder
<1> QED  BY <1>3, <1>9, <1>10, <1>11, <1>12, <1>13, <1>14 DEF RecoveryInv, Kept

\* An edit restarts the timer, so nothing rests; a drag keeps it from firing.
LEMMA EditsKeep ==
  ASSUME FlowsOK, TypeInv, RecoveryInv, Edit \/ DragMove \/ DragEnd
  PROVE  Kept
<1>0. ipc \in Seq(Calls) /\ dirty \in BOOLEAN  BY DEF FlowsOK, QueueOK
<1>1. /\ UNCHANGED <<path, flows, prompt, backendDirty, files>>
      /\ UNCHANGED <<disk, mtime, working, meta, workingPath, botched, clock>>
  BY DEF Edit, DragMove, DragEnd, web, files
<1>2. /\ InFlight(ipc) \subseteq InFlight(ipc')
      /\ \A c \in InFlight(ipc') : c \in InFlight(ipc) \/ c.cmd = "set_dirty"
  BY <1>0, FlightMirrors DEF Edit, DragMove, DragEnd
<1>3. ~Offering
  BY DEF Edit, DragMove, DragEnd, CanEdit, Offering, RecoveryInv, OfferIsClean
<1>4. ~Offering'  BY <1>1, <1>3 DEF Offering
<1>5. /\ made' \in 0 .. MaxVersions /\ Made \subseteq Made' /\ doc' \in Made'
      /\ dirty' \in BOOLEAN /\ dragging' \in BOOLEAN /\ owed' \in BOOLEAN /\ timer' \in BOOLEAN
      /\ origin' \in {"edited", "dragged"}
  <2>0. /\ made \in Nat /\ made <= MaxVersions /\ MaxVersions \in Nat /\ doc \in 0 .. made
        /\ dragging \in BOOLEAN /\ owed \in BOOLEAN /\ timer \in BOOLEAN
    BY BoundsAssumption DEF TypeInv, Made
  <2>1. ASSUME made' = made + 1, doc' = made + 1, made < MaxVersions
        PROVE  made' \in 0 .. MaxVersions /\ Made \subseteq Made' /\ doc' \in Made'
    BY <2>0, <2>1 DEF Made
  <2>2. ASSUME made' = made, doc' = doc
        PROVE  made' \in 0 .. MaxVersions /\ Made \subseteq Made' /\ doc' \in Made'
    BY <2>0, <2>2 DEF Made
  <2>3. made' \in 0 .. MaxVersions /\ Made \subseteq Made' /\ doc' \in Made'
    BY <2>1, <2>2 DEF Edit, DragMove, DragEnd, CanEdit
  <2>4. /\ dirty' \in BOOLEAN /\ dragging' \in BOOLEAN /\ owed' \in BOOLEAN
        /\ origin' \in {"edited", "dragged"}
    BY <1>0, <2>0 DEF Edit, DragMove, DragEnd
  <2>5. timer' \in BOOLEAN  BY <1>0, <2>0 DEF Edit, DragMove, DragEnd, web
  <2> QED  BY <2>3, <2>4, <2>5
<1>6. /\ \A f \in Slots : /\ flows'[f].doc \in Made' \cup {Absent}
                          /\ flows'[f].pc \in {"loading", "opened"} \/ flows'[f].kind = "recent"
                               => flows'[f].path # NoPath
      /\ disk' \in [Paths -> Made' \cup {Absent}] /\ working' \in Made' \cup {Absent}
  BY <1>1, <1>5 DEF TypeInv
<1>7. \A c \in InFlight(ipc') :
        /\ c.cmd \in {"save_project", "load_project"} => c.path # NoPath
        /\ c.cmd \in {"save_project"} \cup Autosaves => c.doc \in Made'
  BY <1>2, <1>5 DEF TypeInv, Autosaves
<1>8. TypeInv'  BY <1>1, <1>4, <1>5, <1>6, <1>7 DEF TypeInv
<1>9. /\ MetaLive' <=> MetaLive
      /\ ~Resting'
  BY <1>1 DEF MetaLive, Newer, Resting, Edit, DragMove, DragEnd
<1>10. /\ ClearComing => ClearComing'
       /\ DiscardComing => DiscardComing'
       /\ Leaving("closing") => Leaving("closing")'
       /\ Leaving("opened") => Leaving("opened")'
       /\ dirty => dirty'
  <2>1. ClearComing => ClearComing'
    BY <1>2, <1>3 DEF ClearComing, InFlightHas
  <2>2. DiscardComing => DiscardComing'  BY <1>2 DEF DiscardComing
  <2>3. dirty => dirty'  BY DEF Edit, DragMove, DragEnd
  <2>4. /\ Leaving("closing") => Leaving("closing")'
        /\ Leaving("opened") => Leaving("opened")'
    BY <1>1 DEF Leaving, At
  <2> QED  BY <2>1, <2>2, <2>3, <2>4
<1>11. OfferIsClean' /\ PairIsWhole' /\ RestIsSaved'
  BY <1>1, <1>2, <1>4, <1>9 DEF RecoveryInv, OfferIsClean, PairIsWhole, RestIsSaved, InFlightHas
<1>12. MetaComesNext'  BY <1>1, <1>2 DEF RecoveryInv, MetaComesNext
<1>13. AutosaveIsOurs'  BY <1>1, <1>2, <1>9, <1>10 DEF RecoveryInv, AutosaveIsOurs, Autosaves
<1>14. MetaIsOurs'  BY <1>1, <1>9, <1>10 DEF RecoveryInv, MetaIsOurs
<1>15. SavedIsOlder'
  <2>1. CASE dirty'  BY <2>1 DEF SavedIsOlder
  <2>2. CASE DragMove
    <3>1. made \in Nat /\ doc' = made + 1 /\ disk' = disk /\ path' = path  BY <1>1, <2>2 DEF DragMove, TypeInv
    <3>2. \A p \in Paths : disk[p] \in (0 .. made) \cup {-1}  BY DEF TypeInv, Made, Absent
    <3>3. \A p \in Paths : doc' # disk[p]  BY <3>1, <3>2
    <3>4. path' # NoPath => path' \in Paths  BY <1>8 DEF TypeInv
    <3> QED  BY <3>1, <3>3, <3>4 DEF SavedIsOlder
  <2> QED  BY <2>1, <2>2 DEF Edit, DragEnd
<1> QED  BY <1>8, <1>11, <1>12, <1>13, <1>14, <1>15 DEF RecoveryInv, Kept

\* The timer fires: an autosave of this document and path is the next call.
LEMMA TimerKeeps ==
  ASSUME FlowsOK, TypeInv, RecoveryInv, TimerFires
  PROVE  Kept
<1> DEFINE c == Call("autosave_recovery", NoSlot, path, doc)
<1>0. /\ dirty \in BOOLEAN /\ ipc = << >> /\ timer' = FALSE
      /\ UNCHANGED <<doc, path, dirty, dragging, origin, owed, flows, prompt, backendDirty, files, made>>
      /\ UNCHANGED <<disk, mtime, working, meta, workingPath, botched, clock>>
      /\ ipc' = IF dirty THEN <<c>> ELSE << >>
  BY DEF FlowsOK, TimerFires, store, Settled, files
<1>1. c \in Calls /\ c.cmd = "autosave_recovery" /\ c.path = path /\ c.doc = doc
  <2>1. path \in Paths \cup {NoPath} /\ doc \in Int  BY DEF TypeInv, Made
  <2> QED  BY <2>1, CallFields DEF Commands
<1> HIDE DEF c
<1>2. InFlight(ipc) = {}  BY <1>0, EmptySeq DEF InFlight
<1>3. InFlight(ipc') = IF dirty THEN {c} ELSE {}  BY <1>0, <1>1, <1>2, OneElement
<1>4. (Offering' <=> Offering) /\ Made' = Made /\ (MetaLive' <=> MetaLive)
  BY <1>0 DEF Offering, Made, MetaLive, Newer
<1>5. \A d \in InFlight(ipc') : dirty /\ d = c  BY <1>3
<1>b. botched' \in BOOLEAN  BY <1>0 DEF TypeInv
<1>6. TypeInv'  BY <1>0, <1>1, <1>4, <1>5, <1>b DEF TypeInv, Autosaves
<1>7. OfferIsClean' /\ PairIsWhole'
  BY <1>0, <1>2, <1>4 DEF RecoveryInv, OfferIsClean, PairIsWhole, InFlightHas
<1>8. RestIsSaved'
  <2>1. Resting' => c \in InFlight(ipc')  BY <1>0, <1>3 DEF Resting
  <2> QED  BY <1>0, <1>1, <1>5, <2>1 DEF RestIsSaved, InFlightHas, Autosaves
<1>9. MetaComesNext'  BY <1>1, <1>5 DEF MetaComesNext
<1>10. (ClearComing <=> Offering) /\ (Offering => ClearComing') /\ (Offering => ~dirty) /\ ~DiscardComing
  BY <1>2, <1>4 DEF ClearComing, InFlightHas, RecoveryInv, OfferIsClean, DiscardComing
<1>11. AutosaveIsOurs'
  BY <1>0, <1>1, <1>4, <1>5, <1>10 DEF RecoveryInv, MetaIsOurs, AutosaveIsOurs
<1>12. MetaIsOurs'  BY <1>0, <1>4, <1>10 DEF RecoveryInv, MetaIsOurs
<1>13. SavedIsOlder'
  BY <1>0, <1>4, <1>10 DEF RecoveryInv, SavedIsOlder, Leaving, At
<1> QED  BY <1>6, <1>7, <1>8, <1>9, <1>11, <1>12, <1>13 DEF RecoveryInv, Kept

\* A save or a load that succeeds is followed by a push_recent.
LEMMA FlightPushes ==
  ASSUME NEW q \in Seq(Calls), NEW s \in Slots, NEW p \in Paths \cup {NoPath},
         ipc' = q \o Mirror(FALSE) \o <<Call("push_recent", s, p, Absent)>>
  PROVE  /\ InFlight(q) \subseteq InFlight(ipc')
         /\ \A c \in InFlight(ipc') : c \in InFlight(q) \/ c.cmd \in {"set_dirty", "push_recent"}
         /\ \E c \in InFlight(ipc') : c.cmd = "push_recent"
<1> DEFINE r == q \o Mirror(FALSE)
           c == Call("push_recent", s, p, Absent)
<1>1. /\ r \in Seq(Calls) /\ InFlight(q) \subseteq InFlight(r)
      /\ \A d \in InFlight(r) : d \in InFlight(q) \/ d.cmd = "set_dirty"
  BY FlightMirrors
<1>2. c \in Calls /\ c.cmd = "push_recent"  BY CallFields DEF Commands, Absent
<1>3. ipc' = r \o <<c>>  OBVIOUS
<1> HIDE DEF r, c
<1>4. ipc' = Append(r, c)  BY <1>1, <1>2, <1>3, OneCall
<1>5. InFlight(ipc') = InFlight(r) \cup {c}  BY <1>1, <1>2, <1>4, AppendCalls
<1> QED  BY <1>1, <1>2, <1>5

\* A save lands: the project is newer than any metadata, and a push_recent follows.
LEMMA ExecSaveKeeps ==
  ASSUME FlowsOK, TypeInv, RecoveryInv, ExecSave, owed' \in BOOLEAN
  PROVE  Kept
<1> DEFINE h == Head(ipc)
           f == Head(ipc).slot
           t == Tail(ipc)
           p == Head(ipc).path
           v == Head(ipc).doc
<1>0. /\ h.cmd = "save_project" /\ ipc # << >> /\ clock < MaxWrites /\ clock' = clock + 1
      /\ disk' = [disk EXCEPT ![p] = v] /\ mtime' = [mtime EXCEPT ![p] = clock + 1]
      /\ timer' = (timer \/ dirty) /\ dirty' = FALSE /\ path' = p
      /\ ipc' = t \o Mirror(FALSE) \o <<Call("push_recent", f, p, Absent)>>
      /\ Goto(f, "recording")
      /\ UNCHANGED <<doc, dragging, origin, prompt, backendDirty, working, meta, workingPath, botched, made>>
  BY DEF ExecSave, Executes, Tick, SaveLands
<1>1. /\ t \in Seq(Calls) /\ f \in Slots /\ prompt # f /\ h \in Calls /\ h \in InFlight(ipc)
      /\ \A c \in InFlight(t) : c.cmd \notin Autosaves
      /\ InFlight(ipc) = {h} \cup InFlight(t)
      /\ InFlight(t) \subseteq InFlight(ipc) /\ flows[f].pc = "writing" /\ dirty \in BOOLEAN
  BY <1>0, ExecPops DEF Awaiting
<1>2. /\ p \in Paths /\ v \in Made /\ p \in Paths \cup {NoPath}
  BY <1>0, <1>1 DEF TypeInv, Calls
<1> HIDE DEF h, f, t, p, v
<1>3. /\ InFlight(t) \subseteq InFlight(ipc')
      /\ \A c \in InFlight(ipc') : c \in InFlight(t) \/ c.cmd \in {"set_dirty", "push_recent"}
      /\ \E c \in InFlight(ipc') : c.cmd = "push_recent"
  BY <1>0, <1>1, <1>2, FlightPushes
<1>4. OnlyFlow(f, "recording", flows[f].kind) /\ flows'[f].doc = flows[f].doc /\ flows'[f].path = flows[f].path
  BY <1>0, <1>1, GotoMoves DEF Steps
<1>5. Made' = Made /\ (Offering' <=> Offering) /\ (Offering => flows'[prompt'] = flows[prompt])
  BY <1>0, <1>1, <1>4 DEF Made, Offering, OnlyFlow, FlowsOK
<1>6. /\ \A s \in Slots : /\ flows'[s].doc \in Made \cup {Absent}
                          /\ flows'[s].pc \in {"loading", "opened"} \/ flows'[s].kind = "recent"
                               => flows'[s].path # NoPath
  BY <1>4 DEF OnlyFlow, TypeInv
<1>7. \A c \in InFlight(ipc') :
        /\ c.cmd \in {"save_project", "load_project"} => c.path # NoPath
        /\ c.cmd \in {"save_project"} \cup Autosaves => c.doc \in Made
  <2>1. \A c \in InFlight(ipc') : c \in InFlight(ipc) \/ c.cmd \in {"set_dirty", "push_recent"}
    BY <1>1, <1>3
  <2> QED  BY <2>1 DEF TypeInv, Autosaves
<1>8. /\ clock' \in 0 .. MaxWrites /\ clock \in Nat /\ disk' \in [Paths -> Made \cup {Absent}]
      /\ mtime' \in [Paths -> 0 .. clock']
      /\ meta \in [path : Paths \cup {NoPath}, time : 0 .. clock' \cup {Absent}]
      /\ timer' \in BOOLEAN
  <2>1. /\ clock \in 0 .. MaxWrites /\ mtime \in [Paths -> 0 .. clock] /\ MaxWrites \in Nat
        /\ meta \in [path : Paths \cup {NoPath}, time : 0 .. clock \cup {Absent}]
        /\ disk \in [Paths -> Made \cup {Absent}] /\ timer \in BOOLEAN
    BY BoundsAssumption DEF TypeInv
  <2>2. clock' \in 0 .. MaxWrites /\ clock \in Nat /\ 0 .. clock \subseteq 0 .. clock' /\ clock + 1 \in 0 .. clock'
    BY <1>0, <2>1
  <2>3. mtime' \in [Paths -> 0 .. clock']  BY <1>0, <1>2, <2>1, <2>2
  <2>4. meta \in [path : Paths \cup {NoPath}, time : 0 .. clock' \cup {Absent}]  BY <2>1, <2>2
  <2>5. disk' \in [Paths -> Made \cup {Absent}]  BY <1>0, <1>2, <2>1
  <2> QED  BY <1>0, <1>1, <2>1, <2>2, <2>3, <2>4, <2>5
<1>9. TypeInv'  BY <1>0, <1>2, <1>5, <1>6, <1>7, <1>8 DEF TypeInv
\* A file written now is newer than the recovery.
<1>10. MetaLive' => MetaLive /\ meta.path # p
  <2> SUFFICES ASSUME MetaLive' PROVE MetaLive /\ meta.path # p  OBVIOUS
  <2>0. meta' = meta /\ botched' = botched  BY <1>0
  <2>1. meta # NoMeta /\ ~botched /\ (meta.path = NoPath \/ disk'[meta.path] = Absent \/ meta.time > mtime'[meta.path])
    BY <2>0 DEF MetaLive, Newer
  <2>2. meta.path \in Paths \cup {NoPath} /\ meta.time \in (0 .. clock) \cup {-1} /\ clock \in Nat
    BY <1>8 DEF TypeInv, Absent
  <2>3. /\ disk \in [Paths -> Made \cup {Absent}] /\ mtime \in [Paths -> 0 .. clock]
        /\ v # Absent
    BY <1>2 DEF TypeInv, Made, Absent
  <2>4. meta.path # p
    <3> SUFFICES ASSUME meta.path = p PROVE FALSE  OBVIOUS
    <3>1. disk'[p] = v /\ mtime'[p] = clock + 1  BY <1>0, <1>2, <2>3
    <3>2. meta.time > clock + 1  BY <2>1, <2>3, <3>1, <1>2, PathsAssumption
    <3> QED  BY <2>2, <3>2
  <2>5. meta.path # NoPath => disk'[meta.path] = disk[meta.path] /\ mtime'[meta.path] = mtime[meta.path]
    BY <1>0, <1>2, <2>2, <2>3, <2>4
  <2> QED  BY <2>1, <2>4, <2>5 DEF MetaLive, Newer
<1>11. OfferIsClean' /\ PairIsWhole' /\ RestIsSaved'
  <2>1. InFlightHas({"clear_recovery"}) => InFlightHas({"clear_recovery"})'  BY <1>0, <1>1, <1>3 DEF InFlightHas
  <2> QED  BY <1>0, <1>5, <1>10, <2>1 DEF RecoveryInv, OfferIsClean, PairIsWhole, RestIsSaved, Resting
<1>12. MetaComesNext' /\ AutosaveIsOurs'
  BY <1>1, <1>3 DEF MetaComesNext, AutosaveIsOurs, Autosaves
<1>13. MetaIsOurs'
  <2>1. ClearComing'  BY <1>3 DEF ClearComing, InFlightHas
  <2> QED  BY <1>0, <1>10, <2>1 DEF RecoveryInv, MetaIsOurs
<1>14. SavedIsOlder'  BY <1>0, <1>10 DEF SavedIsOlder
<1> QED  BY <1>9, <1>11, <1>12, <1>13, <1>14 DEF RecoveryInv, Kept

\* A project is loaded: the document is replaced, and a push_recent follows.
LEMMA ExecLoadKeeps ==
  ASSUME FlowsOK, TypeInv, RecoveryInv, ExecLoad
  PROVE  Kept
<1> DEFINE h == Head(ipc)
           f == Head(ipc).slot
           t == Tail(ipc)
           p == Head(ipc).path
<1>0. /\ h.cmd = "load_project" /\ ipc # << >> /\ UNCHANGED <<timer, prompt, backendDirty, files, made>>
      /\ UNCHANGED <<disk, mtime, working, meta, workingPath, botched, clock>>
  BY DEF ExecLoad, Executes, files
<1>1. /\ t \in Seq(Calls) /\ f \in Slots /\ prompt # f /\ h \in Calls /\ h \in InFlight(ipc)
      /\ \A c \in InFlight(t) : c.cmd \notin Autosaves
      /\ InFlight(ipc) = {h} \cup InFlight(t) /\ flows[f].pc = "loading" /\ dirty \in BOOLEAN
  BY <1>0, ExecPops DEF Awaiting
<1>2. p \in Paths /\ p \in Paths \cup {NoPath}  BY <1>0, <1>1 DEF TypeInv, Calls
<1>3. CASE disk[p] = Absent
  <2>1. Finish(f) /\ ipc' = t /\ UNCHANGED store  BY <1>3 DEF ExecLoad
  <2>2. flows'[f] = Idle /\ \A s \in Slots : s # f => flows'[s] = flows[s]
    BY <1>1, <2>1, FinishMoves DEF OnlyFlow
  <2> HIDE DEF h, f, t, p
  <2>3. \A c \in InFlight(ipc) : c \in InFlight(ipc') \/ c.cmd = "load_project"  BY <1>0, <1>1, <2>1
  <2>4. InFlight(ipc') \subseteq InFlight(ipc)  BY <1>1, <2>1
  <2>5. \A s \in Slots : \/ flows'[s] = flows[s]
                         \/ flows'[s] = Idle /\ prompt # s /\ flows[s].pc \in {"writing", "loading"}
    BY <1>1, <2>2
  <2>6. UNCHANGED <<doc, path, dirty, dragging, origin, owed, timer, files, made, prompt>>
    BY <1>0, <2>1 DEF store
  <2> QED  BY <2>3, <2>4, <2>5, <2>6, QuietStepKeeps
<1>4. CASE disk[p] # Absent
  <2>1. /\ doc' = disk[p] /\ dirty' = FALSE /\ path' = p /\ dragging' = FALSE
        /\ origin' = "loaded" /\ owed' = FALSE
        /\ ipc' = t \o Mirror(FALSE) \o <<Call("push_recent", f, p, Absent)>>
        /\ Goto(f, "opened")
    BY <1>4 DEF ExecLoad, Replace
  <2> HIDE DEF h, f, t, p
  <2>2. disk[p] \in Made  BY <1>2, <1>4 DEF TypeInv
  <2>3. /\ InFlight(t) \subseteq InFlight(ipc')
        /\ \A c \in InFlight(ipc') : c \in InFlight(t) \/ c.cmd \in {"set_dirty", "push_recent"}
        /\ \E c \in InFlight(ipc') : c.cmd = "push_recent"
    BY <2>1, <1>1, <1>2, FlightPushes
  <2>4. OnlyFlow(f, "opened", flows[f].kind) /\ flows'[f].doc = flows[f].doc /\ flows'[f].path = flows[f].path
    BY <1>1, <2>1, GotoMoves DEF Steps
  <2>5. Made' = Made /\ (Offering' <=> Offering) /\ (Offering => flows'[prompt'] = flows[prompt])
    BY <1>0, <1>1, <2>4 DEF Made, Offering, OnlyFlow, FlowsOK
  <2>6. /\ \A s \in Slots : /\ flows'[s].doc \in Made \cup {Absent}
                            /\ flows'[s].pc \in {"loading", "opened"} \/ flows'[s].kind = "recent"
                                 => flows'[s].path # NoPath
    BY <1>1, <2>4 DEF OnlyFlow, TypeInv
  <2>7. \A c \in InFlight(ipc') :
          /\ c.cmd \in {"save_project", "load_project"} => c.path # NoPath
          /\ c.cmd \in {"save_project"} \cup Autosaves => c.doc \in Made
    <3>1. \A c \in InFlight(ipc') : c \in InFlight(ipc) \/ c.cmd \in {"set_dirty", "push_recent"}
      BY <1>1, <2>3
    <3> QED  BY <3>1 DEF TypeInv, Autosaves
  <2>8. TypeInv'  BY <1>0, <1>2, <2>1, <2>2, <2>5, <2>6, <2>7 DEF TypeInv
  <2>9. MetaLive' <=> MetaLive  BY <1>0 DEF MetaLive, Newer
  <2>10. OfferIsClean' /\ PairIsWhole' /\ RestIsSaved'
    <3>1. InFlightHas({"clear_recovery"}) => InFlightHas({"clear_recovery"})'  BY <1>0, <1>1, <2>3 DEF InFlightHas
    <3> QED  BY <1>0, <2>1, <2>5, <2>9, <3>1 DEF RecoveryInv, OfferIsClean, PairIsWhole, RestIsSaved, Resting
  <2>11. MetaComesNext' /\ AutosaveIsOurs'
    BY <1>1, <2>3 DEF MetaComesNext, AutosaveIsOurs, Autosaves
  <2>12. MetaIsOurs'
    <3>1. ClearComing'  BY <2>3 DEF ClearComing, InFlightHas
    <3> QED  BY <1>0, <2>9, <3>1 DEF RecoveryInv, MetaIsOurs
  <2>13. SavedIsOlder'  BY <1>1, <2>4 DEF SavedIsOlder, Leaving, At, OnlyFlow
  <2> QED  BY <2>8, <2>10, <2>11, <2>12, <2>13 DEF RecoveryInv, Kept
<1> QED  BY <1>3, <1>4

\* The file is recorded: the recovery is cleared next.
LEMMA ExecRecentKeeps ==
  ASSUME FlowsOK, TypeInv, RecoveryInv, ExecRecent
  PROVE  Kept
<1> DEFINE h == Head(ipc)
           f == Head(ipc).slot
           t == Tail(ipc)
<1>0. /\ h.cmd = "push_recent" /\ ipc # << >>
      /\ UNCHANGED <<doc, dirty, path, dragging, origin, owed>>
      /\ UNCHANGED <<timer, prompt, backendDirty, files, made>>
      /\ UNCHANGED <<disk, mtime, working, meta, workingPath, botched, clock>>
      /\ \/ At(f, "recording") /\ Goto(f, "clearing") /\ ipc' = Append(t, Clear(f))
         \/ At(f, "opened") /\ Finish(f) /\ ipc' = Append(t, Clear(NoSlot))
  BY DEF ExecRecent, Executes, store, files
<1>1. /\ t \in Seq(Calls) /\ f \in Slots /\ prompt # f /\ h \in InFlight(ipc)
      /\ \A c \in InFlight(t) : c.cmd \notin Autosaves
      /\ InFlight(ipc) = {h} \cup InFlight(t)
  BY <1>0, ExecPops
<1> HIDE DEF h, f, t
<1>2. PICK s \in {f, NoSlot} :
        /\ InFlight(ipc') = InFlight(t) \cup {Clear(s)} /\ Clear(s).cmd = "clear_recovery" /\ Clear(s).slot = s
        /\ \/ OnlyFlow(f, "clearing", flows[f].kind) /\ flows[f].pc = "recording"
              /\ flows'[f].doc = flows[f].doc /\ flows'[f].path = flows[f].path
           \/ OnlyFlow(f, "idle", "none") /\ flows'[f] = Idle /\ s = NoSlot
  <2>1. CASE At(f, "recording") /\ Goto(f, "clearing") /\ ipc' = Append(t, Clear(f))
    <3>1. /\ OnlyFlow(f, "clearing", flows[f].kind)
          /\ flows'[f].doc = flows[f].doc /\ flows'[f].path = flows[f].path
      BY <1>1, <2>1, GotoMoves DEF Steps
    <3>2. InFlight(ipc') = InFlight(t) \cup {Clear(f)} /\ Clear(f).cmd = "clear_recovery" /\ Clear(f).slot = f
      BY <1>1, <2>1, ClearFields, AppendCalls
    <3> QED  BY <2>1, <3>1, <3>2 DEF At
  <2>2. CASE At(f, "opened") /\ Finish(f) /\ ipc' = Append(t, Clear(NoSlot))
    <3>1. OnlyFlow(f, "idle", "none") /\ flows'[f] = Idle  BY <1>1, <2>2, FinishMoves
    <3>2. /\ InFlight(ipc') = InFlight(t) \cup {Clear(NoSlot)}
          /\ Clear(NoSlot).cmd = "clear_recovery" /\ Clear(NoSlot).slot = NoSlot
      BY <1>1, <2>2, ClearFields, AppendCalls
    <3> QED  BY <3>1, <3>2
  <2> QED  BY <1>0, <2>1, <2>2
<1>3. Made' = Made /\ (Offering' <=> Offering) /\ (Offering => flows'[prompt'] = flows[prompt])
  BY <1>0, <1>1, <1>2 DEF Made, Offering, OnlyFlow, FlowsOK
<1>4. /\ \A g \in Slots : /\ flows'[g].doc \in Made \cup {Absent}
                          /\ flows'[g].pc \in {"loading", "opened"} \/ flows'[g].kind = "recent"
                               => flows'[g].path # NoPath
  BY <1>2, IdleFields DEF OnlyFlow, TypeInv
<1>5. \A c \in InFlight(ipc') :
        /\ c.cmd \in {"save_project", "load_project"} => c.path # NoPath
        /\ c.cmd \in {"save_project"} \cup Autosaves => c.doc \in Made
  <2>1. \A c \in InFlight(ipc') : c \in InFlight(ipc) \/ c.cmd = "clear_recovery"
    BY <1>1, <1>2
  <2> QED  BY <2>1 DEF TypeInv, Autosaves
<1>6. TypeInv'  BY <1>0, <1>3, <1>4, <1>5 DEF TypeInv
<1>7. MetaLive' <=> MetaLive  BY <1>0 DEF MetaLive, Newer
<1>8. OfferIsClean' /\ PairIsWhole'
  <2>1. InFlightHas({"clear_recovery"})'  BY <1>2 DEF InFlightHas
  <2> QED  BY <1>0, <1>3, <1>7, <2>1 DEF RecoveryInv, OfferIsClean, PairIsWhole
<1>9. ~Resting'
  <2>1. ~Resting  BY <1>0, <1>1 DEF RecoveryInv, RestIsSaved, InFlightHas
  <2> QED  BY <1>0, <2>1 DEF Resting
<1>10. RestIsSaved' /\ MetaComesNext' /\ AutosaveIsOurs'
  BY <1>1, <1>2, <1>9 DEF RestIsSaved, MetaComesNext, AutosaveIsOurs, Autosaves
<1>11. MetaIsOurs'
  <2>1. ClearComing'  BY <1>2 DEF ClearComing, InFlightHas
  <2> QED  BY <1>0, <1>7, <2>1 DEF RecoveryInv, MetaIsOurs
<1>12. SavedIsOlder'
  <2>1. CASE s = NoSlot
    <3>1. DiscardComing'  BY <1>2, <2>1 DEF DiscardComing
    <3> QED  BY <3>1 DEF SavedIsOlder
  <2>2. CASE OnlyFlow(f, "clearing", flows[f].kind) /\ flows[f].pc = "recording"
    <3>1. Leaving("closing") => Leaving("closing")'  BY <2>2 DEF Leaving, At, OnlyFlow
    <3>2. Leaving("opened") => Leaving("opened")'  BY <2>2 DEF Leaving, At, OnlyFlow
    <3>3. DiscardComing => DiscardComing'  BY <1>0, <1>1, <1>2 DEF DiscardComing
    <3> QED  BY <1>0, <1>7, <3>1, <3>2, <3>3 DEF RecoveryInv, SavedIsOlder
  <2> QED  BY <1>2, <2>1, <2>2
<1> QED  BY <1>6, <1>8, <1>10, <1>11, <1>12 DEF RecoveryInv, Kept

\* The recovery files are cleared, or what is left of them is botched, which nothing that
\* rests relied on.
LEMMA ExecClearKeeps ==
  ASSUME FlowsOK, TypeInv, RecoveryInv, ExecClear, owed' \in BOOLEAN
  PROVE  Kept
<1> DEFINE h == Head(ipc)
           f == Head(ipc).slot
           t == Tail(ipc)
<1>0. /\ h.cmd = "clear_recovery" /\ ipc # << >>
      /\ botched' = (meta # NoMeta)
      /\ UNCHANGED <<timer, prompt, backendDirty, disk, mtime, working, meta, workingPath, clock, made>>
      /\ \/ f = NoSlot /\ ipc' = t /\ UNCHANGED <<store, flows>>
         \/ f # NoSlot /\ Finish(f) /\ ipc' = t /\ UNCHANGED store
         \/ f # NoSlot /\ Proceed(f, t, owed)
  BY DEF ExecClear, Executes
<1>1. /\ t \in Seq(Calls) /\ h \in InFlight(ipc) /\ f \in Slots \cup {NoSlot}
      /\ \A c \in InFlight(t) : c.cmd \notin Autosaves
      /\ InFlight(t) \subseteq InFlight(ipc) /\ prompt \in Slots \cup {NoSlot}
      /\ f # NoSlot => prompt # f /\ flows[f].pc = "clearing"
  BY <1>0, ExecPops DEF Awaiting
<1>r. ~Resting  BY <1>0, <1>1 DEF RecoveryInv, RestIsSaved, InFlightHas
<1> HIDE DEF h, f, t
<1>2. /\ Grows(t) /\ (Stays(t) \/ Resets \/ Closes(t))
      /\ \A s \in Slots : flows'[s] = flows[s] \/ (s # prompt /\ NewFlow(s))
  <2>1. CASE f = NoSlot /\ ipc' = t /\ UNCHANGED <<store, flows>>
    BY <1>1, <2>1, GrowsByOne DEF Stays, store
  <2>2. CASE f # NoSlot /\ Finish(f) /\ ipc' = t /\ UNCHANGED store
    <3>1. OnlyFlow(f, "idle", "none") /\ flows'[f] = Idle  BY <1>1, <2>2, FinishMoves
    <3>2. NewFlow(f)  BY <1>1, <2>2, <3>1, IdleFields DEF NewFlow, FlowRule
    <3> QED  BY <1>1, <2>2, <3>1, <3>2, GrowsByOne DEF Stays, store, OnlyFlow
  <2>3. CASE f # NoSlot /\ Proceed(f, t, owed)
    <3>1. f \in Slots /\ prompt' # f /\ flows[f].pc \notin {"closing", "opened"} /\ prompt # f
      BY <1>0, <1>1, <2>3
    <3>2. /\ Grows(t) /\ (Stays(t) \/ Resets \/ Closes(t))
          /\ NewFlow(f) /\ \A s \in Slots : s # f => flows'[s] = flows[s]
      BY <1>1, <2>3, <3>1, ProceedDoes
    <3> QED  BY <3>1, <3>2
  <2> QED  BY <1>0, <2>1, <2>2, <2>3
<1>3. Made' = Made /\ (Offering' <=> Offering) /\ (Offering => flows'[prompt'] = flows[prompt])
  BY <1>0, <1>1, <1>2 DEF Made, Offering
<1>4. \A g \in Slots : /\ flows'[g].doc \in Made \cup {Absent}
                       /\ flows'[g].pc \in {"loading", "opened"} \/ flows'[g].kind = "recent"
                            => flows'[g].path # NoPath
  <2> SUFFICES ASSUME NEW g \in Slots
               PROVE  flows'[g].doc \in Made \cup {Absent} /\ FlowRule(flows'[g])
    BY DEF FlowRule
  <2>1. flows[g].doc \in Made \cup {Absent} /\ FlowRule(flows[g])  BY DEF TypeInv, FlowRule
  <2> QED  BY <1>2, <2>1 DEF NewFlow
<1>5. ASSUME NEW c \in InFlight(ipc')
      PROVE  /\ c.cmd \notin Autosaves
             /\ c.cmd \in {"save_project", "load_project"} => c.path # NoPath
             /\ c.cmd \in {"save_project"} \cup Autosaves => c.doc \in Made
  <2>1. CASE c \in InFlight(t)  BY <1>1, <2>1 DEF TypeInv
  <2>2. CASE c = Clear(NoSlot) \/ c.cmd = "set_dirty"
    BY <2>2, ClearFields DEF Autosaves
  <2>3. CASE /\ c.cmd \in {"save_project", "load_project"} /\ c.path # NoPath
             /\ c.cmd = "save_project" => c.doc = doc
    BY <2>3 DEF TypeInv, Autosaves
  <2> QED  BY <1>2, <2>1, <2>2, <2>3 DEF Grows
<1>6. /\ doc' \in Made /\ path' \in Paths \cup {NoPath} /\ dragging' \in BOOLEAN
      /\ origin' \in {"fresh", "edited", "dragged", "loaded", "restored", "crashed", "closed"}
  <2>1. 0 \in Made  BY DEF TypeInv, Made
  <2> QED  BY <1>2, <2>1 DEF TypeInv, Stays, Resets, Closes
<1>7. /\ working' \in Made \cup {Absent} /\ workingPath' \in Paths \cup {NoPath}
      /\ meta' \in [path : Paths \cup {NoPath}, time : 0 .. clock \cup {Absent}] /\ botched' \in BOOLEAN
  BY <1>0 DEF TypeInv
<1>8. TypeInv'  BY <1>0, <1>3, <1>4, <1>5, <1>6, <1>7 DEF TypeInv
<1>9. ~MetaLive'  BY <1>0 DEF MetaLive
<1>10. OfferIsClean' /\ PairIsWhole'
  BY <1>2, <1>3, <1>9 DEF RecoveryInv, OfferIsClean, PairIsWhole, Stays, Resets, Closes
<1>11. ~Resting'  BY <1>0, <1>2, <1>r DEF Resting, Stays, Resets, Closes
<1>12. RestIsSaved' /\ MetaComesNext' /\ AutosaveIsOurs' /\ MetaIsOurs' /\ SavedIsOlder'
  BY <1>5, <1>9, <1>11 DEF RestIsSaved, MetaComesNext, AutosaveIsOurs, MetaIsOurs, SavedIsOlder, Autosaves
<1> QED  BY <1>8, <1>10, <1>12 DEF RecoveryInv, Kept

\* One of the two files is removed: what is left is not offered, or is whole.
LEMMA ExecRemoveKeeps ==
  ASSUME FlowsOK, TypeInv, RecoveryInv, ExecRemove
  PROVE  Kept
<1> DEFINE h == Head(ipc)
<1>0. /\ h.cmd = "clear_recovery" /\ ipc # << >>
      /\ UNCHANGED <<doc, path, dirty, dragging, origin, owed, timer, flows, prompt, ipc, backendDirty>>
      /\ UNCHANGED <<disk, mtime, botched, clock, made>>
      /\ \/ working' = Absent /\ workingPath' = NoPath /\ meta' = meta
         \/ meta' = NoMeta /\ working' = working /\ workingPath' = workingPath
  BY DEF ExecRemove, Executes, store, web
<1>1. /\ h \in InFlight(ipc)
      /\ \A c \in InFlight(ipc) : c.cmd \notin Autosaves
  <2>1. h \in InFlight(ipc) /\ InFlight(ipc) = {h} \cup InFlight(Tail(ipc))
        /\ \A c \in InFlight(Tail(ipc)) : c.cmd \notin Autosaves
    BY <1>0, ExecPops
  <2> QED  BY <1>0, <2>1 DEF Autosaves
<1>2. InFlightHas({"clear_recovery"}) /\ InFlightHas({"push_recent", "clear_recovery"})
  BY <1>0, <1>1 DEF InFlightHas
<1> HIDE DEF h
<1>3. Made' = Made /\ (Offering' <=> Offering) /\ (MetaLive' => MetaLive /\ meta' = meta /\ working' = Absent)
  BY <1>0 DEF Made, Offering, MetaLive, Newer
<1>4. TypeInv'
  <2>1. /\ working' \in Made \cup {Absent} /\ workingPath' \in Paths \cup {NoPath}
        /\ meta' \in [path : Paths \cup {NoPath}, time : 0 .. clock \cup {Absent}]
    BY <1>0 DEF TypeInv, NoMeta
  <2> QED  BY <1>0, <1>3, <2>1 DEF TypeInv
<1>5. ~Resting'
  BY <1>0, <1>2 DEF Resting, RecoveryInv, RestIsSaved
<1>6. OfferIsClean' /\ PairIsWhole' /\ RestIsSaved'
  BY <1>0, <1>2, <1>3, <1>5 DEF RecoveryInv, OfferIsClean, PairIsWhole, RestIsSaved, InFlightHas
<1>7. MetaComesNext' /\ AutosaveIsOurs'
  BY <1>0, <1>1 DEF MetaComesNext, AutosaveIsOurs, Autosaves
<1>8. (ClearComing' <=> ClearComing) /\ (DiscardComing' <=> DiscardComing)
      /\ (Leaving("closing")' <=> Leaving("closing")) /\ (Leaving("opened")' <=> Leaving("opened"))
  BY <1>0, <1>3 DEF ClearComing, InFlightHas, DiscardComing, Leaving, At
<1>9. MetaIsOurs' /\ SavedIsOlder'
  BY <1>0, <1>3, <1>8 DEF RecoveryInv, MetaIsOurs, SavedIsOlder
<1> QED  BY <1>4, <1>6, <1>7, <1>9 DEF RecoveryInv, Kept

\* A write of the autosave fails: nothing is promised of the files until the next.
LEMMA ExecAutosaveFailsKeeps ==
  ASSUME FlowsOK, TypeInv, RecoveryInv, ExecAutosaveFails
  PROVE  Kept
<1> DEFINE h == Head(ipc)
           t == Tail(ipc)
<1>0. /\ h.cmd \in Autosaves /\ ipc # << >> /\ ipc' = t /\ botched' = TRUE
      /\ UNCHANGED <<doc, path, dirty, dragging, origin, owed, timer, flows, prompt, backendDirty>>
      /\ UNCHANGED <<disk, mtime, working, meta, workingPath, clock, made>>
  BY DEF ExecAutosaveFails, Executes, store, web, Autosaves
<1>1. InFlight(ipc) = {h} \cup InFlight(t) /\ \A c \in InFlight(t) : c.cmd \notin Autosaves
  BY <1>0, ExecPops
<1> HIDE DEF h, t
<1>2. Made' = Made /\ (Offering' <=> Offering) /\ ~MetaLive' /\ (Resting' <=> Resting)
  BY <1>0 DEF Made, Offering, MetaLive, Resting
<1>3. TypeInv'  BY <1>0, <1>1, <1>2 DEF TypeInv
<1>4. OfferIsClean' /\ PairIsWhole'
  BY <1>0, <1>2 DEF RecoveryInv, OfferIsClean, PairIsWhole
<1>5. RestIsSaved'
  BY <1>0, <1>1, <1>2 DEF RecoveryInv, RestIsSaved, InFlightHas
<1>6. MetaComesNext' /\ AutosaveIsOurs' /\ MetaIsOurs' /\ SavedIsOlder'
  BY <1>0, <1>1, <1>2 DEF MetaComesNext, AutosaveIsOurs, MetaIsOurs, SavedIsOlder, Autosaves
<1> QED  BY <1>3, <1>4, <1>5, <1>6 DEF RecoveryInv, Kept

\* write_recovery has written the document: its metadata is the next call.
LEMMA ExecAutosaveDocKeeps ==
  ASSUME FlowsOK, TypeInv, RecoveryInv, ExecAutosaveDoc
  PROVE  Kept
<1> DEFINE h == Head(ipc)
           t == Tail(ipc)
           m == [h EXCEPT !.cmd = "autosave_meta"]
<1>0. /\ h.cmd = "autosave_recovery" /\ ipc # << >> /\ clock < MaxWrites /\ clock' = clock + 1
      /\ working' = h.doc /\ workingPath' = h.path /\ ipc' = <<m>> \o t
      /\ UNCHANGED <<doc, dirty, path, dragging, origin, owed, timer, flows, prompt, backendDirty, disk, mtime, meta, botched, made>>
  BY DEF ExecAutosaveDoc, Executes, Tick, store, web
<1>1. /\ t \in Seq(Calls) /\ h \in InFlight(ipc) /\ h \in Calls
      /\ \A c \in InFlight(t) : c.cmd \notin Autosaves
      /\ InFlight(ipc) = {h} \cup InFlight(t)
  BY <1>0, ExecPops
<1>2. m \in Calls /\ m.cmd = "autosave_meta" /\ m.path = h.path /\ m.doc = h.doc /\ m.slot = h.slot
  BY <1>1 DEF Calls, Commands
<1> HIDE DEF m
<1>3. InFlight(ipc') = {m} \cup InFlight(t)  BY <1>0, <1>1, <1>2, PutCalls
<1> HIDE DEF h, t
<1>4. h.doc \in Made /\ h.doc # Absent /\ h.path \in Paths \cup {NoPath}
  <2>1. h.doc \in Made /\ h.path \in Paths \cup {NoPath}
    BY <1>0, <1>1 DEF TypeInv, Autosaves, Calls
  <2> QED  BY <2>1 DEF TypeInv, Made, Absent
<1>5. /\ clock \in Nat /\ clock' \in 0 .. MaxWrites
      /\ mtime' \in [Paths -> 0 .. clock'] /\ \A p \in Paths : mtime[p] < clock'
      /\ meta' \in [path : Paths \cup {NoPath}, time : 0 .. clock' \cup {Absent}]
  <2>1. /\ clock \in 0 .. MaxWrites /\ mtime \in [Paths -> 0 .. clock] /\ MaxWrites \in Nat
        /\ meta \in [path : Paths \cup {NoPath}, time : 0 .. clock \cup {Absent}]
    BY BoundsAssumption DEF TypeInv
  <2>2. clock' \in 0 .. MaxWrites /\ clock \in Nat /\ 0 .. clock \subseteq 0 .. clock'
    BY <1>0, <2>1
  <2>3. mtime \in [Paths -> 0 .. clock']  BY <2>1, <2>2
  <2>4. meta \in [path : Paths \cup {NoPath}, time : 0 .. clock' \cup {Absent}]  BY <2>1, <2>2
  <2>5. \A p \in Paths : mtime[p] < clock'
    <3>1. \A p \in Paths : mtime[p] \in 0 .. clock  BY <2>1
    <3> QED  BY <1>0, <2>2, <3>1
  <2> QED  BY <1>0, <2>2, <2>3, <2>4, <2>5
<1>6. Made' = Made /\ (Offering' <=> Offering) /\ (MetaLive' <=> MetaLive)
  BY <1>0 DEF Made, Offering, MetaLive, Newer
<1>7. \A c \in InFlight(ipc') :
        /\ c.cmd \in {"save_project", "load_project"} => c.path # NoPath
        /\ c.cmd \in {"save_project"} \cup Autosaves => c.doc \in Made
  <2>1. \A c \in InFlight(ipc') : c \in InFlight(ipc) \/ c = m  BY <1>1, <1>3
  <2> QED  BY <1>2, <1>4, <2>1 DEF TypeInv, Autosaves
<1>8. TypeInv'  BY <1>0, <1>4, <1>5, <1>6, <1>7 DEF TypeInv
<1>9. OfferIsClean' /\ PairIsWhole'
  BY <1>0, <1>4, <1>6 DEF RecoveryInv, OfferIsClean, PairIsWhole
<1>h. h.cmd \in Autosaves /\ h.cmd \notin {"push_recent", "clear_recovery"}  BY <1>0 DEF Autosaves
<1>10. RestIsSaved'
  <2> SUFFICES ASSUME Resting' PROVE
        /\ ~InFlightHas({"push_recent", "clear_recovery"})'
        /\ \A c \in InFlight(ipc') : c.cmd \in Autosaves => c.path = path' /\ c.doc = doc'
        /\ InFlightHas(Autosaves)'
    BY DEF RestIsSaved
  <2>1. Resting  BY <1>0 DEF Resting
  <2>2. /\ ~InFlightHas({"push_recent", "clear_recovery"})
        /\ h.path = path /\ h.doc = doc
    BY <1>1, <1>h, <2>1 DEF RecoveryInv, RestIsSaved
  <2>3. m.cmd \in Autosaves /\ m.cmd \notin {"push_recent", "clear_recovery"}  BY <1>2 DEF Autosaves
  <2>4. InFlightHas(Autosaves)'  BY <1>3, <2>3 DEF InFlightHas
  <2>5. ~InFlightHas({"push_recent", "clear_recovery"})'  BY <1>1, <1>3, <2>2, <2>3 DEF InFlightHas
  <2> QED  BY <1>0, <1>1, <1>2, <1>3, <2>2, <2>4, <2>5
<1>11. MetaComesNext'
  BY <1>0, <1>1, <1>2, <1>3, <1>5 DEF MetaComesNext, Autosaves
<1>12. (ClearComing' <=> ClearComing) /\ (DiscardComing' <=> DiscardComing)
  <2>1. m.cmd \notin {"push_recent", "clear_recovery"}  BY <1>2
  <2>2. \A c : c.cmd \in {"push_recent", "clear_recovery"} => (c \in InFlight(ipc') <=> c \in InFlight(ipc))
    BY <1>1, <1>3, <1>h, <2>1
  <2> QED  BY <1>6, <2>2 DEF ClearComing, InFlightHas, DiscardComing
<1>13. /\ Leaving("closing")' <=> Leaving("closing")
       /\ Leaving("opened")' <=> Leaving("opened")
  BY <1>0 DEF Leaving, At
<1>14. /\ MetaLive => meta.path = h.path
       /\ h.path = path \/ ClearComing
       /\ dirty \/ Leaving("closing") \/ DiscardComing
  BY <1>0, <1>1, <1>h DEF RecoveryInv, AutosaveIsOurs
<1>15. AutosaveIsOurs'
  <2>1. \A c \in InFlight(ipc') : c.cmd \in Autosaves => c = m  BY <1>1, <1>3
  <2> QED  BY <1>0, <1>2, <1>12, <1>13, <1>14, <2>1 DEF AutosaveIsOurs
<1>16. MetaIsOurs'  BY <1>0, <1>6, <1>12, <1>14 DEF RecoveryInv, MetaIsOurs
<1>17. SavedIsOlder'  BY <1>0, <1>6, <1>12, <1>13 DEF RecoveryInv, SavedIsOlder
<1> QED  BY <1>8, <1>9, <1>10, <1>11, <1>15, <1>16, <1>17 DEF RecoveryInv, Kept

\* write_recovery has written the metadata: the pair is this document at this path.
LEMMA ExecAutosaveMetaKeeps ==
  ASSUME FlowsOK, TypeInv, RecoveryInv, ExecAutosaveMeta
  PROVE  Kept
<1> DEFINE h == Head(ipc)
           t == Tail(ipc)
<1>0. /\ h.cmd = "autosave_meta" /\ ipc # << >>
      /\ meta' = [path |-> h.path, time |-> clock] /\ ipc' = t
      /\ UNCHANGED <<doc, dirty, path, dragging, origin, owed, timer, flows, prompt, backendDirty>>
      /\ UNCHANGED <<disk, mtime, working, workingPath, clock, made>> /\ botched' = FALSE
  BY DEF ExecAutosaveMeta, Executes, store, web
<1>1. /\ h \in InFlight(ipc) /\ h \in Calls
      /\ \A c \in InFlight(t) : c.cmd \notin Autosaves
      /\ InFlight(ipc) = {h} \cup InFlight(t)
  BY <1>0, ExecPops
<1> HIDE DEF h, t
<1>2. /\ h.path \in Paths \cup {NoPath} /\ h.doc \in Made /\ h.doc # Absent
      /\ working = h.doc /\ workingPath = h.path /\ \A p \in Paths : mtime[p] < clock
  <2>1. h.path \in Paths \cup {NoPath} /\ h.doc \in Made
    BY <1>0, <1>1 DEF TypeInv, Autosaves, Calls
  <2>2. h.doc # Absent  BY <2>1 DEF TypeInv, Made, Absent
  <2> QED  BY <1>0, <1>1, <2>1, <2>2 DEF RecoveryInv, MetaComesNext
<1>3. h.cmd \in Autosaves /\ h.cmd \notin {"push_recent", "clear_recovery"}  BY <1>0 DEF Autosaves
<1>4. /\ h.path = path \/ ClearComing
      /\ dirty \/ Leaving("closing") \/ DiscardComing
  BY <1>1, <1>3 DEF RecoveryInv, AutosaveIsOurs
<1>5. /\ clock \in Nat /\ clock # Absent /\ meta'.path = h.path /\ meta'.time = clock /\ meta' # NoMeta
      /\ meta' \in [path : Paths \cup {NoPath}, time : 0 .. clock \cup {Absent}]
  <2>1. clock \in 0 .. MaxWrites /\ MaxWrites \in Nat  BY BoundsAssumption DEF TypeInv
  <2>2. clock \in Nat /\ clock \in 0 .. clock /\ clock # -1  BY <2>1
  <2>3. meta'.path = h.path /\ meta'.time = clock  BY <1>0
  <2>4. NoMeta.time = -1  BY DEF NoMeta, Absent
  <2> QED  BY <1>0, <1>2, <2>2, <2>3, <2>4 DEF Absent
<1>6. Made' = Made /\ (Offering' <=> Offering)  BY <1>0 DEF Made, Offering
<1>7. TypeInv'  BY <1>0, <1>1, <1>5, <1>6 DEF TypeInv
<1>8. OfferIsClean' /\ PairIsWhole'
  BY <1>0, <1>2, <1>6 DEF RecoveryInv, OfferIsClean, PairIsWhole
<1>9. MetaLive'
  <2>1. h.path = NoPath \/ h.path \in Paths  BY <1>2
  <2> QED  BY <1>0, <1>2, <1>5, <2>1 DEF MetaLive, Newer
<1>10. RestIsSaved'
  <2> SUFFICES ASSUME Resting' PROVE
        ~InFlightHas({"push_recent", "clear_recovery"})' /\ Recoverable'
    BY <1>0, <1>1 DEF RestIsSaved
  <2>1. Resting  BY <1>0 DEF Resting
  <2>2. ~InFlightHas({"push_recent", "clear_recovery"}) /\ h.path = path /\ h.doc = doc
    BY <1>1, <1>3, <2>1 DEF RecoveryInv, RestIsSaved
  <2>3. Offerable'  BY <1>0, <1>2, <1>9 DEF MetaLive, Offerable
  <2>4. Recoverable'  BY <1>0, <1>2, <1>5, <2>2, <2>3 DEF Recoverable
  <2>5. ~InFlightHas({"push_recent", "clear_recovery"})'  BY <1>0, <1>1, <2>2 DEF InFlightHas
  <2> QED  BY <2>4, <2>5
<1>11. MetaComesNext' /\ AutosaveIsOurs'
  BY <1>0, <1>1 DEF MetaComesNext, AutosaveIsOurs, Autosaves
<1>12. (ClearComing => ClearComing') /\ (DiscardComing => DiscardComing')
  <2>1. \A c \in InFlight(ipc) : c.cmd \in {"push_recent", "clear_recovery"} => c \in InFlight(ipc')
    BY <1>0, <1>1, <1>3
  <2> QED  BY <1>6, <2>1 DEF ClearComing, InFlightHas, DiscardComing
<1>13. MetaIsOurs'  BY <1>0, <1>2, <1>4, <1>5, <1>12 DEF MetaIsOurs
<1>14. SavedIsOlder'
  <2>1. Leaving("closing") => Leaving("closing")'  BY <1>0 DEF Leaving, At
  <2> QED  BY <1>0, <1>4, <1>12, <2>1 DEF SavedIsOlder
<1> QED  BY <1>7, <1>8, <1>10, <1>11, <1>13, <1>14 DEF RecoveryInv, Kept

\* The mirror of the flag and a failed save touch neither document nor file.
LEMMA QuietExecsKeep ==
  ASSUME FlowsOK, TypeInv, RecoveryInv, ExecSetDirty \/ ExecSaveFails
  PROVE  Kept
<1> DEFINE h == Head(ipc)
           f == Head(ipc).slot
           t == Tail(ipc)
<1>0. /\ ipc # << >> /\ ipc' = t /\ h.cmd \in {"set_dirty", "save_project"}
      /\ UNCHANGED <<doc, path, dirty, dragging, origin, owed, timer, files, made, prompt>>
  BY DEF ExecSetDirty, ExecSaveFails, Executes, store, web
<1>1. InFlight(ipc) = {h} \cup InFlight(t)  BY <1>0, ExecPops
<1>2. \A s \in Slots : \/ flows'[s] = flows[s]
                       \/ flows'[s] = Idle /\ prompt # s /\ flows[s].pc \in {"writing", "loading"}
  <2>1. CASE ExecSetDirty  BY <2>1 DEF ExecSetDirty, web
  <2>2. CASE ExecSaveFails
    <3>1. h.cmd = "save_project" /\ Finish(f)  BY <2>2 DEF ExecSaveFails, Executes
    <3>2. f \in Slots /\ prompt # f /\ flows[f].pc = "writing"
      BY <1>0, <3>1, ExecPops DEF Awaiting
    <3>3. flows'[f] = Idle /\ \A s \in Slots : s # f => flows'[s] = flows[s]
      BY <3>1, <3>2, FinishMoves DEF OnlyFlow
    <3> HIDE DEF f
    <3> QED  BY <3>2, <3>3
  <2> QED  BY <2>1, <2>2
<1> HIDE DEF h, t
<1>3. \A c \in InFlight(ipc) : c \in InFlight(ipc') \/ c.cmd \in {"set_dirty", "save_project", "load_project"}
  BY <1>0, <1>1
<1>4. InFlight(ipc') \subseteq InFlight(ipc)  BY <1>0, <1>1
<1> QED  BY <1>0, <1>2, <1>3, <1>4, QuietStepKeeps

\* A crash or a close loses the webview and keeps the files, and the offer is of them.
LEMMA RelaunchKeeps ==
  ASSUME FlowsOK, TypeInv, RecoveryInv, NEW how \in {"crashed", "closed"}, Relaunch(how)
  PROVE  Kept
<1>0. /\ doc' = 0 /\ path' = NoPath /\ dirty' = FALSE /\ dragging' = FALSE /\ origin' = how
      /\ owed' = FALSE /\ timer' = FALSE /\ ipc' = << >>
      /\ UNCHANGED <<disk, mtime, working, meta, workingPath, clock, made>>
      /\ botched' = (botched \/ (working = Absent /\ meta # NoMeta))
  BY DEF Relaunch, Replace, files
<1>1. InFlight(ipc') = {}  BY <1>0, EmptySeq DEF InFlight
<1>2. Made' = Made /\ 0 \in Made /\ meta.path \in Paths \cup {NoPath}
  BY <1>0 DEF Made, TypeInv
<1>3. /\ Offering' <=> Offerable
      /\ Offering' => flows'[prompt'].doc \in Made
      /\ \A s \in Slots : /\ flows'[s].doc \in Made \cup {Absent}
                          /\ flows'[s].pc \in {"loading", "opened"} \/ flows'[s].kind = "recent"
                               => flows'[s].path # NoPath
  <2>1. CASE Offerable
    <3>1. PICK f \in Slots :
              /\ prompt' = f
              /\ flows' = [s \in Slots |->
                   IF s = f THEN Flow("asked", "offer", meta.path, working) ELSE Idle]
      BY <2>1 DEF Relaunch
    <3>2. working \in Made /\ working \in Int  BY <2>1 DEF Offerable, TypeInv, Made
    <3>3. "asked" \in Steps /\ "offer" \in Kinds  BY DEF Steps, Kinds
    <3>4. /\ Flow("asked", "offer", meta.path, working).pc = "asked"
          /\ Flow("asked", "offer", meta.path, working).kind = "offer"
          /\ Flow("asked", "offer", meta.path, working).doc = working
      BY <1>2, <3>2, <3>3, FlowFields
    <3>5. f # NoSlot  BY PathsAssumption
    <3>6. Offering' /\ flows'[prompt'].doc \in Made  BY <3>1, <3>2, <3>4, <3>5 DEF Offering
    <3>7. \A s \in Slots : /\ flows'[s].doc \in Made \cup {Absent}
                           /\ flows'[s].pc \notin {"loading", "opened"} /\ flows'[s].kind # "recent"
      BY <3>1, <3>2, <3>4, IdleFields
    <3> QED  BY <2>1, <3>6, <3>7
  <2>2. CASE ~Offerable
    <3>1. prompt' = NoSlot /\ flows' = [s \in Slots |-> Idle]  BY <2>2 DEF Relaunch
    <3> QED  BY <2>2, <3>1, IdleFields DEF Offering
  <2> QED  BY <2>1, <2>2
<1>4. TypeInv'  BY <1>0, <1>1, <1>2, <1>3 DEF TypeInv
<1>5. MetaLive' => MetaLive /\ working # Absent  BY <1>0 DEF MetaLive, Newer
<1>6. OfferIsClean' /\ PairIsWhole'
  BY <1>0, <1>5 DEF RecoveryInv, OfferIsClean, PairIsWhole
<1>7. RestIsSaved' /\ MetaComesNext' /\ AutosaveIsOurs' /\ SavedIsOlder'
  BY <1>0, <1>1 DEF RestIsSaved, Resting, MetaComesNext, AutosaveIsOurs, SavedIsOlder
<1>8. MetaIsOurs'
  <2> SUFFICES ASSUME MetaLive, working # Absent PROVE meta.path = workingPath /\ ClearComing'
    BY <1>0, <1>5 DEF MetaIsOurs
  <2>1. meta.path = workingPath  BY DEF RecoveryInv, MetaIsOurs
  <2>2. Offerable  BY DEF MetaLive, Offerable
  <2> QED  BY <1>3, <2>1, <2>2 DEF ClearComing
<1> QED  BY <1>4, <1>6, <1>7, <1>8 DEF RecoveryInv, Kept

-----------------------------------------------------------------------------
(* The theorems. *)

\* The inductive invariant.
IInv == FlowsOK /\ TypeInv /\ RecoveryInv

\* The invariant holds at the start,
LEMMA InitIInv == Init => IInv
<1> SUFFICES ASSUME Init PROVE IInv  OBVIOUS
<1>0. /\ doc = 0 /\ made = 0 /\ clock = 0 /\ path = NoPath /\ dirty = FALSE /\ dragging = FALSE
      /\ origin = "fresh" /\ owed = FALSE /\ timer = FALSE /\ ipc = << >> /\ prompt = NoSlot
      /\ flows = [s \in Slots |-> Idle] /\ disk = [p \in Paths |-> Absent]
      /\ mtime = [p \in Paths |-> 0] /\ working = Absent /\ meta = NoMeta /\ workingPath = NoPath
      /\ botched = FALSE
  BY DEF Init
<1>1. InFlight(ipc) = {}  BY <1>0, EmptySeq DEF InFlight
<1>2. ~Offering /\ ~MetaLive  BY <1>0 DEF Offering, MetaLive
<1>3. TypeInv
  <2>1. made \in 0 .. MaxVersions /\ clock \in 0 .. MaxWrites /\ doc \in Made
    BY <1>0, BoundsAssumption DEF Made
  <2>2. \A f \in Slots : flows[f] = Idle  BY <1>0
  <2>3. /\ disk \in [Paths -> Made \cup {Absent}] /\ mtime \in [Paths -> 0 .. clock]
        /\ meta \in [path : Paths \cup {NoPath}, time : 0 .. clock \cup {Absent}]
    BY <1>0 DEF NoMeta
  <2> QED  BY <1>0, <1>1, <1>2, <2>1, <2>2, <2>3, IdleFields DEF TypeInv
<1>4. RecoveryInv
  BY <1>0, <1>1, <1>2 DEF RecoveryInv, OfferIsClean, PairIsWhole, RestIsSaved, Resting, MetaComesNext,
     AutosaveIsOurs, MetaIsOurs, SavedIsOlder
<1> QED  BY <1>3, <1>4, FlowsInit DEF IInv

\* every step keeps it,
LEMMA NextIInv == IInv /\ [Next]_vars => IInv'
<1> SUFFICES ASSUME FlowsOK, TypeInv, RecoveryInv, [Next]_vars PROVE IInv'
  BY DEF IInv
<1>1. FlowsOK'  BY FlowsStep
<1>o. owed' \in BOOLEAN  BY OwedIsFlag
<1>p. prompt' \in Slots \cup {NoSlot}  BY <1>1 DEF FlowsOK
<1>w. WebStep => Kept  BY <1>o, <1>p, WebStepKeepsTypes, WebStepKeepsRecovery DEF Kept
<1>2. Kept
  <2>1. CASE Edit \/ DragMove \/ DragEnd  BY <2>1, EditsKeep
  <2>2. CASE Start  BY <1>w, <2>2, StartsAreWebSteps
  <2>3. CASE AnswerGuard \/ AnswerOffer  BY <1>w, <2>3, AnswersAreWebSteps
  <2>4. CASE PickPath  BY <1>w, <2>4, PickPathIsWebStep
  <2>5. CASE TimerFires  BY <2>5, TimerKeeps
  <2>6. CASE Exec
    BY <1>o, <2>6, QuietExecsKeep, ExecSaveKeeps, ExecLoadKeeps, ExecRecentKeeps, ExecRemoveKeeps,
       ExecClearKeeps, ExecAutosaveDocKeeps, ExecAutosaveMetaKeeps, ExecAutosaveFailsKeeps DEF Exec
  <2>7. CASE Crash \/ CloseWindow  BY <2>7, RelaunchKeeps DEF Crash, CloseWindow
  <2>8. CASE UNCHANGED vars
    <3>1. UNCHANGED <<doc, path, dirty, dragging, origin, owed, timer, files, made, prompt, flows, ipc>>
      BY <2>8 DEF vars, store, web
    <3> QED  BY <3>1, QuietStepKeeps
  <2> QED  BY <2>1, <2>2, <2>3, <2>4, <2>5, <2>6, <2>7, <2>8 DEF Next
<1> QED  BY <1>1, <1>2 DEF IInv, Kept

\* and so it holds.
LEMMA SpecIInv == Spec => []IInv
BY InitIInv, NextIInv, PTL DEF Spec

\* however questions are asked on top of one another, a flow waits for an answer
\* exactly when its question is the one on screen (ask of confirmStore.ts).
THEOREM AskersOnScreen == Spec => []EveryAskerIsOnScreen
<1>1. IInv => EveryAskerIsOnScreen  BY DEF IInv, FlowsOK
<1> QED  BY <1>1, SpecIInv, PTL

\* once the calls to set_dirty have landed, the flag the close handler reads is
\* the flag of the store, whatever saves, loads and edits overlapped.
THEOREM VetoFollows == Spec => []VetoFollowsTheStore
<1>1. IInv => VetoFollowsTheStore
  <2> SUFFICES ASSUME IInv, \A i \in DOMAIN ipc : ipc[i].cmd # "set_dirty" PROVE backendDirty = dirty
    BY DEF VetoFollowsTheStore
  <2>1. ipc \in Seq(Calls) /\ Mirrored(ipc, backendDirty, dirty)  BY DEF IInv, FlowsOK, QueueOK
  <2>2. DOMAIN ipc = 1 .. Len(ipc)  BY <2>1, LenProperties
  <2> QED  BY <2>1, <2>2 DEF Mirrored
<1> QED  BY <1>1, SpecIInv, PTL

\* What the run checks follows from the invariant.
LEMMA RecoveryFollows == IInv => RecoveryIsRight
<1> SUFFICES ASSUME IInv PROVE RecoveryIsRight  OBVIOUS
<1>0. FlowsOK /\ TypeInv /\ RecoveryInv  BY DEF IInv
<1>q. ipc \in Seq(Calls)  BY <1>0 DEF FlowsOK, QueueOK
<1>i. DOMAIN ipc = 1 .. Len(ipc)  BY <1>q, LenProperties
<1>b. Made \subseteq Versions /\ 0 .. clock \subseteq 0 .. MaxWrites
  BY <1>0, BoundsAssumption DEF TypeInv, Made, Versions
<1>1. TypeOK
  <2>1. \A f \in Slots : flows[f].path \in Paths \cup {NoPath}  BY <1>0 DEF FlowsOK, Flows
  <2>2. mtime \in [Paths -> 0 .. MaxWrites] /\ disk \in [Paths -> Versions \cup {Absent}]
    BY <1>0, <1>b DEF TypeInv
  <2>3. meta.path \in Paths \cup {NoPath} /\ meta.time \in 0 .. MaxWrites \cup {Absent}
    BY <1>0, <1>b DEF TypeInv
  <2>4. made \in Versions  BY <1>0 DEF TypeInv, Versions
  <2> QED  BY <1>0, <1>b, <2>1, <2>2, <2>3, <2>4 DEF TypeInv, TypeOK, FlowsOK
<1>2. ~botched => EditedWorkIsRecoverable
  <2> SUFFICES ASSUME ~botched, Quiet("edited") PROVE Recoverable  BY DEF EditedWorkIsRecoverable
  <2>1. Resting  BY DEF Quiet, Resting
  <2>2. ~InFlightHas(Autosaves)
    BY <1>i DEF Quiet, AutosaveUnderWay, InFlightHas, InFlight, Autosaves
  <2> QED  BY <1>0, <2>1, <2>2 DEF RecoveryInv, RestIsSaved
<1>3. ~botched => RecoveryKeepsItsPath
  BY <1>0 DEF RecoveryKeepsItsPath, Offerable, RecoveryInv, MetaIsOurs, MetaLive
<1>4. ~botched => SavedWorkIsNotOffered
  <2> SUFFICES ASSUME ~botched, SaveHasLanded, meta.path = path, Offerable PROVE FALSE
    BY DEF SavedWorkIsNotOffered
  <2>1. doc # disk[path] \/ Leaving("closing") \/ Leaving("opened") \/ DiscardComing
    BY <1>0 DEF SaveHasLanded, Offerable, RecoveryInv, SavedIsOlder, MetaLive
  <2>2. ~Leaving("closing") /\ ~Leaving("opened")
    BY DEF SaveHasLanded, Leaving, At
  <2>3. ~DiscardComing
    BY <1>i DEF SaveHasLanded, DiscardComing, InFlight
  <2> QED  BY <2>1, <2>2, <2>3 DEF SaveHasLanded
<1> QED  BY <1>1, <1>2, <1>3, <1>4 DEF RecoveryIsRight

\* work that the autosave has seen is offered after a crash, for its own path, and
\* never once the file was saved, unless a write of the autosave has failed or a clear
\* has left its metadata behind since (write_recovery, check_recovery, clear_recovery).
THEOREM RecoveryRight == Spec => []RecoveryIsRight
BY RecoveryFollows, SpecIInv, PTL
=============================================================================
