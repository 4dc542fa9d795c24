-------------------------- MODULE LogBuffer_proofs --------------------------
(***************************************************************************)
(* Proofs about LogBuffer, for any threads, processors, size of the        *)
(* buffers and number of messages: types, the order and the whereabouts of *)
(* messages, and the end of the log.                                       *)
(***************************************************************************)
EXTENDS LogBuffer, SequenceTheorems, TLAPS

\* The messages in each place.
HeadHas(m) == \E i \in 1 .. Len(buffer[head]) : buffer[head][i] = m
OldHas(m) == \E i \in written + 1 .. Len(Old) : Old[i] = m

Logging == {"put", "buffer", "buffered", "resource", "swap", "swapped", "flush",
            "write"}
Locking == {"swap", "swapped", "flush"}
Writing == {"resource", "swap", "swapped", "flush", "write"}

\* Where context c may be and what it holds there.
ContextOK(c) ==
  /\ c \in Handlers => pc[c] \in {"idle", "put", "buffer", "buffered"}
  /\ c \in Threads \union {unloader} => pc[c] \in {"idle"} \union Logging
  /\ c = flusher => pc[c] # "idle"
  /\ cur[c] # None =>
       pc[c] \in Logging /\ cur[c].by = c /\ cur[c].n = count[c]
  /\ cur[c] = None =>
       \/ pc[c] \in Resting \union {"started", "assert"}
       \/ c = flusher /\ pc[c] \in Locking \union {"resource"}
  /\ spinLock = c <=> pc[c] \in {"buffered", "swapped"}
  /\ resource = c <=> pc[c] \in Locking

Control == \A c \in Contexts : ContextOK(c)

\* How far activation and termination let the others go.
LifeOK ==
  /\ alive <=> activation \in {"alive", "done"} /\ closing \in {"no", "bye"}
  /\ fileOpen <=> activation \in {"opened", "alive", "done"} /\ closing # "freed"
  /\ closing # "no" =>
       /\ activation \in {"none", "done", "failed"}
       /\ \A c \in Threads \union Handlers : pc[c] = "idle"
  /\ closing # "bye" => pc[unloader] = "idle"
  /\ closing = "freed" => pc[flusher] \in {"none", "exited"}
  /\ pc[flusher] = "none" <=> activation # "done"
  /\ \A c \in Contexts : pc[c] \in Writing => activation \in {"alive", "done", "failed"}
  /\ activation = "done" /\ closing = "bye" => pc[unloader] \notin {"buffer", "buffered"}

\* The old buffer is empty except while somebody writes it.
OldOK ==
  /\ written <= Len(Old)
  /\ (\A c \in Contexts : pc[c] \notin {"swapped", "flush"}) => Old = <<>> /\ written = 0

Begun(m) == m.n <= count[m.by]

\* What has happened to a message.
MessagesOK ==
  /\ \A m \in Messages : InFile(m) \/ Pending(m) => Begun(m)
  /\ \A m \in returned : Begun(m) /\ cur[m.by] # m
  /\ \A c \in Contexts, m \in Messages : cur[c] = m =>
       IF pc[c] = "buffered" THEN m \in dropped \/ HeadHas(m)
       ELSE ~InFile(m) /\ ~Pending(m)
  /\ \A m \in Messages : before[m] \subseteq returned
  /\ owed \subseteq returned

\* A message is in one place only.
Distinct ==
  /\ \A i, j \in 1 .. Len(buffer[head]) : buffer[head][i] = buffer[head][j] => i = j
  /\ \A i, j \in written + 1 .. Len(Old) : Old[i] = Old[j] => i = j
  /\ \A m \in Messages : ~(HeadHas(m) /\ OldHas(m)) /\ ~(InFile(m) /\ Pending(m))

Located == \A m \in returned \ dropped : InFile(m) \/ Pending(m)

\* The file, the rest of the old buffer and the new one, read one after the
\* other, have every message after those that were over when it began.
OldOrder ==
  \A i \in written + 1 .. Len(Old), x \in Messages : Old[i] = x =>
    \A m \in before[x] \ dropped :
      InFile(m) \/ \E j \in written + 1 .. i - 1 : Old[j] = m
HeadOrder ==
  \A i \in 1 .. Len(buffer[head]), x \in Messages : buffer[head][i] = x =>
    \A m \in before[x] \ dropped :
      InFile(m) \/ OldHas(m) \/ \E j \in 1 .. i - 1 : buffer[head][j] = m
FileInOrder ==
  \A i \in 1 .. Len(file), x \in Messages : file[i] = x =>
    \A m \in before[x] \ dropped : \E j \in 1 .. i - 1 : file[j] = m

\* Who flushes before a direct write has what was over before in the file.
DirectOrder ==
  \A c \in Contexts, x \in Messages : cur[c] = x =>
    \A m \in before[x] \ dropped :
      /\ pc[c] \in {"swapped", "flush"} => InFile(m) \/ OldHas(m)
      /\ pc[c] = "write" => InFile(m)

\* Bye! is written like that after all that LogTermination found.
OwedOK ==
  activation = "done" =>
    /\ closing = "bye" /\ pc[unloader] # "idle" =>
         \A x \in Messages : cur[unloader] = x => before[x] = owed
    /\ closing = "bye" /\ pc[unloader] = "idle" => \A m \in owed \ dropped : InFile(m)
    /\ closing \in {"stop", "freed"} => \A m \in owed \ dropped : InFile(m)

Frame == TypeOK /\ Control /\ LifeOK /\ OldOK
Places == MessagesOK /\ Distinct
Ordered == Located /\ OldOrder /\ HeadOrder /\ FileInOrder /\ DirectOrder
Kept == activation # "failed" => Ordered /\ OwedOK
LogInv == Frame /\ Places /\ Kept
-----------------------------------------------------------------------------
(* Contexts and messages.                                                  *)

LEMMA ContextFacts ==
  /\ Threads \subseteq Guests /\ flusher \in Guests /\ unloader \in Guests
  /\ Guests \subseteq Contexts /\ Handlers \subseteq Contexts
  /\ flusher \notin Threads \union Handlers \union {unloader}
  /\ unloader \notin Threads \union Handlers
  /\ Threads \intersect Handlers = {}
  /\ None \notin Contexts
BY ContextsAssumption DEF Guests, Contexts

LEMMA MessageFacts ==
  ASSUME NEW m \in Messages
  PROVE  /\ m.by \in Contexts /\ m.n \in 1 .. MaxMessages[m.by]
         /\ MaxMessages[m.by] \in Nat
         /\ m = [by |-> m.by, n |-> m.n]
<1>1. PICK c \in Contexts : m \in [by : {c}, n : 1 .. MaxMessages[c]]
  BY DEF Messages
<1> QED BY <1>1, BoundsAssumption

\* The message that c begins is a new one.
NewOf(c) == [by |-> c, n |-> count[c] + 1]

LEMMA BeginFacts ==
  ASSUME TypeOK, NEW c \in Contexts, Begin(c)
  PROVE  /\ NewOf(c) \in Messages /\ NewOf(c) # None
         /\ NewOf(c).by = c /\ NewOf(c).n = count[c] + 1
         /\ ~Begun(NewOf(c))
         /\ count' = [count EXCEPT ![c] = @ + 1]
         /\ pc' = [pc EXCEPT ![c] = "put"]
         /\ cur' = [cur EXCEPT ![c] = NewOf(c)]
         /\ before' = [before EXCEPT ![NewOf(c)] = returned]
         /\ count[c] \in Nat
<1>1. count[c] \in Nat /\ count[c] < MaxMessages[c] /\ MaxMessages[c] \in Nat
  BY BoundsAssumption DEF TypeOK, Begin
<1>2. NewOf(c) \in [by : {c}, n : 1 .. MaxMessages[c]]
  BY <1>1 DEF NewOf
<1>3. NewOf(c) \in Messages
  BY <1>2 DEF Messages
<1>4. NewOf(c) # None
  BY <1>3, NoneAssumption
<1>5. ~Begun(NewOf(c))
  BY <1>1 DEF Begun, NewOf
<1> QED BY <1>1, <1>3, <1>4, <1>5 DEF Begin, Goto, NewOf

\* Who is about to put a message has one.
LEMMA CurFacts ==
  ASSUME Frame, NEW c \in Contexts,
         cur[c] # None \/ pc[c] \in {"put", "buffer", "buffered", "write"}
  PROVE  /\ cur[c] \in Messages /\ cur[c] # None
         /\ cur[c].by = c /\ cur[c].n = count[c]
         /\ pc[c] \in Logging
<1>1. cur[c] \in Messages \union {None} /\ ContextOK(c)
  BY DEF Frame, TypeOK, Control
<1>2. cur[c] # None
  BY <1>1 DEF ContextOK, Resting, Locking
<1> QED BY <1>1, <1>2 DEF ContextOK

LEMMA OtherFacts ==
  ASSUME TypeOK
  PROVE  /\ head \in {1, 2} /\ Other(head) \in {1, 2} /\ Other(head) # head
         /\ Other(Other(head)) = head
         /\ buffer[head] \in Seq(Messages) /\ Old \in Seq(Messages)
         /\ Len(buffer[head]) \in Nat /\ Len(Old) \in Nat
         /\ written \in Nat
BY LenProperties, BoundsAssumption DEF TypeOK, Other, Old
-----------------------------------------------------------------------------
(* Every step keeps the types, the places of the contexts, the bounds that *)
(* activation and termination set, and the old buffer.                     *)

LEMMA ToFileFrame ==
  ASSUME Frame, NEW c \in Contexts, ToFile(c)
  PROVE  Frame'
<1> USE ContextFacts DEF Frame, ToFile, Goto, buffers, locks, life, history, CanBePassive
<1>1. TypeOK'
  BY OtherFacts DEF TypeOK, Labels, Resting
<1>2. Control'
  <2> SUFFICES ASSUME NEW d \in Contexts PROVE ContextOK(d)'
    BY DEF Control
  <2> QED BY DEF Control, ContextOK, TypeOK, Logging, Locking, Resting
<1>3. LifeOK'
  BY DEF LifeOK, TypeOK, Control, ContextOK, Writing, Logging
<1>4. OldOK'
  BY DEF OldOK, TypeOK, Old, Other
<1> QED BY <1>1, <1>2, <1>3, <1>4

LEMMA ToBufferFrame ==
  ASSUME Frame, NEW c \in Contexts, ToBuffer(c)
  PROVE  Frame'
<1> USE ContextFacts DEF Frame, ToBuffer, Goto, buffers, locks, life, history, CanBeRaised
<1>1. TypeOK'
  BY OtherFacts DEF TypeOK, Labels, Resting
<1>2. Control'
  <2> SUFFICES ASSUME NEW d \in Contexts PROVE ContextOK(d)'
    BY DEF Control
  <2> QED BY DEF Control, ContextOK, TypeOK, Logging, Locking, Resting
<1>3. LifeOK'
  BY DEF LifeOK, TypeOK, Control, ContextOK, Writing, Logging
<1>4. OldOK'
  BY DEF OldOK, TypeOK, Old, Other
<1> QED BY <1>1, <1>2, <1>3, <1>4

LEMMA AcquireResourceFrame ==
  ASSUME Frame, NEW c \in Contexts, AcquireResource(c)
  PROVE  Frame'
<1> USE ContextFacts DEF Frame, AcquireResource, Goto, buffers, locks, life, history
<1>1. TypeOK'
  BY OtherFacts DEF TypeOK, Labels, Resting, Control, ContextOK, Contexts
<1>2. Control'
  <2> SUFFICES ASSUME NEW d \in Contexts PROVE ContextOK(d)'
    BY DEF Control
  <2> QED BY DEF Control, ContextOK, TypeOK, Logging, Locking, Resting
<1>3. LifeOK'
  BY DEF LifeOK, TypeOK, Control, ContextOK, Writing, Logging
<1>4. OldOK'
  BY DEF OldOK, TypeOK, Old, Other
<1> QED BY <1>1, <1>2, <1>3, <1>4

LEMMA SwappedFrame ==
  ASSUME Frame, NEW c \in Contexts, Swapped(c)
  PROVE  Frame'
<1> USE ContextFacts DEF Frame, Swapped, Goto, buffers, locks, life, history
<1>1. TypeOK'
  BY OtherFacts DEF TypeOK, Labels, Resting
<1>2. Control'
  <2> SUFFICES ASSUME NEW d \in Contexts PROVE ContextOK(d)'
    BY DEF Control
  <2> QED BY DEF Control, ContextOK, TypeOK, Logging, Locking, Resting
<1>3. LifeOK'
  BY DEF LifeOK, TypeOK, Control, ContextOK, Writing, Logging
<1>4. OldOK'
  BY DEF OldOK, TypeOK, Old, Other
<1> QED BY <1>1, <1>2, <1>3, <1>4

LEMMA OpenFileFrame ==
  ASSUME Frame, OpenFile
  PROVE  Frame'
<1> USE ContextFacts DEF Frame, OpenFile, Goto, buffers, locks, life, history
<1>1. TypeOK'
  BY OtherFacts DEF TypeOK, Labels, Resting
<1>2. Control'
  <2> SUFFICES ASSUME NEW d \in Contexts PROVE ContextOK(d)'
    BY DEF Control
  <2> QED BY DEF Control, ContextOK, TypeOK, Logging, Locking, Resting
<1>3. LifeOK'
  BY DEF LifeOK, TypeOK, Control, ContextOK, Writing, Logging
<1>4. OldOK'
  BY DEF OldOK, TypeOK, Old, Other
<1> QED BY <1>1, <1>2, <1>3, <1>4

LEMMA SetAliveFrame ==
  ASSUME Frame, SetAlive
  PROVE  Frame'
<1> USE ContextFacts DEF Frame, SetAlive, Goto, buffers, locks, life, history
<1>1. TypeOK'
  BY OtherFacts DEF TypeOK, Labels, Resting
<1>2. Control'
  <2> SUFFICES ASSUME NEW d \in Contexts PROVE ContextOK(d)'
    BY DEF Control
  <2> QED BY DEF Control, ContextOK, TypeOK, Logging, Locking, Resting
<1>3. LifeOK'
  BY DEF LifeOK, TypeOK, Control, ContextOK, Writing, Logging
<1>4. OldOK'
  BY DEF OldOK, TypeOK, Old, Other
<1> QED BY <1>1, <1>2, <1>3, <1>4

LEMMA CreateThreadFailsFrame ==
  ASSUME Frame, CreateThreadFails
  PROVE  Frame'
<1> USE ContextFacts DEF Frame, CreateThreadFails, Goto, buffers, locks, life, history
<1>1. TypeOK'
  BY OtherFacts DEF TypeOK, Labels, Resting
<1>2. Control'
  <2> SUFFICES ASSUME NEW d \in Contexts PROVE ContextOK(d)'
    BY DEF Control
  <2> QED BY DEF Control, ContextOK, TypeOK, Logging, Locking, Resting
<1>3. LifeOK'
  BY DEF LifeOK, TypeOK, Control, ContextOK, Writing, Logging
<1>4. OldOK'
  BY DEF OldOK, TypeOK, Old, Other
<1> QED BY <1>1, <1>2, <1>3, <1>4

LEMMA FlusherLoopsFrame ==
  ASSUME Frame, FlusherLoops
  PROVE  Frame'
<1> USE ContextFacts DEF Frame, FlusherLoops, Goto, buffers, locks, life, history
<1>1. TypeOK'
  BY OtherFacts DEF TypeOK, Labels, Resting
<1>2. Control'
  <2> SUFFICES ASSUME NEW d \in Contexts PROVE ContextOK(d)'
    BY DEF Control
  <2> QED BY DEF Control, ContextOK, TypeOK, Logging, Locking, Resting
<1>3. LifeOK'
  BY DEF LifeOK, TypeOK, Control, ContextOK, Writing, Logging
<1>4. OldOK'
  BY DEF OldOK, TypeOK, Old, Other
<1> QED BY <1>1, <1>2, <1>3, <1>4

LEMMA FlusherLooksFrame ==
  ASSUME Frame, FlusherLooks
  PROVE  Frame'
<1> USE ContextFacts DEF Frame, FlusherLooks, Goto, buffers, locks, life, history
<1>1. TypeOK'
  BY OtherFacts DEF TypeOK, Labels, Resting
<1>2. Control'
  <2> SUFFICES ASSUME NEW d \in Contexts PROVE ContextOK(d)'
    BY DEF Control
  <2> QED BY DEF Control, ContextOK, TypeOK, Logging, Locking, Resting
<1>3. LifeOK'
  BY DEF LifeOK, TypeOK, Control, ContextOK, Writing, Logging
<1>4. OldOK'
  BY DEF OldOK, TypeOK, Old, Other
<1> QED BY <1>1, <1>2, <1>3, <1>4

LEMMA StopFlusherFrame ==
  ASSUME Frame, StopFlusher
  PROVE  Frame'
<1> USE ContextFacts DEF Frame, StopFlusher, Goto, buffers, locks, life, history
<1>1. TypeOK'
  BY OtherFacts DEF TypeOK, Labels, Resting
<1>2. Control'
  <2> SUFFICES ASSUME NEW d \in Contexts PROVE ContextOK(d)'
    BY DEF Control
  <2> QED BY DEF Control, ContextOK, TypeOK, Logging, Locking, Resting
<1>3. LifeOK'
  BY DEF LifeOK, TypeOK, Control, ContextOK, Writing, Logging
<1>4. OldOK'
  BY DEF OldOK, TypeOK, Old, Other
<1> QED BY <1>1, <1>2, <1>3, <1>4

LEMMA FreeBuffersFrame ==
  ASSUME Frame, FreeBuffers
  PROVE  Frame'
<1> USE ContextFacts DEF Frame, FreeBuffers, Goto, buffers, locks, life, history
<1>1. TypeOK'
  BY OtherFacts DEF TypeOK, Labels, Resting
<1>2. Control'
  <2> SUFFICES ASSUME NEW d \in Contexts PROVE ContextOK(d)'
    BY DEF Control
  <2> QED BY DEF Control, ContextOK, TypeOK, Logging, Locking, Resting
<1>3. LifeOK'
  BY DEF LifeOK, TypeOK, Control, ContextOK, Writing, Logging
<1>4. OldOK'
  BY DEF OldOK, TypeOK, Old, Other
<1> QED BY <1>1, <1>2, <1>3, <1>4

LEMMA CreateThreadFrame ==
  ASSUME Frame, CreateThread
  PROVE  Frame'
<1> USE ContextFacts DEF Frame, CreateThread, Goto, buffers, locks, life, history
<1>1. TypeOK'
  BY OtherFacts DEF TypeOK, Labels, Resting
<1>2. Control'
  <2> SUFFICES ASSUME NEW d \in Contexts PROVE ContextOK(d)'
    BY DEF Control
  <2> QED BY DEF Control, ContextOK, TypeOK, LifeOK, Logging, Locking, Resting
<1>3. LifeOK'
  BY DEF LifeOK, TypeOK, Control, ContextOK, Writing, Logging
<1>4. OldOK'
  BY DEF OldOK, TypeOK, LifeOK, Old, Other
<1> QED BY <1>1, <1>2, <1>3, <1>4

LEMMA ApcsDisabledFrame ==
  ASSUME Frame, NEW c \in Contexts, ApcsDisabled(c)
  PROVE  Frame'
<1> USE ContextFacts DEF Frame, ApcsDisabled, Return, Rest, Goto, buffers, locks, life, history
<1>1. TypeOK'
  BY CurFacts, OtherFacts DEF TypeOK, Labels, Resting
<1>2. Control'
  <2> SUFFICES ASSUME NEW d \in Contexts PROVE ContextOK(d)'
    BY DEF Control
  <2> QED BY DEF Control, ContextOK, TypeOK, Logging, Locking, Resting
<1>3. LifeOK'
  BY DEF LifeOK, TypeOK, Control, ContextOK, Writing, Logging
<1>4. OldOK'
  BY DEF OldOK, TypeOK, Old, Other
<1> QED BY <1>1, <1>2, <1>3, <1>4

LEMMA BufferedFrame ==
  ASSUME Frame, NEW c \in Contexts, Buffered(c)
  PROVE  Frame'
<1> USE ContextFacts DEF Frame, Buffered, Return, Rest, Goto, buffers, locks, life, history
<1>1. TypeOK'
  BY CurFacts, OtherFacts DEF TypeOK, Labels, Resting
<1>2. Control'
  <2> SUFFICES ASSUME NEW d \in Contexts PROVE ContextOK(d)'
    BY DEF Control
  <2> QED BY DEF Control, ContextOK, TypeOK, Logging, Locking, Resting
<1>3. LifeOK'
  BY DEF LifeOK, TypeOK, Control, ContextOK, Writing, Logging
<1>4. OldOK'
  BY DEF OldOK, TypeOK, Old, Other
<1> QED BY <1>1, <1>2, <1>3, <1>4

LEMMA LogpWriteMessageToFileFrame ==
  ASSUME Frame, NEW c \in Contexts, LogpWriteMessageToFile(c)
  PROVE  Frame'
<1> USE ContextFacts DEF Frame, LogpWriteMessageToFile, ToFileIfOpen, Return, Rest, Goto, buffers, locks, life, history
<1>1. TypeOK'
  <2>1. cur[c] \in Messages
    BY CurFacts
  <2>2. Append(file, cur[c]) \in Seq(Messages)
    BY <2>1, AppendProperties DEF TypeOK
  <2> QED BY <2>1, <2>2 DEF TypeOK, Labels, Resting
<1>2. Control'
  <2> SUFFICES ASSUME NEW d \in Contexts PROVE ContextOK(d)'
    BY DEF Control
  <2> QED BY DEF Control, ContextOK, TypeOK, Logging, Locking, Resting
<1>3. LifeOK'
  BY DEF LifeOK, TypeOK, Control, ContextOK, Writing, Logging
<1>4. OldOK'
  BY DEF OldOK, TypeOK, Old, Other
<1> QED BY <1>1, <1>2, <1>3, <1>4

LEMMA LogpBufferMessageFrame ==
  ASSUME Frame, NEW c \in Contexts, LogpBufferMessage(c)
  PROVE  Frame'
<1> USE ContextFacts DEF Frame, LogpBufferMessage, Fits, Goto, buffers, locks, life, history
<1>1. TypeOK'
  <2>1. cur[c] \in Messages
    BY CurFacts
  <2>2. /\ Append(buffer[head], cur[c]) \in Seq(Messages)
        /\ Len(Append(buffer[head], cur[c])) = Len(buffer[head]) + 1
    BY <2>1, OtherFacts, AppendProperties
  <2>3. buffer' \in [{1, 2} -> Seq(Messages)] /\ \A b \in {1, 2} : Len(buffer'[b]) <= Capacity
    <3>1. CASE Fits
      <4>1. buffer' = [buffer EXCEPT ![head] = Append(buffer[head], cur[c])]
        BY <3>1
      <4>2. Len(Append(buffer[head], cur[c])) <= Capacity
        BY <2>2, <3>1, OtherFacts, BoundsAssumption
      <4> QED BY <2>2, <4>1, <4>2, OtherFacts DEF TypeOK
    <3>2. CASE ~Fits
      BY <3>2 DEF TypeOK
    <3> QED BY <3>1, <3>2
  <2>4. UNCHANGED <<head, written, resource, file, fileOpen, alive, activation, closing,
                    cur, over, count, returned, before, owed>>
        /\ spinLock' = c /\ pc' = [pc EXCEPT ![c] = "buffered"]
        /\ dropped' \subseteq Messages
    BY <2>1 DEF TypeOK
  <2> QED BY <2>3, <2>4 DEF TypeOK, Labels, Resting
<1>2. Control'
  <2> SUFFICES ASSUME NEW d \in Contexts PROVE ContextOK(d)'
    BY DEF Control
  <2> QED BY DEF Control, ContextOK, TypeOK, Logging, Locking, Resting
<1>3. LifeOK'
  BY DEF LifeOK, TypeOK, Control, ContextOK, Writing, Logging
<1>4. OldOK'
  BY DEF OldOK, TypeOK, Old, Other
<1> QED BY <1>1, <1>2, <1>3, <1>4

LEMMA SwapFrame ==
  ASSUME Frame, NEW c \in Contexts, Swap(c)
  PROVE  Frame'
<1> USE ContextFacts DEF Frame, Swap, Goto, buffers, locks, life, history
<1>1. TypeOK'
  <2>1. <<>> \in Seq(Messages) /\ Len(<<>>) = 0 /\ Capacity \in Nat
    BY EmptySeq, BoundsAssumption
  <2>2. buffer' \in [{1, 2} -> Seq(Messages)] /\ \A b \in {1, 2} : Len(buffer'[b]) <= Capacity
    BY <2>1, OtherFacts DEF TypeOK
  <2> QED BY <2>1, <2>2, OtherFacts DEF TypeOK, Labels, Resting
<1>2. Control'
  <2> SUFFICES ASSUME NEW d \in Contexts PROVE ContextOK(d)'
    BY DEF Control
  <2> QED BY DEF Control, ContextOK, TypeOK, Logging, Locking, Resting
<1>3. LifeOK'
  BY DEF LifeOK, TypeOK, Control, ContextOK, Writing, Logging
<1>4. OldOK'
  BY DEF OldOK, TypeOK, Old, Other
<1> QED BY <1>1, <1>2, <1>3, <1>4

LEMMA WriteEntryFrame ==
  ASSUME Frame, NEW c \in Contexts, WriteEntry(c)
  PROVE  Frame'
<1> USE ContextFacts DEF Frame, WriteEntry, ToFileIfOpen, Goto, buffers, locks, life, history
<1>1. TypeOK'
  <2>1. Old[written + 1] \in Messages /\ written + 1 \in 0 .. Capacity
    <3>1. Old \in Seq(Messages) /\ Len(Old) \in Nat /\ Len(Old) <= Capacity /\ written \in Nat
      BY OtherFacts DEF TypeOK, Old
    <3>2. written + 1 \in 1 .. Len(Old)
      BY <3>1
    <3> QED BY <3>1, <3>2, ElementOfSeq, BoundsAssumption
  <2>2. Append(file, Old[written + 1]) \in Seq(Messages)
    BY <2>1, AppendProperties DEF TypeOK
  <2> QED BY <2>1, <2>2 DEF TypeOK
<1>2. Control'
  <2> SUFFICES ASSUME NEW d \in Contexts PROVE ContextOK(d)'
    BY DEF Control
  <2> QED BY DEF Control, ContextOK, TypeOK, Logging, Locking, Resting
<1>3. LifeOK'
  BY DEF LifeOK, TypeOK, Control, ContextOK, Writing, Logging
<1>4. OldOK'
  BY DEF OldOK, TypeOK, Old, Other
<1> QED BY <1>1, <1>2, <1>3, <1>4

LEMMA FlushedFrame ==
  ASSUME Frame, NEW c \in Contexts, Flushed(c)
  PROVE  Frame'
<1> USE ContextFacts DEF Frame, Flushed, Goto, buffers, locks, life, history
<1>1. TypeOK'
  <2>1. <<>> \in Seq(Messages) /\ Len(<<>>) = 0 /\ Capacity \in Nat
    BY EmptySeq, BoundsAssumption
  <2>2. buffer' \in [{1, 2} -> Seq(Messages)] /\ \A b \in {1, 2} : Len(buffer'[b]) <= Capacity
    BY <2>1, OtherFacts DEF TypeOK
  <2> QED BY <2>1, <2>2, OtherFacts DEF TypeOK, Labels, Resting
<1>2. Control'
  <2> SUFFICES ASSUME NEW d \in Contexts PROVE ContextOK(d)'
    BY DEF Control
  <2> QED BY DEF Control, ContextOK, TypeOK, Logging, Locking, Resting
<1>3. LifeOK'
  BY DEF LifeOK, TypeOK, Control, ContextOK, Writing, Logging
<1>4. OldOK'
  BY DEF OldOK, TypeOK, Old, Other
<1> QED BY <1>1, <1>2, <1>3, <1>4

LEMMA ThreadLogsFrame ==
  ASSUME Frame, NEW c \in Threads, ThreadLogs(c)
  PROVE  Frame'
<1> USE ContextFacts DEF Frame, ThreadLogs, buffers, locks, life
<1>0. c \in Contexts /\ pc[c] \in Resting \union {"started"}
      /\ NewOf(c) \in Messages /\ NewOf(c) # None
      /\ NewOf(c).by = c /\ NewOf(c).n = count[c] + 1
      /\ count' = [count EXCEPT ![c] = @ + 1]
      /\ pc' = [pc EXCEPT ![c] = "put"]
      /\ cur' = [cur EXCEPT ![c] = NewOf(c)]
      /\ before' = [before EXCEPT ![NewOf(c)] = returned]
      /\ count[c] \in Nat
  BY BeginFacts DEF Resting
<1>1. TypeOK'
  <2>1. before' \in [Messages -> SUBSET Messages] /\ cur' \in [Contexts -> Messages \union {None}]
    BY <1>0 DEF TypeOK
  <2>2. count' \in [Contexts -> Nat]
    BY <1>0 DEF TypeOK
  <2> QED BY <1>0, <2>1, <2>2, OtherFacts DEF TypeOK, Labels, Resting
<1>2. Control'
  <2> SUFFICES ASSUME NEW d \in Contexts PROVE ContextOK(d)'
    BY DEF Control
  <2> QED BY <1>0 DEF Control, ContextOK, TypeOK, Logging, Locking, Resting
<1>3. LifeOK'
  BY <1>0 DEF LifeOK, TypeOK, Control, ContextOK, Writing, Logging
<1>4. OldOK'
  BY <1>0 DEF OldOK, TypeOK, Old, Other
<1> QED BY <1>1, <1>2, <1>3, <1>4

LEMMA HandlerLogsFrame ==
  ASSUME Frame, NEW h \in Handlers, NEW c \in Guests, HandlerLogs(h, c)
  PROVE  Frame'
<1> USE ContextFacts DEF Frame, HandlerLogs, buffers, locks, life
<1>0. h \in Contexts /\ pc[h] \in Resting \union {"started"}
      /\ NewOf(h) \in Messages /\ NewOf(h) # None
      /\ NewOf(h).by = h /\ NewOf(h).n = count[h] + 1
      /\ count' = [count EXCEPT ![h] = @ + 1]
      /\ pc' = [pc EXCEPT ![h] = "put"]
      /\ cur' = [cur EXCEPT ![h] = NewOf(h)]
      /\ before' = [before EXCEPT ![NewOf(h)] = returned]
      /\ count[h] \in Nat
  BY BeginFacts DEF Resting
<1>1. TypeOK'
  <2>1. before' \in [Messages -> SUBSET Messages] /\ cur' \in [Contexts -> Messages \union {None}]
    BY <1>0 DEF TypeOK
  <2>2. count' \in [Contexts -> Nat]
    BY <1>0 DEF TypeOK
  <2> QED BY <1>0, <2>1, <2>2, OtherFacts DEF TypeOK, Labels, Resting
<1>2. Control'
  <2> SUFFICES ASSUME NEW d \in Contexts PROVE ContextOK(d)'
    BY DEF Control
  <2> QED BY <1>0 DEF Control, ContextOK, TypeOK, Logging, Locking, Resting
<1>3. LifeOK'
  BY <1>0 DEF LifeOK, TypeOK, Control, ContextOK, Writing, Logging
<1>4. OldOK'
  BY <1>0 DEF OldOK, TypeOK, Old, Other
<1> QED BY <1>1, <1>2, <1>3, <1>4

LEMMA FlusherStartsFrame ==
  ASSUME Frame, FlusherStarts, closing \in {"no", "bye"}
  PROVE  Frame'
<1> USE ContextFacts DEF Frame, FlusherStarts, buffers, locks, life
<1>0. flusher \in Contexts /\ pc[flusher] \in Resting \union {"started"}
      /\ NewOf(flusher) \in Messages /\ NewOf(flusher) # None
      /\ NewOf(flusher).by = flusher /\ NewOf(flusher).n = count[flusher] + 1
      /\ count' = [count EXCEPT ![flusher] = @ + 1]
      /\ pc' = [pc EXCEPT ![flusher] = "put"]
      /\ cur' = [cur EXCEPT ![flusher] = NewOf(flusher)]
      /\ before' = [before EXCEPT ![NewOf(flusher)] = returned]
      /\ count[flusher] \in Nat
  BY BeginFacts DEF Resting
<1>1. TypeOK'
  <2>1. before' \in [Messages -> SUBSET Messages] /\ cur' \in [Contexts -> Messages \union {None}]
    BY <1>0 DEF TypeOK
  <2>2. count' \in [Contexts -> Nat]
    BY <1>0 DEF TypeOK
  <2> QED BY <1>0, <2>1, <2>2, OtherFacts DEF TypeOK, Labels, Resting
<1>2. Control'
  <2> SUFFICES ASSUME NEW d \in Contexts PROVE ContextOK(d)'
    BY DEF Control
  <2> QED BY <1>0 DEF Control, ContextOK, TypeOK, Logging, Locking, Resting
<1>3. LifeOK'
  BY <1>0 DEF LifeOK, TypeOK, Control, ContextOK, Writing, Logging
<1>4. OldOK'
  BY <1>0 DEF OldOK, TypeOK, Old, Other
<1> QED BY <1>1, <1>2, <1>3, <1>4

LEMMA LogTerminationFrame ==
  ASSUME Frame, LogTermination
  PROVE  Frame'
<1> USE ContextFacts DEF Frame, LogTermination, buffers, locks
<1>0. unloader \in Contexts /\ pc[unloader] \in Resting \union {"started"}
      /\ NewOf(unloader) \in Messages /\ NewOf(unloader) # None
      /\ NewOf(unloader).by = unloader /\ NewOf(unloader).n = count[unloader] + 1
      /\ count' = [count EXCEPT ![unloader] = @ + 1]
      /\ pc' = [pc EXCEPT ![unloader] = "put"]
      /\ cur' = [cur EXCEPT ![unloader] = NewOf(unloader)]
      /\ before' = [before EXCEPT ![NewOf(unloader)] = returned]
      /\ count[unloader] \in Nat
  BY BeginFacts DEF Resting
<1>1. TypeOK'
  <2>1. before' \in [Messages -> SUBSET Messages] /\ cur' \in [Contexts -> Messages \union {None}]
    BY <1>0 DEF TypeOK
  <2>2. count' \in [Contexts -> Nat]
    BY <1>0 DEF TypeOK
  <2> QED BY <1>0, <2>1, <2>2, OtherFacts DEF TypeOK, Labels, Resting
<1>2. Control'
  <2> SUFFICES ASSUME NEW d \in Contexts PROVE ContextOK(d)'
    BY DEF Control
  <2> QED BY <1>0 DEF Control, ContextOK, TypeOK, Logging, Locking, Resting
<1>3. LifeOK'
  BY <1>0 DEF LifeOK, TypeOK, Control, ContextOK, Writing, Logging
<1>4. OldOK'
  BY <1>0 DEF OldOK, TypeOK, Old, Other
<1> QED BY <1>1, <1>2, <1>3, <1>4

LEMMA FlusherGoesOnFrame ==
  ASSUME Frame, FlusherStarts, closing \notin {"no", "bye"}
  PROVE  Frame'
<1> USE ContextFacts DEF Frame, FlusherStarts, Goto, buffers, locks, life, history
<1>1. TypeOK'
  BY OtherFacts DEF TypeOK, Labels, Resting
<1>2. Control'
  <2> SUFFICES ASSUME NEW d \in Contexts PROVE ContextOK(d)'
    BY DEF Control
  <2> QED BY DEF Control, ContextOK, TypeOK, Logging, Locking, Resting
<1>3. LifeOK'
  BY DEF LifeOK, TypeOK, Control, ContextOK, Writing, Logging
<1>4. OldOK'
  BY DEF OldOK, TypeOK, Old, Other
<1> QED BY <1>1, <1>2, <1>3, <1>4
-----------------------------------------------------------------------------
(* Where messages are before and after a step.                             *)

\* The places of message m stay.
Stays(m) ==
  /\ InFile(m)' <=> InFile(m)
  /\ HeadHas(m)' <=> HeadHas(m)
  /\ OldHas(m)' <=> OldHas(m)

LEMMA PendingIs ==
  ASSUME NEW m
  PROVE  /\ Pending(m) <=> HeadHas(m) \/ OldHas(m)
         /\ Pending(m)' <=> HeadHas(m)' \/ OldHas(m)'
BY DEF Pending, HeadHas, OldHas

LEMMA StayEffect ==
  ASSUME UNCHANGED <<head, buffer, written, file>>
  PROVE  /\ \A m : Stays(m)
         /\ Distinct => Distinct'
<1>1. \A m : Stays(m)
  BY DEF Stays, InFile, HeadHas, OldHas, Old
<1>2. Distinct => Distinct'
  BY DEF Distinct, Pending, InFile, HeadHas, OldHas, Old
<1> QED BY <1>1, <1>2

\* A message that is appended to the file.
LEMMA FileEffect ==
  ASSUME TypeOK, NEW m \in Messages, ToFileIfOpen(m)
  PROVE  /\ \A x : InFile(x)' <=> InFile(x) \/ (fileOpen /\ x = m)
         /\ Len(file') \in Nat /\ Len(file) \in Nat
         /\ \A i \in 1 .. Len(file) : i \in 1 .. Len(file') /\ file'[i] = file[i]
         /\ fileOpen => Len(file') = Len(file) + 1 /\ file'[Len(file) + 1] = m
         /\ ~fileOpen => file' = file
<1>1. CASE ~fileOpen
  <2>1. file' = file
    BY <1>1 DEF ToFileIfOpen
  <2> QED BY <1>1, <2>1, LenProperties DEF InFile, TypeOK
<1>2. CASE fileOpen
  <2>1. file' = Append(file, m) /\ file \in Seq(Messages)
    BY <1>2 DEF ToFileIfOpen, TypeOK
  <2>2. /\ Len(file') = Len(file) + 1 /\ Len(file) \in Nat
        /\ \A i \in 1 .. Len(file) : file'[i] = file[i]
        /\ file'[Len(file) + 1] = m
    BY <2>1, AppendProperties, LenProperties
  <2>3. \A x : InFile(x)' <=> InFile(x) \/ x = m
    BY <2>2 DEF InFile
  <2> QED BY <1>2, <2>2, <2>3
<1> QED BY <1>1, <1>2

LEMMA BufferEffect ==
  ASSUME Frame, Distinct, NEW c \in Contexts, LogpBufferMessage(c), Fits,
         ~InFile(cur[c]), ~Pending(cur[c])
  PROVE  /\ \A x : /\ HeadHas(x)' <=> HeadHas(x) \/ x = cur[c]
                   /\ OldHas(x)' <=> OldHas(x)
                   /\ InFile(x)' <=> InFile(x)
         /\ Len(buffer'[head]) = Len(buffer[head]) + 1
         /\ \A i \in 1 .. Len(buffer[head]) : buffer'[head][i] = buffer[head][i]
         /\ buffer'[head][Len(buffer[head]) + 1] = cur[c]
         /\ Old' = Old
         /\ Distinct'
<1> DEFINE s == buffer[head]
           m == cur[c]
<1>1. m \in Messages /\ s \in Seq(Messages) /\ Len(s) \in Nat
  BY CurFacts, OtherFacts DEF LogpBufferMessage, Frame
<1>2. UNCHANGED <<head, written, file>> /\ buffer' = [buffer EXCEPT ![head] = Append(s, m)]
  BY DEF LogpBufferMessage
<1>3. buffer'[head] = Append(s, m) /\ Old' = Old
  BY <1>2, OtherFacts DEF Frame, TypeOK, Old, Other
<1>4. /\ Len(buffer'[head]) = Len(s) + 1
      /\ \A i \in 1 .. Len(s) : buffer'[head][i] = s[i]
      /\ buffer'[head][Len(s) + 1] = m
  BY <1>1, <1>3, AppendProperties
<1>5. \A x : HeadHas(x)' <=> HeadHas(x) \/ x = m
  BY <1>1, <1>2, <1>4 DEF HeadHas
<1>6. \A x : /\ OldHas(x)' <=> OldHas(x)
             /\ InFile(x)' <=> InFile(x)
  BY <1>2, <1>3 DEF OldHas, InFile
<1>7. ~HeadHas(m) /\ ~OldHas(m)
  BY PendingIs
<1>8. Distinct'
  <2>1. \A i, j \in 1 .. Len(buffer'[head]) : buffer'[head][i] = buffer'[head][j] => i = j
    BY <1>1, <1>4, <1>7 DEF HeadHas, Distinct
  <2>2. \A i, j \in written' + 1 .. Len(Old') : Old'[i] = Old'[j] => i = j
    BY <1>2, <1>3 DEF Distinct
  <2>3. \A x \in Messages : ~(HeadHas(x)' /\ OldHas(x)') /\ ~(InFile(x)' /\ Pending(x)')
    BY <1>5, <1>6, <1>7, PendingIs DEF Distinct
  <2> QED BY <1>2, <2>1, <2>2, <2>3 DEF Distinct
<1> QED BY <1>3, <1>4, <1>5, <1>6, <1>8

\* The old buffer is empty when the buffers are swapped.
LEMMA SwapEffect ==
  ASSUME Frame, Distinct, NEW c \in Contexts, Swap(c)
  PROVE  /\ \A x : /\ ~OldHas(x) /\ ~HeadHas(x)'
                   /\ OldHas(x)' <=> HeadHas(x)
                   /\ InFile(x)' <=> InFile(x)
         /\ Old' = buffer[head] /\ written' = 0
         /\ Len(buffer'[head']) = 0
         /\ Distinct'
<1>1. resource = c
  BY DEF Frame, Control, ContextOK, Swap, Locking
<1>2. \A d \in Contexts : pc[d] \notin {"swapped", "flush"}
  BY <1>1 DEF Frame, Control, ContextOK, Swap, Locking
<1>3. Old = <<>> /\ written = 0
  BY <1>2 DEF Frame, OldOK
<1>4. /\ Old' = buffer[head] /\ written' = 0 /\ file' = file
      /\ buffer'[head'] = <<>>
  BY OtherFacts DEF Frame, TypeOK, Swap, Old, Other
<1>5. Len(<<>>) = 0
  BY EmptySeq
<1>6. \A x : /\ ~OldHas(x) /\ ~HeadHas(x)'
             /\ OldHas(x)' <=> HeadHas(x)
             /\ InFile(x)' <=> InFile(x)
  BY <1>3, <1>4, <1>5 DEF OldHas, HeadHas, InFile
<1>7. Distinct'
  <2>1. \A i, j \in 1 .. Len(buffer'[head']) : buffer'[head'][i] = buffer'[head'][j] => i = j
    BY <1>4, <1>5
  <2>2. \A i, j \in written' + 1 .. Len(Old') : Old'[i] = Old'[j] => i = j
    BY <1>4 DEF Distinct
  <2>3. \A x \in Messages : ~(HeadHas(x)' /\ OldHas(x)') /\ ~(InFile(x)' /\ Pending(x)')
    BY <1>6, PendingIs DEF Distinct
  <2> QED BY <2>1, <2>2, <2>3 DEF Distinct
<1> QED BY <1>4, <1>5, <1>6, <1>7

\* The first entry of the old buffer that is not written yet goes to the file.
LEMMA WriteEffect ==
  ASSUME Frame, Distinct, NEW c \in Contexts, WriteEntry(c),
         NEW first, first = Old[written + 1]
  PROVE  /\ first \in Messages /\ OldHas(first) /\ ~OldHas(first)'
         /\ \A x : /\ HeadHas(x)' <=> HeadHas(x)
                   /\ OldHas(x) <=> OldHas(x)' \/ x = first
                   /\ InFile(x)' <=> InFile(x) \/ (fileOpen /\ x = first)
         /\ Old' = Old /\ written' = written + 1
         /\ UNCHANGED <<head, buffer>>
         /\ Distinct'
<1>1. /\ Old \in Seq(Messages) /\ Len(Old) \in Nat /\ written \in Nat
      /\ written < Len(Old) /\ written' = written + 1
      /\ UNCHANGED <<head, buffer>>
      /\ ToFileIfOpen(first)
  BY OtherFacts DEF Frame, WriteEntry
<1>0. \A i, j \in written + 1 .. Len(Old) : Old[i] = Old[j] => i = j
  BY DEF Distinct
<1>2. Old' = Old
  BY <1>1 DEF Old
<1>3. written + 1 \in 1 .. Len(Old) /\ written + 1 \in written + 1 .. Len(Old)
  BY <1>1
<1>4. first \in Messages
  BY <1>1, <1>3, ElementOfSeq
<1>5. \A x : InFile(x)' <=> InFile(x) \/ (fileOpen /\ x = first)
  BY <1>1, <1>4, FileEffect DEF Frame
<1>6. \A x : HeadHas(x)' <=> HeadHas(x)
  BY <1>1 DEF HeadHas
<1>7. \A i : i \in written + 1 .. Len(Old) <=> i = written + 1 \/ i \in written' + 1 .. Len(Old')
  BY <1>1, <1>2
<1>8. \A x : OldHas(x) <=> OldHas(x)' \/ x = first
  BY <1>2, <1>7 DEF OldHas
<1>9. OldHas(first) /\ ~OldHas(first)'
  <2>1. OldHas(first)
    BY <1>8
  <2>2. ASSUME NEW i \in written' + 1 .. Len(Old'), Old'[i] = first
        PROVE  FALSE
    <3>1. i \in written + 1 .. Len(Old) /\ i # written + 1 /\ Old[i] = Old[written + 1]
      BY <1>1, <1>2, <2>2
    <3> QED BY <1>0, <1>3, <3>1
  <2>3. ~OldHas(first)'
    BY <2>2 DEF OldHas
  <2> QED BY <2>1, <2>3
<1>10. Distinct'
  <2>1. \A i, j \in 1 .. Len(buffer'[head']) : buffer'[head'][i] = buffer'[head'][j] => i = j
    BY <1>1 DEF Distinct
  <2>2. \A i, j \in written' + 1 .. Len(Old') : Old'[i] = Old'[j] => i = j
    BY <1>0, <1>2, <1>7
  <2>3. \A x \in Messages : ~(HeadHas(x)' /\ OldHas(x)') /\ ~(InFile(x)' /\ Pending(x)')
    BY <1>4, <1>5, <1>6, <1>8, <1>9, PendingIs DEF Distinct
  <2> QED BY <2>1, <2>2, <2>3 DEF Distinct
<1> QED BY <1>1, <1>2, <1>4, <1>5, <1>6, <1>8, <1>9, <1>10

LEMMA FlushedEffect ==
  ASSUME Frame, Distinct, NEW c \in Contexts, Flushed(c)
  PROVE  /\ \A m : Stays(m) /\ ~OldHas(m)
         /\ UNCHANGED <<head, file>> /\ buffer'[head] = buffer[head]
         /\ Old' = <<>> /\ written' = 0
         /\ Distinct'
<1>1. /\ UNCHANGED <<head, file>> /\ buffer'[head] = buffer[head]
      /\ Old' = <<>> /\ written' = 0
      /\ written = Len(Old) /\ Len(Old) \in Nat
  BY OtherFacts DEF Frame, TypeOK, Flushed, Old, Other
<1>2. Len(<<>>) = 0
  BY EmptySeq
<1>3. \A m : ~OldHas(m) /\ ~OldHas(m)'
  BY <1>1, <1>2 DEF OldHas
<1>4. \A m : Stays(m)
  BY <1>1, <1>3 DEF Stays, HeadHas, InFile
<1>5. Distinct'
  <2>1. \A i, j \in 1 .. Len(buffer'[head']) : buffer'[head'][i] = buffer'[head'][j] => i = j
    BY <1>1 DEF Distinct
  <2>2. \A i, j \in written' + 1 .. Len(Old') : Old'[i] = Old'[j] => i = j
    BY <1>1, <1>2
  <2>3. \A x \in Messages : ~(HeadHas(x)' /\ OldHas(x)') /\ ~(InFile(x)' /\ Pending(x)')
    BY <1>4, PendingIs DEF Distinct, Stays
  <2> QED BY <2>1, <2>2, <2>3 DEF Distinct
<1> QED BY <1>1, <1>3, <1>4, <1>5

LEMMA DirectEffect ==
  ASSUME Frame, Distinct, NEW c \in Contexts, LogpWriteMessageToFile(c),
         ~Pending(cur[c])
  PROVE  /\ cur[c] \in Messages
         /\ \A x : /\ HeadHas(x)' <=> HeadHas(x)
                   /\ OldHas(x)' <=> OldHas(x)
                   /\ InFile(x)' <=> InFile(x) \/ (fileOpen /\ x = cur[c])
         /\ UNCHANGED <<head, buffer, written>>
         /\ Distinct'
<1>1. cur[c] \in Messages
  BY CurFacts DEF LogpWriteMessageToFile
<1>2. UNCHANGED <<head, buffer, written>> /\ ToFileIfOpen(cur[c])
  BY DEF LogpWriteMessageToFile, buffers
<1>3. \A x : InFile(x)' <=> InFile(x) \/ (fileOpen /\ x = cur[c])
  BY <1>1, <1>2, FileEffect DEF Frame
<1>4. \A x : /\ HeadHas(x)' <=> HeadHas(x)
             /\ OldHas(x)' <=> OldHas(x)
  BY <1>2 DEF HeadHas, OldHas, Old
<1>5. Distinct'
  <2>1. /\ \A i, j \in 1 .. Len(buffer'[head']) : buffer'[head'][i] = buffer'[head'][j] => i = j
        /\ \A i, j \in written' + 1 .. Len(Old') : Old'[i] = Old'[j] => i = j
    BY <1>2 DEF Distinct, Old
  <2>2. \A x \in Messages : ~(HeadHas(x)' /\ OldHas(x)') /\ ~(InFile(x)' /\ Pending(x)')
    BY <1>3, <1>4, PendingIs DEF Distinct
  <2> QED BY <2>1, <2>2 DEF Distinct
<1> QED BY <1>1, <1>2, <1>3, <1>4, <1>5
-----------------------------------------------------------------------------
(* A message is in one place only, and where its context is tells which.   *)

\* A step that neither begins nor ends a message nor moves one.
LEMMA MovePlaces ==
  ASSUME Places, UNCHANGED <<buffers, file, cur, count, returned, dropped, before, owed>>,
         \A c \in Contexts : pc'[c] = "buffered" <=> pc[c] = "buffered"
  PROVE  Places'
<1>1. UNCHANGED <<head, buffer, written, file>>
  BY DEF buffers
<1>2. (\A m : Stays(m)) /\ Distinct'
  BY <1>1, StayEffect DEF Places
<1>3. MessagesOK'
  BY <1>2, PendingIs DEF Places, MessagesOK, Stays, Begun
<1> QED BY <1>2, <1>3 DEF Places

LEMMA BeginPlaces ==
  ASSUME Frame, Places, NEW c \in Contexts, Begin(c), cur[c] = None,
         UNCHANGED <<buffers, file, returned, dropped>>,
         owed' = owed \/ owed' = returned
  PROVE  Places'
<1> SUFFICES ASSUME NEW m, m = NewOf(c) PROVE Places'
  OBVIOUS
<1>1. UNCHANGED <<head, buffer, written, file, returned, dropped>>
  BY DEF buffers
<1>2. (\A x : Stays(x)) /\ Distinct'
  BY <1>1, StayEffect DEF Places
<1>3. /\ m \in Messages /\ m # None /\ ~Begun(m) /\ m.by = c /\ m.n = count[c] + 1
      /\ count' = [count EXCEPT ![c] = @ + 1] /\ count[c] \in Nat
      /\ pc' = [pc EXCEPT ![c] = "put"]
      /\ cur' = [cur EXCEPT ![c] = m]
      /\ before' = [before EXCEPT ![m] = returned]
  BY BeginFacts DEF Frame
<1>4. \A x \in Messages : Begun(x) => Begun(x)'
  <2> SUFFICES ASSUME NEW x \in Messages, Begun(x) PROVE Begun(x)'
    OBVIOUS
  <2>1. x.by \in Contexts /\ x.n \in Nat /\ count \in [Contexts -> Nat]
    BY MessageFacts DEF Frame, TypeOK
  <2>2. x.n <= count[x.by]
    BY DEF Begun
  <2>3. x.n <= count'[x.by]
    BY <1>3, <2>1, <2>2
  <2> QED BY <2>3 DEF Begun
<1>5. /\ \A x \in Messages : InFile(x)' \/ Pending(x)' => Begun(x)'
      /\ ~InFile(m)' /\ ~Pending(m)'
  BY <1>2, <1>3, <1>4, PendingIs DEF Places, MessagesOK, Stays
<1>6. \A d \in Contexts : d # c => cur'[d] = cur[d] /\ pc'[d] = pc[d]
  BY <1>3 DEF Frame, TypeOK
<1>7. cur'[c] = m /\ pc'[c] = "put"
  BY <1>3 DEF Frame, TypeOK
<1>8. \A x \in returned' : Begun(x)' /\ cur'[x.by] # x
  <2> SUFFICES ASSUME NEW x \in returned PROVE Begun(x)' /\ cur'[x.by] # x
    BY <1>1
  <2>1. x \in Messages /\ Begun(x) /\ cur[x.by] # x /\ x.by \in Contexts
    BY MessageFacts DEF Frame, TypeOK, Places, MessagesOK
  <2>2. x # m
    BY <1>3, <2>1
  <2> QED BY <1>4, <1>6, <1>7, <2>1, <2>2
<1>9. ASSUME NEW d \in Contexts, NEW x \in Messages, cur'[d] = x
      PROVE  IF pc'[d] = "buffered" THEN x \in dropped' \/ HeadHas(x)'
             ELSE ~InFile(x)' /\ ~Pending(x)'
  <2>1. CASE d = c
    BY <1>5, <1>7, <1>9, <2>1
  <2>2. CASE d # c
    BY <1>1, <1>2, <1>6, <1>9, <2>2, PendingIs DEF Places, MessagesOK, Stays
  <2> QED BY <2>1, <2>2
<1>10. (\A x \in Messages : before'[x] \subseteq returned') /\ owed' \subseteq returned'
  BY <1>1, <1>3 DEF Places, MessagesOK, Frame, TypeOK
<1> QED BY <1>2, <1>5, <1>8, <1>9, <1>10 DEF Places, MessagesOK

\* The end of LogpPut for a message that moves only to the file, or not at all.
LEMMA ReturnPlaces ==
  ASSUME Frame, Places, Distinct', NEW c \in Contexts, NEW m, cur[c] = m, m # None,
         Return(c), UNCHANGED <<count, before, owed>>, dropped \subseteq dropped',
         \A x : HeadHas(x)' <=> HeadHas(x),
         \A x : OldHas(x)' <=> OldHas(x),
         \A x : /\ InFile(x) => InFile(x)'
                /\ InFile(x)' => InFile(x) \/ x = m
  PROVE  Places'
<1>1. m \in Messages /\ m # None /\ m.by = c /\ m.n = count[c] /\ count[c] \in Nat
  BY CurFacts DEF Frame, TypeOK
<1>2. /\ \A d \in Contexts : d # c => cur'[d] = cur[d] /\ pc'[d] = pc[d]
      /\ cur'[c] = None /\ pc'[c] \in {"loop", "idle"}
      /\ returned' = returned \union {m}
  BY DEF Return, Rest, Goto, Frame, TypeOK
<1>3. \A x : Begun(x)' <=> Begun(x)
  BY DEF Begun
<1>4. Begun(m)
  BY <1>1 DEF Begun
<1>5. \A x \in Messages : InFile(x)' \/ Pending(x)' => Begun(x)'
  BY <1>3, <1>4, PendingIs DEF Places, MessagesOK
<1>6. \A x \in returned' : Begun(x)' /\ cur'[x.by] # x
  <2> SUFFICES ASSUME NEW x \in returned' PROVE Begun(x)' /\ cur'[x.by] # x
    OBVIOUS
  <2>1. CASE x = m
    BY <1>1, <1>2, <1>3, <1>4, <2>1
  <2>2. CASE x \in returned
    <3>1. x \in Messages /\ Begun(x) /\ cur[x.by] # x /\ x.by \in Contexts /\ x # None
      BY <2>2, MessageFacts, NoneAssumption DEF Frame, TypeOK, Places, MessagesOK
    <3> QED BY <1>2, <1>3, <3>1
  <2> QED BY <1>2, <2>1, <2>2
<1>7. ASSUME NEW d \in Contexts, NEW x \in Messages, cur'[d] = x
      PROVE  IF pc'[d] = "buffered" THEN x \in dropped' \/ HeadHas(x)'
             ELSE ~InFile(x)' /\ ~Pending(x)'
  <2>1. d # c /\ cur[d] = x /\ pc'[d] = pc[d]
    BY <1>2, <1>7, NoneAssumption
  <2>2. x # m
    BY <1>1, <2>1, NoneAssumption, CurFacts
  <2> QED BY <2>1, <2>2, PendingIs DEF Places, MessagesOK
<1>8. (\A x \in Messages : before'[x] \subseteq returned') /\ owed' \subseteq returned'
  BY <1>2 DEF Places, MessagesOK
<1> QED BY <1>5, <1>6, <1>7, <1>8 DEF Places, MessagesOK

\* A step that moves messages between the places, and begins and ends none.
LEMMA ShiftPlaces ==
  ASSUME Places, Distinct', UNCHANGED <<cur, count, returned, dropped, before, owed>>,
         \A x : InFile(x)' \/ Pending(x)' => InFile(x) \/ Pending(x),
         \A d \in Contexts : pc'[d] = "buffered" <=> pc[d] = "buffered",
         \A d \in Contexts : \A x : pc[d] = "buffered" /\ HeadHas(x) => HeadHas(x)'
  PROVE  Places'
<1>1. \A x : Begun(x)' <=> Begun(x)
  BY DEF Begun
<1>2. ASSUME NEW d \in Contexts, NEW x \in Messages, cur'[d] = x
      PROVE  IF pc'[d] = "buffered" THEN x \in dropped' \/ HeadHas(x)'
             ELSE ~InFile(x)' /\ ~Pending(x)'
  BY <1>2 DEF Places, MessagesOK
<1> QED BY <1>1, <1>2 DEF Places, MessagesOK

LEMMA SwapPlaces ==
  ASSUME Frame, Places, NEW c \in Contexts, Swap(c)
  PROVE  Places'
<1>1. Distinct' /\ \A x : InFile(x)' \/ Pending(x)' => InFile(x) \/ Pending(x)
  BY SwapEffect, PendingIs DEF Places
<1>2. /\ pc' = [pc EXCEPT ![c] = "swapped"] /\ pc[c] = "swap" /\ spinLock = None
      /\ UNCHANGED <<cur, count, returned, dropped, before, owed>>
  BY DEF Swap, Goto, history
<1>3. \A d \in Contexts : pc[d] # "buffered" /\ pc'[d] # "buffered"
  BY <1>2, ContextFacts DEF Frame, TypeOK, Control, ContextOK
<1> QED BY <1>1, <1>2, <1>3, ShiftPlaces

LEMMA WriteEntryPlaces ==
  ASSUME Frame, Places, NEW c \in Contexts, WriteEntry(c)
  PROVE  Places'
<1>0. PICK first : first = Old[written + 1]
  OBVIOUS
<1>1. /\ Distinct' /\ \A x : InFile(x)' \/ Pending(x)' => InFile(x) \/ Pending(x)
      /\ \A x : HeadHas(x) => HeadHas(x)'
  BY <1>0, WriteEffect, PendingIs DEF Places
<1>2. UNCHANGED <<pc, cur, count, returned, dropped, before, owed>>
  BY DEF WriteEntry, history
<1> QED BY <1>1, <1>2, ShiftPlaces

LEMMA FlushedPlaces ==
  ASSUME Frame, Places, NEW c \in Contexts, Flushed(c)
  PROVE  Places'
<1>1. /\ Distinct' /\ \A x : InFile(x)' \/ Pending(x)' => InFile(x) \/ Pending(x)
      /\ \A x : HeadHas(x) => HeadHas(x)'
  BY FlushedEffect, PendingIs DEF Places, Stays
<1>2. UNCHANGED <<cur, count, returned, dropped, before, owed>>
  BY DEF Flushed, history
<1>3. \A d \in Contexts : pc'[d] = "buffered" <=> pc[d] = "buffered"
  BY DEF Flushed, Goto, Frame, TypeOK
<1> QED BY <1>1, <1>2, <1>3, ShiftPlaces

\* Where LogpBufferMessage leaves its message.
LEMMA PutEffect ==
  ASSUME Frame, Places, NEW c \in Contexts, LogpBufferMessage(c), NEW m, m = cur[c]
  PROVE  /\ m \in Messages /\ ~InFile(m) /\ ~Pending(m)
         /\ \A x : /\ HeadHas(x)' <=> HeadHas(x) \/ (Fits /\ x = m)
                   /\ OldHas(x)' <=> OldHas(x)
                   /\ InFile(x)' <=> InFile(x)
         /\ dropped' = IF Fits THEN dropped ELSE dropped \union {m}
         /\ Distinct'
<1>1. m \in Messages
  BY CurFacts DEF LogpBufferMessage
<1>2. ~InFile(m) /\ ~Pending(m)
  BY <1>1 DEF Places, MessagesOK, LogpBufferMessage
<1>3. dropped' = IF Fits THEN dropped ELSE dropped \union {m}
  BY DEF LogpBufferMessage
<1>4. CASE Fits
  BY <1>1, <1>2, <1>3, <1>4, BufferEffect DEF Places
<1>5. CASE ~Fits
  <2>1. UNCHANGED <<head, buffer, written, file>>
    BY <1>5 DEF LogpBufferMessage
  <2>2. (\A x : Stays(x)) /\ Distinct'
    BY <2>1, StayEffect DEF Places
  <2> QED BY <1>1, <1>2, <1>3, <1>5, <2>2 DEF Stays
<1> QED BY <1>4, <1>5

LEMMA LogpBufferMessagePlaces ==
  ASSUME Frame, Places, NEW c \in Contexts, LogpBufferMessage(c)
  PROVE  Places'
<1>0. PICK m : m = cur[c]
  OBVIOUS
<1>1. /\ m \in Messages /\ ~InFile(m) /\ ~Pending(m)
      /\ \A x : /\ HeadHas(x)' <=> HeadHas(x) \/ (Fits /\ x = m)
                /\ OldHas(x)' <=> OldHas(x)
                /\ InFile(x)' <=> InFile(x)
      /\ dropped' = IF Fits THEN dropped ELSE dropped \union {m}
      /\ Distinct'
  BY <1>0, PutEffect
<1>2. m.by = c /\ m.n = count[c] /\ count[c] \in Nat
  BY <1>0, <1>1, CurFacts DEF LogpBufferMessage, Frame, TypeOK
<1>3. /\ UNCHANGED <<cur, count, returned, before, owed>>
      /\ pc' = [pc EXCEPT ![c] = "buffered"]
  BY DEF LogpBufferMessage, Goto
<1>4. \A x : Begun(x)' <=> Begun(x)
  BY <1>3 DEF Begun
<1>5. Begun(m)
  BY <1>2 DEF Begun
<1>6. \A x \in Messages : InFile(x)' \/ Pending(x)' => Begun(x)'
  BY <1>1, <1>4, <1>5, PendingIs DEF Places, MessagesOK
<1>7. ASSUME NEW d \in Contexts, NEW x \in Messages, cur'[d] = x
      PROVE  IF pc'[d] = "buffered" THEN x \in dropped' \/ HeadHas(x)'
             ELSE ~InFile(x)' /\ ~Pending(x)'
  <2>1. CASE d = c
    <3>1. x = m /\ pc'[d] = "buffered"
      BY <1>0, <1>3, <1>7, <2>1 DEF Frame, TypeOK
    <3> QED BY <1>1, <3>1
  <2>2. CASE d # c
    <3>1. pc'[d] = pc[d] /\ cur[d] = x
      BY <1>3, <1>7, <2>2 DEF Frame, TypeOK
    <3>2. x # m
      BY <1>2, <2>2, <3>1, CurFacts, NoneAssumption
    <3> QED BY <1>1, <3>1, <3>2, PendingIs DEF Places, MessagesOK
  <2> QED BY <2>1, <2>2
<1> QED BY <1>1, <1>3, <1>4, <1>6, <1>7 DEF Places, MessagesOK
-----------------------------------------------------------------------------
(* No message is lost, and each comes after those that were over when it   *)
(* began.                                                                  *)

\* A step that leaves messages where they are.
LEMMA MoveOrdered ==
  ASSUME Ordered, UNCHANGED <<head, buffer, written, file, cur, returned, dropped, before>>,
         \A c \in Contexts :
           /\ pc'[c] \in {"swapped", "flush"} => pc[c] \in {"swapped", "flush"}
           /\ pc'[c] = "write" => pc[c] = "write"
  PROVE  Ordered'
<1>1. (\A m : Stays(m)) /\ Old' = Old
  BY StayEffect DEF Old
<1>2. Located'
  BY <1>1, PendingIs DEF Ordered, Located, Stays
<1>3. OldOrder' /\ HeadOrder' /\ FileInOrder'
  <2>1. OldOrder'
    BY <1>1 DEF Ordered, OldOrder, Stays
  <2>2. HeadOrder'
    BY <1>1 DEF Ordered, HeadOrder, Stays
  <2>3. FileInOrder'
    BY <1>1 DEF Ordered, FileInOrder, Stays
  <2> QED BY <2>1, <2>2, <2>3
<1>4. DirectOrder'
  <2> SUFFICES ASSUME NEW c \in Contexts, NEW x \in Messages, cur[c] = x,
                      NEW y \in before[x] \ dropped
               PROVE  /\ pc'[c] \in {"swapped", "flush"} => InFile(y)' \/ OldHas(y)'
                      /\ pc'[c] = "write" => InFile(y)'
    BY DEF DirectOrder
  <2>1. /\ pc[c] \in {"swapped", "flush"} => InFile(y) \/ OldHas(y)
        /\ pc[c] = "write" => InFile(y)
    BY DEF Ordered, DirectOrder
  <2> QED BY <1>1, <2>1 DEF Stays
<1> QED BY <1>2, <1>3, <1>4 DEF Ordered

\* Nobody has the new message yet.
LEMMA BeginOrdered ==
  ASSUME Frame, Places, Ordered, NEW c \in Contexts, Begin(c),
         UNCHANGED <<head, buffer, written, file, returned, dropped>>
  PROVE  Ordered'
<1>0. PICK m : m = NewOf(c)
  OBVIOUS
<1>1. /\ m \in Messages /\ ~Begun(m) /\ m.by = c
      /\ pc' = [pc EXCEPT ![c] = "put"] /\ cur' = [cur EXCEPT ![c] = m]
      /\ before' = [before EXCEPT ![m] = returned]
  BY <1>0, BeginFacts DEF Frame
<1>2. (\A x : Stays(x)) /\ Old' = Old
  BY StayEffect DEF Old
<1>3. ~InFile(m) /\ ~HeadHas(m) /\ ~OldHas(m)
  BY <1>1, PendingIs DEF Places, MessagesOK
<1>4. \A x \in Messages : x # m => before'[x] = before[x]
  BY <1>1 DEF Frame, TypeOK
<1>5. Located'
  BY <1>2, PendingIs DEF Ordered, Located, Stays
<1>6. OldOrder'
  BY <1>2, <1>3, <1>4 DEF Ordered, OldOrder, OldHas, Stays
<1>7. HeadOrder'
  BY <1>2, <1>3, <1>4 DEF Ordered, HeadOrder, HeadHas, Stays
<1>8. FileInOrder'
  BY <1>2, <1>3, <1>4 DEF Ordered, FileInOrder, InFile, Stays
<1>9. DirectOrder'
  <2> SUFFICES ASSUME NEW d \in Contexts, NEW x \in Messages, cur'[d] = x,
                      NEW y \in before'[x] \ dropped'
               PROVE  /\ pc'[d] \in {"swapped", "flush"} => InFile(y)' \/ OldHas(y)'
                      /\ pc'[d] = "write" => InFile(y)'
    BY DEF DirectOrder
  <2>1. CASE d = c
    BY <1>1, <2>1 DEF Frame, TypeOK
  <2>2. CASE d # c
    <3>1. cur[d] = x /\ pc'[d] = pc[d]
      BY <1>1, <2>2 DEF Frame, TypeOK
    <3>2. x # m
      BY <1>1, <2>2, <3>1, CurFacts, NoneAssumption
    <3> QED BY <1>2, <1>4, <3>1, <3>2 DEF Ordered, DirectOrder, Stays
  <2> QED BY <2>1, <2>2
<1> QED BY <1>5, <1>6, <1>7, <1>8, <1>9 DEF Ordered

\* The end of LogpPut for a message that is dropped or in the buffer.
LEMMA ReturnOrdered ==
  ASSUME Frame, Places, Ordered, NEW c \in Contexts, NEW m \in Messages, cur[c] = m,
         Return(c), UNCHANGED <<head, buffer, written, file, before>>,
         dropped \subseteq dropped', m \in dropped' \/ HeadHas(m)
  PROVE  Ordered'
<1>1. (\A x : Stays(x)) /\ Old' = Old
  BY StayEffect DEF Old
<1>2. /\ \A d \in Contexts : d # c => cur'[d] = cur[d] /\ pc'[d] = pc[d]
      /\ cur'[c] = None /\ returned' = returned \union {m}
  BY DEF Return, Goto, Frame, TypeOK
<1>3. Located'
  BY <1>1, <1>2, PendingIs DEF Ordered, Located, Stays
<1>4. OldOrder' /\ HeadOrder' /\ FileInOrder'
  <2>1. OldOrder'
    BY <1>1 DEF Ordered, OldOrder, Stays
  <2>2. HeadOrder'
    BY <1>1 DEF Ordered, HeadOrder, Stays
  <2>3. FileInOrder'
    BY <1>1 DEF Ordered, FileInOrder, Stays
  <2> QED BY <2>1, <2>2, <2>3
<1>5. DirectOrder'
  BY <1>1, <1>2, NoneAssumption DEF Ordered, DirectOrder, Stays
<1> QED BY <1>3, <1>4, <1>5 DEF Ordered

\* All that is over, and not dropped, is in the file or a buffer when a
\* message is appended to a buffer.
LEMMA LogpBufferMessageOrdered ==
  ASSUME Frame, Places, Ordered, NEW c \in Contexts, LogpBufferMessage(c)
  PROVE  Ordered'
<1>0. PICK m : m = cur[c]
  OBVIOUS
<1>1. /\ m \in Messages
      /\ \A x : /\ HeadHas(x)' <=> HeadHas(x) \/ (Fits /\ x = m)
                /\ OldHas(x)' <=> OldHas(x)
                /\ InFile(x)' <=> InFile(x)
      /\ dropped \subseteq dropped'
  BY <1>0, PutEffect
<1>2. /\ UNCHANGED <<head, written, file, cur, returned, before>>
      /\ pc' = [pc EXCEPT ![c] = "buffered"]
  BY DEF LogpBufferMessage, Goto
<1>3. Old' = Old
  BY OtherFacts DEF Frame, TypeOK, LogpBufferMessage, Old, Other
<1>4. Located'
  BY <1>1, <1>2, PendingIs DEF Ordered, Located
<1>5. OldOrder' /\ FileInOrder'
  BY <1>1, <1>2, <1>3 DEF Ordered, OldOrder, FileInOrder
<1>6. DirectOrder'
  BY <1>1, <1>2 DEF Ordered, DirectOrder, Frame, TypeOK
<1>7. HeadOrder'
  <2>1. CASE ~Fits
    <3>1. buffer' = buffer
      BY <2>1 DEF LogpBufferMessage
    <3> QED BY <1>1, <1>2, <3>1 DEF Ordered, HeadOrder
  <2>2. CASE Fits
    <3>1. /\ Len(buffer'[head]) = Len(buffer[head]) + 1 /\ Len(buffer[head]) \in Nat
          /\ \A i \in 1 .. Len(buffer[head]) : buffer'[head][i] = buffer[head][i]
          /\ buffer'[head][Len(buffer[head]) + 1] = m
      <4>1. ~InFile(cur[c]) /\ ~Pending(cur[c])
        BY <1>0, PutEffect
      <4> QED BY <1>0, <2>2, <4>1, BufferEffect, OtherFacts DEF Places, Frame
    <3> SUFFICES ASSUME NEW i \in 1 .. Len(buffer'[head]), NEW x \in Messages,
                        buffer'[head][i] = x, NEW y \in before[x] \ dropped'
                 PROVE  \/ InFile(y) \/ OldHas(y)
                        \/ \E j \in 1 .. i - 1 : buffer'[head][j] = y
      BY <1>1, <1>2 DEF HeadOrder
    <3>2. CASE i \in 1 .. Len(buffer[head])
      <4>1. \/ InFile(y) \/ OldHas(y)
            \/ \E j \in 1 .. i - 1 : buffer[head][j] = y
        BY <1>1, <3>1, <3>2 DEF Ordered, HeadOrder
      <4> QED BY <3>1, <3>2, <4>1
    <3>3. CASE i = Len(buffer[head]) + 1
      <4>1. y \in returned \ dropped
        BY <1>1, <3>1, <3>3 DEF Places, MessagesOK
      <4>2. InFile(y) \/ HeadHas(y) \/ OldHas(y)
        BY <4>1, PendingIs DEF Ordered, Located
      <4>3. HeadHas(y) => \E j \in 1 .. i - 1 : buffer'[head][j] = y
        BY <3>1, <3>3 DEF HeadHas
      <4> QED BY <4>2, <4>3
    <3> QED BY <3>1, <3>2, <3>3
  <2> QED BY <2>1, <2>2
<1> QED BY <1>4, <1>5, <1>6, <1>7 DEF Ordered

\* Only the holder of the resource is in the flush.
LEMMA OneFlushes ==
  ASSUME Frame, NEW c \in Contexts, pc[c] \in Locking,
         NEW d \in Contexts, pc[d] \in Locking
  PROVE  c = d
BY DEF Frame, Control, ContextOK

LEMMA SwapOrdered ==
  ASSUME Frame, Places, Ordered, NEW c \in Contexts, Swap(c)
  PROVE  Ordered'
<1>1. /\ \A x : /\ ~OldHas(x) /\ ~HeadHas(x)'
                /\ OldHas(x)' <=> HeadHas(x)
                /\ InFile(x)' <=> InFile(x)
      /\ Old' = buffer[head] /\ written' = 0
      /\ Len(buffer'[head']) = 0
  BY SwapEffect DEF Places
<1>2. /\ UNCHANGED <<file, cur, returned, dropped, before>>
      /\ pc' = [pc EXCEPT ![c] = "swapped"] /\ pc[c] = "swap"
  BY DEF Swap, Goto, history
<1>3. Located'
  BY <1>1, <1>2, PendingIs DEF Ordered, Located
<1>4. OldOrder'
  <2> SUFFICES ASSUME NEW i \in 1 .. Len(buffer[head]), NEW x \in Messages,
                      buffer[head][i] = x, NEW y \in before[x] \ dropped
               PROVE  InFile(y) \/ \E j \in 1 .. i - 1 : buffer[head][j] = y
    BY <1>1, <1>2 DEF OldOrder
  <2> QED BY <1>1 DEF Ordered, HeadOrder
<1>5. HeadOrder'
  BY <1>1 DEF HeadOrder
<1>6. FileInOrder'
  BY <1>1, <1>2 DEF Ordered, FileInOrder
<1>7. DirectOrder'
  <2> SUFFICES ASSUME NEW d \in Contexts, NEW x \in Messages, cur[d] = x,
                      NEW y \in before[x] \ dropped
               PROVE  /\ pc'[d] \in {"swapped", "flush"} => InFile(y)' \/ OldHas(y)'
                      /\ pc'[d] = "write" => InFile(y)'
    BY <1>2 DEF DirectOrder
  <2>1. InFile(y) \/ HeadHas(y)
    BY <1>1, PendingIs DEF Places, MessagesOK, Ordered, Located
  <2>2. CASE d = c
    BY <1>1, <1>2, <2>1, <2>2 DEF Frame, TypeOK
  <2>3. CASE d # c
    <3>1. pc'[d] = pc[d] /\ pc[d] \notin {"swapped", "flush"}
      BY <1>2, <2>3, OneFlushes DEF Frame, TypeOK, Locking
    <3> QED BY <1>1, <3>1 DEF Ordered, DirectOrder
  <2> QED BY <2>2, <2>3
<1> QED BY <1>3, <1>4, <1>5, <1>6, <1>7 DEF Ordered

\* While somebody flushes or writes a message the file is open.
LEMMA OpenWhileWriting ==
  ASSUME Frame, activation # "failed", NEW c \in Contexts, pc[c] \in Writing
  PROVE  fileOpen
<1>1. c \notin Handlers
  BY DEF Frame, Control, ContextOK, Writing
<1>2. c \in Threads \union {flusher, unloader}
  BY <1>1 DEF Contexts, Guests
<1>3. activation \in {"alive", "done"}
  BY DEF Frame, LifeOK
<1>4. closing # "freed"
  BY <1>2 DEF Frame, LifeOK, Writing
<1> QED BY <1>3, <1>4 DEF Frame, LifeOK

LEMMA WriteEntryOrdered ==
  ASSUME Frame, Places, Ordered, activation # "failed",
         NEW c \in Contexts, WriteEntry(c)
  PROVE  Ordered'
<1>0. PICK first : first = Old[written + 1]
  OBVIOUS
<1>1. fileOpen
  BY OpenWhileWriting DEF WriteEntry, Writing
<1>2. /\ first \in Messages
      /\ \A x : /\ HeadHas(x)' <=> HeadHas(x)
                /\ OldHas(x) <=> OldHas(x)' \/ x = first
                /\ InFile(x)' <=> InFile(x) \/ x = first
      /\ Old' = Old /\ written' = written + 1
      /\ UNCHANGED <<head, buffer>>
  BY <1>0, <1>1, WriteEffect DEF Places
<1>3. UNCHANGED <<pc, cur, returned, dropped, before>> /\ written < Len(Old)
  BY DEF WriteEntry, history
<1>4. /\ Len(file') = Len(file) + 1 /\ Len(file) \in Nat
      /\ \A i \in 1 .. Len(file) : file'[i] = file[i]
      /\ file'[Len(file) + 1] = first
  BY <1>0, <1>1, <1>2, FileEffect DEF Frame, WriteEntry
<1>5. written \in Nat /\ Len(Old) \in Nat
  BY OtherFacts DEF Frame
<1>6. Located'
  BY <1>2, <1>3, PendingIs DEF Ordered, Located
<1>7. OldOrder'
  <2> SUFFICES ASSUME NEW i \in written + 2 .. Len(Old), NEW x \in Messages,
                      Old[i] = x, NEW y \in before[x] \ dropped
               PROVE  InFile(y)' \/ \E j \in written + 2 .. i - 1 : Old[j] = y
    BY <1>2, <1>3, <1>5 DEF OldOrder
  <2>1. InFile(y) \/ \E j \in written + 1 .. i - 1 : Old[j] = y
    BY <1>5 DEF Ordered, OldOrder
  <2> QED BY <1>0, <1>2, <1>5, <2>1
<1>8. HeadOrder'
  BY <1>2, <1>3 DEF Ordered, HeadOrder
<1>9. FileInOrder'
  <2> SUFFICES ASSUME NEW i \in 1 .. Len(file'), NEW x \in Messages,
                      file'[i] = x, NEW y \in before[x] \ dropped
               PROVE  \E j \in 1 .. i - 1 : file'[j] = y
    BY <1>3 DEF FileInOrder
  <2>1. CASE i \in 1 .. Len(file)
    <3>1. \E j \in 1 .. i - 1 : file[j] = y
      BY <1>4, <2>1 DEF Ordered, FileInOrder
    <3> QED BY <1>4, <2>1, <3>1
  <2>2. CASE i = Len(file) + 1
    <3>1. x = first /\ written + 1 \in written + 1 .. Len(Old)
      BY <1>3, <1>4, <1>5, <2>2
    <3>2. InFile(y) \/ \E j \in written + 1 .. (written + 1) - 1 : Old[j] = y
      BY <1>0, <3>1 DEF Ordered, OldOrder
    <3>3. InFile(y)
      BY <1>5, <3>2
    <3> QED BY <1>4, <2>2, <3>3 DEF InFile
  <2> QED BY <1>4, <2>1, <2>2
<1>10. DirectOrder'
  BY <1>2, <1>3 DEF Ordered, DirectOrder
<1> QED BY <1>6, <1>7, <1>8, <1>9, <1>10 DEF Ordered

LEMMA FlushedOrdered ==
  ASSUME Frame, Places, Ordered, NEW c \in Contexts, Flushed(c)
  PROVE  Ordered'
<1>1. /\ \A x : /\ ~OldHas(x) /\ ~OldHas(x)'
                /\ HeadHas(x)' <=> HeadHas(x)
                /\ InFile(x)' <=> InFile(x)
      /\ UNCHANGED <<head, file>> /\ buffer'[head] = buffer[head]
      /\ Old' = <<>> /\ written' = 0
  BY FlushedEffect DEF Places, Stays
<1>2. /\ UNCHANGED <<cur, returned, dropped, before>> /\ pc[c] = "flush"
      /\ pc' = [pc EXCEPT ![c] = IF cur[c] = None THEN "loop" ELSE "write"]
  BY DEF Flushed, Goto, history
<1>3. Located'
  BY <1>1, <1>2, PendingIs DEF Ordered, Located
<1>4. OldOrder'
  <2>1. Len(<<>>) = 0
    BY EmptySeq
  <2> QED BY <1>1, <2>1 DEF OldOrder
<1>5. HeadOrder' /\ FileInOrder'
  BY <1>1, <1>2 DEF Ordered, HeadOrder, FileInOrder
<1>6. DirectOrder'
  BY <1>1, <1>2 DEF Ordered, DirectOrder, Frame, TypeOK
<1> QED BY <1>3, <1>4, <1>5, <1>6 DEF Ordered

LEMMA DirectOrdered ==
  ASSUME Frame, Places, Ordered, activation # "failed",
         NEW c \in Contexts, LogpWriteMessageToFile(c)
  PROVE  Ordered'
<1>0. PICK m : m = cur[c]
  OBVIOUS
<1>1. fileOpen
  BY OpenWhileWriting DEF LogpWriteMessageToFile, Writing
<1>2. /\ m \in Messages /\ m # None
  BY <1>0, CurFacts DEF LogpWriteMessageToFile
<1>3. ~InFile(m) /\ ~Pending(m)
  BY <1>0, <1>2 DEF Places, MessagesOK, LogpWriteMessageToFile
<1>4. /\ \A x : /\ HeadHas(x)' <=> HeadHas(x)
                /\ OldHas(x)' <=> OldHas(x)
                /\ InFile(x)' <=> InFile(x) \/ x = m
      /\ UNCHANGED <<head, buffer, written>>
  BY <1>0, <1>1, <1>3, DirectEffect DEF Places
<1>5. /\ Len(file') = Len(file) + 1 /\ Len(file) \in Nat
      /\ \A i \in 1 .. Len(file) : file'[i] = file[i]
      /\ file'[Len(file) + 1] = m
  BY <1>0, <1>1, <1>2, FileEffect DEF Frame, LogpWriteMessageToFile
<1>6. /\ UNCHANGED <<dropped, before>> /\ Old' = Old
      /\ \A d \in Contexts : d # c => cur'[d] = cur[d] /\ pc'[d] = pc[d]
      /\ cur'[c] = None /\ returned' = returned \union {m}
  BY <1>0, <1>1, <1>4 DEF LogpWriteMessageToFile, Return, Goto, Frame, TypeOK, Old
<1>7. Located'
  BY <1>4, <1>6, PendingIs DEF Ordered, Located
<1>8. OldOrder' /\ HeadOrder'
  BY <1>4, <1>6 DEF Ordered, OldOrder, HeadOrder
<1>9. FileInOrder'
  <2> SUFFICES ASSUME NEW i \in 1 .. Len(file'), NEW x \in Messages,
                      file'[i] = x, NEW y \in before[x] \ dropped
               PROVE  \E j \in 1 .. i - 1 : file'[j] = y
    BY <1>6 DEF FileInOrder
  <2>1. CASE i \in 1 .. Len(file)
    <3>1. \E j \in 1 .. i - 1 : file[j] = y
      BY <1>5, <2>1 DEF Ordered, FileInOrder
    <3> QED BY <1>5, <2>1, <3>1
  <2>2. CASE i = Len(file) + 1
    <3>1. InFile(y)
      BY <1>0, <1>5, <2>2 DEF Ordered, DirectOrder, LogpWriteMessageToFile
    <3> QED BY <1>5, <2>2, <3>1 DEF InFile
  <2> QED BY <1>5, <2>1, <2>2
<1>10. DirectOrder'
  BY <1>4, <1>6, NoneAssumption DEF Ordered, DirectOrder
<1> QED BY <1>7, <1>8, <1>9, <1>10 DEF Ordered
-----------------------------------------------------------------------------
(* What LogTermination found is in the file before it stops the flush      *)
(* thread.                                                                 *)

LEMMA OwedStays ==
  ASSUME OwedOK, UNCHANGED <<activation, closing, owed>>, dropped \subseteq dropped',
         \A x : InFile(x) => InFile(x)',
         pc'[unloader] = "idle" <=> pc[unloader] = "idle",
         closing = "bye" => cur'[unloader] = cur[unloader],
         closing = "bye" =>
           \A x \in Messages : cur[unloader] = x => before'[x] = before[x]
  PROVE  OwedOK'
BY DEF OwedOK

\* The same for a step of another context, or one that stays in LogpPut.
LEMMA OwedMoves ==
  ASSUME Frame, OwedOK, NEW c \in Contexts, NEW l, pc' = [pc EXCEPT ![c] = l],
         c = unloader => pc[c] # "idle" /\ l # "idle",
         UNCHANGED <<activation, closing, owed, before>>, dropped \subseteq dropped',
         \A x : InFile(x) => InFile(x)',
         cur'[unloader] = cur[unloader]
  PROVE  OwedOK'
<1>1. pc'[unloader] = "idle" <=> pc[unloader] = "idle"
  BY ContextFacts DEF Frame, TypeOK
<1> QED BY <1>1, OwedStays

\* The end of LogpPut of any other context.
LEMMA OwedReturns ==
  ASSUME Frame, OwedOK, NEW c \in Contexts, c # unloader, Return(c),
         UNCHANGED <<activation, closing, owed, before>>, dropped \subseteq dropped',
         \A x : InFile(x) => InFile(x)'
  PROVE  OwedOK'
<1>1. pc'[unloader] = pc[unloader] /\ cur'[unloader] = cur[unloader]
  BY ContextFacts DEF Frame, TypeOK, Return, Goto
<1> QED BY <1>1, OwedStays

LEMMA BufferedOwed ==
  ASSUME Frame, OwedOK, NEW c \in Contexts, Buffered(c)
  PROVE  OwedOK'
<1>1. UNCHANGED <<activation, closing, owed, before, dropped, head, buffer, written, file>>
  BY DEF Buffered, buffers, life
<1>2. \A x : InFile(x) => InFile(x)'
  BY <1>1 DEF InFile
<1>3. CASE c = unloader
  <2>1. activation # "done"
    BY <1>3 DEF Frame, LifeOK, Buffered
  <2> QED BY <1>1, <2>1 DEF OwedOK
<1>4. CASE c # unloader
  BY <1>1, <1>2, <1>4, OwedReturns DEF Buffered
<1> QED BY <1>3, <1>4

\* "Bye!" is written after all that was over when it began.
LEMMA DirectOwed ==
  ASSUME Frame, Places, Ordered, OwedOK, NEW c \in Contexts, LogpWriteMessageToFile(c)
  PROVE  OwedOK'
<1>0. PICK m : m = cur[c]
  OBVIOUS
<1>1. UNCHANGED <<activation, closing, owed, before>> /\ dropped \subseteq dropped'
  BY DEF LogpWriteMessageToFile, life
<1>2. m \in Messages
  BY <1>0, CurFacts DEF LogpWriteMessageToFile
<1>3. \A x : InFile(x) => InFile(x)'
  BY <1>0, <1>2, FileEffect DEF Frame, LogpWriteMessageToFile
<1>4. CASE c # unloader
  BY <1>1, <1>3, <1>4, OwedReturns DEF LogpWriteMessageToFile
<1>5. CASE c = unloader
  <2>1. closing = "bye" /\ pc[unloader] = "write"
    BY <1>5 DEF Frame, LifeOK, LogpWriteMessageToFile
  <2>2. activation = "done" => before[m] = owed
    BY <1>0, <1>2, <1>5, <2>1 DEF OwedOK
  <2>3. \A y \in before[m] \ dropped : InFile(y)
    BY <1>0, <1>2, <1>5, <2>1 DEF Ordered, DirectOrder
  <2>4. pc'[unloader] = "idle"
    BY <1>5, ContextFacts DEF Frame, TypeOK, LogpWriteMessageToFile, Return, Rest, Goto
  <2> QED BY <1>1, <1>3, <2>1, <2>2, <2>3, <2>4 DEF OwedOK
<1> QED BY <1>4, <1>5

LEMMA LogTerminationOwed ==
  ASSUME Frame, LogTermination
  PROVE  OwedOK'
<1>1. /\ closing' = "bye" /\ owed' = returned
      /\ Begin(unloader)
  BY DEF LogTermination
<1>2. /\ NewOf(unloader) \in Messages
      /\ pc' = [pc EXCEPT ![unloader] = "put"]
      /\ cur' = [cur EXCEPT ![unloader] = NewOf(unloader)]
      /\ before' = [before EXCEPT ![NewOf(unloader)] = returned]
  BY <1>1, ContextFacts, BeginFacts DEF Frame
<1>3. /\ pc'[unloader] = "put" /\ cur'[unloader] = NewOf(unloader)
      /\ before'[NewOf(unloader)] = returned
  BY <1>2, ContextFacts DEF Frame, TypeOK
<1> QED BY <1>1, <1>3 DEF OwedOK

LEMMA FlusherStartsOwed ==
  ASSUME Frame, OwedOK, FlusherStarts, closing \in {"no", "bye"}
  PROVE  OwedOK'
<1>1. /\ UNCHANGED <<activation, closing, owed, dropped, file>>
      /\ Begin(flusher)
  BY DEF FlusherStarts, life
<1>2. /\ NewOf(flusher) \in Messages /\ NewOf(flusher).by = flusher
      /\ pc' = [pc EXCEPT ![flusher] = "put"]
      /\ cur' = [cur EXCEPT ![flusher] = NewOf(flusher)]
      /\ before' = [before EXCEPT ![NewOf(flusher)] = returned]
  BY <1>1, ContextFacts, BeginFacts DEF Frame
<1>3. pc'[unloader] = pc[unloader] /\ cur'[unloader] = cur[unloader]
  BY <1>2, ContextFacts DEF Frame, TypeOK
<1>4. ASSUME NEW x \in Messages, cur[unloader] = x
      PROVE  before'[x] = before[x]
  <2>1. x.by = unloader
    BY <1>4, ContextFacts, CurFacts, NoneAssumption
  <2> QED BY <1>2, <2>1, ContextFacts DEF Frame, TypeOK
<1>5. \A x : InFile(x) => InFile(x)'
  BY <1>1 DEF InFile
<1> QED BY <1>1, <1>3, <1>4, <1>5, OwedStays
-----------------------------------------------------------------------------
(* Every step keeps the invariant.                                         *)

LEMMA MoveInv ==
  ASSUME LogInv, Frame', UNCHANGED <<buffers, file, cur, count, history>>,
         activation' # "failed" => activation # "failed",
         OwedOK => OwedOK',
         \A c \in Contexts :
           /\ pc'[c] = "buffered" <=> pc[c] = "buffered"
           /\ pc'[c] \in {"swapped", "flush"} => pc[c] \in {"swapped", "flush"}
           /\ pc'[c] = "write" => pc[c] = "write"
  PROVE  LogInv'
<1>1. UNCHANGED <<head, buffer, written, returned, dropped, before, owed>>
  BY DEF buffers, history
<1>2. Places'
  BY <1>1, MovePlaces DEF LogInv
<1>3. Ordered => Ordered'
  BY <1>1, MoveOrdered
<1> QED BY <1>2, <1>3 DEF LogInv, Kept

\* A context that goes on in LogpPut or in the flush thread.
LEMMA ContextMoves ==
  ASSUME LogInv, Frame', NEW c \in Contexts, NEW l, pc' = [pc EXCEPT ![c] = l],
         UNCHANGED <<buffers, life, file, cur, count, history>>,
         pc[c] \notin {"idle", "buffered"}, l \notin {"idle", "buffered", "write"},
         l \in {"swapped", "flush"} => pc[c] \in {"swapped", "flush"}
  PROVE  LogInv'
<1>1. UNCHANGED <<activation, closing, owed, dropped, before>>
  BY DEF history, life
<1>2. \A x : InFile(x) => InFile(x)'
  BY DEF InFile
<1>3. OwedOK => OwedOK'
  BY <1>1, <1>2, OwedMoves DEF LogInv
<1>4. \A d \in Contexts :
        /\ pc'[d] = "buffered" <=> pc[d] = "buffered"
        /\ pc'[d] \in {"swapped", "flush"} => pc[d] \in {"swapped", "flush"}
        /\ pc'[d] = "write" => pc[d] = "write"
  BY DEF LogInv, Frame, TypeOK
<1> QED BY <1>1, <1>3, <1>4, MoveInv

LEMMA BeginInv ==
  ASSUME LogInv, Frame', NEW c \in Contexts, Begin(c), cur[c] = None,
         UNCHANGED <<buffers, file, returned, dropped, activation>>,
         owed' = owed \/ owed' = returned,
         OwedOK => OwedOK'
  PROVE  LogInv'
<1>1. UNCHANGED <<head, buffer, written>>
  BY DEF buffers
<1>2. Places'
  BY BeginPlaces DEF LogInv
<1>3. Ordered => Ordered'
  BY <1>1, BeginOrdered DEF LogInv
<1> QED BY <1>2, <1>3 DEF LogInv, Kept

\* Threads and handlers begin only before LogTermination.
LEMMA LogsInv ==
  ASSUME LogInv, Frame', NEW c \in Threads \union Handlers, Begin(c),
         pc[c] = "idle", closing = "no",
         UNCHANGED <<buffers, life, file, returned, dropped, owed>>
  PROVE  LogInv'
<1>1. cur[c] = None /\ c \in Contexts
  BY ContextFacts DEF LogInv, Frame, Control, ContextOK, Logging
<1>2. OwedOK'
  BY DEF OwedOK, life
<1> QED BY <1>1, <1>2, BeginInv DEF life

LEMMA ContinueInv ==
  ASSUME LogInv, NEW c \in Contexts, Continue(c)
  PROVE  LogInv'
<1>1. CASE ToFile(c)
  BY <1>1, ToFileFrame, ContextMoves DEF LogInv, ToFile, Goto
<1>2. CASE ApcsDisabled(c)
  <2>1. PICK m : m = cur[c]
    OBVIOUS
  <2>2. m \in Messages /\ m # None
    BY <1>2, <2>1, CurFacts DEF LogInv, ApcsDisabled
  <2>3. /\ UNCHANGED <<head, buffer, written, file, activation, closing, count, before, owed>>
        /\ dropped' = dropped \union {m} /\ Return(c) /\ c # unloader
    BY <1>2, <2>1, ContextFacts DEF ApcsDisabled, buffers, life
  <2>4. (\A x : Stays(x)) /\ (Distinct => Distinct')
    BY <2>3, StayEffect
  <2>5. Places'
    BY <2>1, <2>2, <2>3, <2>4, ReturnPlaces DEF LogInv, Places, Stays
  <2>6. Ordered => Ordered'
    BY <2>1, <2>2, <2>3, ReturnOrdered DEF LogInv
  <2>7. OwedOK => OwedOK'
    BY <2>3, <2>4, OwedReturns DEF LogInv, Stays
  <2> QED BY <1>2, <2>3, <2>5, <2>6, <2>7, ApcsDisabledFrame DEF LogInv, Kept
<1>3. CASE ToBuffer(c)
  BY <1>3, ToBufferFrame, ContextMoves DEF LogInv, ToBuffer, Goto
<1>4. CASE LogpBufferMessage(c)
  <2>1. Ordered => Ordered'
    BY <1>4, LogpBufferMessageOrdered DEF LogInv
  <2>2. OwedOK => OwedOK'
    BY <1>4, OwedMoves DEF LogInv, LogpBufferMessage, Goto, life, InFile
  <2>3. activation' = activation
    BY <1>4 DEF LogpBufferMessage, life
  <2> QED BY <1>4, <2>1, <2>2, <2>3, LogpBufferMessageFrame, LogpBufferMessagePlaces
          DEF LogInv, Kept
<1>5. CASE Buffered(c)
  <2>1. PICK m : m = cur[c]
    OBVIOUS
  <2>2. m \in Messages /\ m # None
    BY <1>5, <2>1, CurFacts DEF LogInv, Buffered
  <2>3. /\ UNCHANGED <<head, buffer, written, file, activation, dropped, count, before, owed>>
        /\ Return(c)
    BY <1>5 DEF Buffered, buffers, life
  <2>4. (\A x : Stays(x)) /\ (Distinct => Distinct')
    BY <2>3, StayEffect
  <2>5. m \in dropped \/ HeadHas(m)
    BY <1>5, <2>1, <2>2 DEF LogInv, Places, MessagesOK, Buffered
  <2>6. Places'
    BY <2>1, <2>2, <2>3, <2>4, ReturnPlaces DEF LogInv, Places, Stays
  <2>7. Ordered => Ordered'
    BY <2>1, <2>2, <2>3, <2>5, ReturnOrdered DEF LogInv
  <2>8. OwedOK => OwedOK'
    BY <1>5, BufferedOwed DEF LogInv
  <2> QED BY <1>5, <2>3, <2>6, <2>7, <2>8, BufferedFrame DEF LogInv, Kept
<1>6. CASE AcquireResource(c)
  BY <1>6, AcquireResourceFrame, ContextMoves DEF LogInv, AcquireResource, Goto
<1>7. CASE Swap(c)
  <2>1. Ordered => Ordered'
    BY <1>7, SwapOrdered DEF LogInv
  <2>2. OwedOK => OwedOK'
    BY <1>7, OwedMoves DEF LogInv, Swap, Goto, life, history, InFile
  <2>3. activation' = activation
    BY <1>7 DEF Swap, life
  <2> QED BY <1>7, <2>1, <2>2, <2>3, SwapFrame, SwapPlaces DEF LogInv, Kept
<1>8. CASE Swapped(c)
  BY <1>8, SwappedFrame, ContextMoves DEF LogInv, Swapped, Goto
<1>9. CASE WriteEntry(c)
  <2>0. PICK first : first = Old[written + 1]
    OBVIOUS
  <2>1. UNCHANGED <<activation, closing, owed, before, dropped, pc, cur>>
    BY <1>9 DEF WriteEntry, life, history
  <2>2. Ordered /\ activation # "failed" => Ordered'
    BY <1>9, WriteEntryOrdered DEF LogInv
  <2>3. \A x : InFile(x) => InFile(x)'
    BY <1>9, <2>0, WriteEffect DEF LogInv, Places
  <2>4. OwedOK => OwedOK'
    BY <2>1, <2>3, OwedStays
  <2> QED BY <1>9, <2>1, <2>2, <2>4, WriteEntryFrame, WriteEntryPlaces DEF LogInv, Kept
<1>10. CASE Flushed(c)
  <2>1. Ordered => Ordered'
    BY <1>10, FlushedOrdered DEF LogInv
  <2>2. OwedOK => OwedOK'
    BY <1>10, OwedMoves DEF LogInv, Flushed, Goto, life, history, InFile
  <2>3. activation' = activation
    BY <1>10 DEF Flushed, life
  <2> QED BY <1>10, <2>1, <2>2, <2>3, FlushedFrame, FlushedPlaces DEF LogInv, Kept
<1>11. CASE LogpWriteMessageToFile(c)
  <2>1. PICK m : m = cur[c]
    OBVIOUS
  <2>2. m \in Messages /\ m # None
    BY <1>11, <2>1, CurFacts DEF LogInv, LogpWriteMessageToFile
  <2>3. ~Pending(m)
    BY <1>11, <2>1, <2>2 DEF LogInv, Places, MessagesOK, LogpWriteMessageToFile
  <2>4. /\ \A x : /\ HeadHas(x)' <=> HeadHas(x)
                  /\ OldHas(x)' <=> OldHas(x)
                  /\ InFile(x)' <=> InFile(x) \/ (fileOpen /\ x = m)
        /\ Distinct'
    BY <1>11, <2>1, <2>3, DirectEffect DEF LogInv, Places
  <2>5. /\ UNCHANGED <<activation, count, before, owed>>
        /\ dropped \subseteq dropped' /\ Return(c)
    BY <1>11 DEF LogpWriteMessageToFile, life
  <2>6. Places'
    BY <2>1, <2>2, <2>4, <2>5, ReturnPlaces DEF LogInv
  <2>7. Ordered /\ activation # "failed" => Ordered'
    BY <1>11, DirectOrdered DEF LogInv
  <2>8. Ordered /\ OwedOK => OwedOK'
    BY <1>11, DirectOwed DEF LogInv
  <2> QED BY <1>11, <2>5, <2>6, <2>7, <2>8, LogpWriteMessageToFileFrame DEF LogInv, Kept
<1> QED BY <1>1, <1>2, <1>3, <1>4, <1>5, <1>6, <1>7, <1>8, <1>9, <1>10, <1>11 DEF Continue

LEMMA FlushInv ==
  ASSUME LogInv, Flush
  PROVE  LogInv'
<1>1. CASE FlusherStarts /\ closing \in {"no", "bye"}
  <2>1. cur[flusher] = None /\ Begin(flusher)
    BY <1>1, ContextFacts
       DEF LogInv, Frame, Control, ContextOK, FlusherStarts, Logging
  <2>2. UNCHANGED <<buffers, life, file, returned, dropped, owed, activation>>
    BY <1>1 DEF FlusherStarts, life
  <2> QED BY <1>1, <2>1, <2>2, FlusherStartsFrame, FlusherStartsOwed, BeginInv, ContextFacts
          DEF LogInv
<1>2. CASE FlusherStarts /\ closing \notin {"no", "bye"}
  <2>1. /\ pc' = [pc EXCEPT ![flusher] = "loop"] /\ pc[flusher] = "started"
        /\ UNCHANGED <<buffers, life, file, cur, count, history>>
    BY <1>2 DEF FlusherStarts, Goto, history
  <2> QED BY <1>2, <2>1, FlusherGoesOnFrame, ContextMoves, ContextFacts DEF LogInv
<1>3. CASE FlusherLoops
  BY <1>3, FlusherLoopsFrame, ContextMoves, ContextFacts DEF LogInv, FlusherLoops, Goto
<1>4. CASE FlusherLooks
  BY <1>4, FlusherLooksFrame, ContextMoves, ContextFacts DEF LogInv, FlusherLooks, Goto
<1> QED BY <1>1, <1>2, <1>3, <1>4 DEF Flush

LEMMA ActivateInv ==
  ASSUME LogInv, Activate
  PROVE  LogInv'
<1>1. CASE OpenFile
  BY <1>1, OpenFileFrame, MoveInv DEF LogInv, OpenFile, OwedOK
<1>2. CASE SetAlive
  BY <1>2, SetAliveFrame, MoveInv DEF LogInv, SetAlive, OwedOK
<1>3. CASE CreateThread
  <2>1. closing = "no"
    BY <1>3 DEF LogInv, Frame, LifeOK, TypeOK, CreateThread
  <2>2. OwedOK'
    BY <1>3, <2>1 DEF CreateThread, OwedOK
  <2>3. /\ pc' = [pc EXCEPT ![flusher] = "started"] /\ pc[flusher] = "none"
        /\ activation = "alive"
        /\ UNCHANGED <<buffers, file, cur, count, history>>
    BY <1>3 DEF CreateThread, Goto, LogInv, Frame, LifeOK
  <2> QED BY <1>3, <2>2, <2>3, CreateThreadFrame, MoveInv DEF LogInv, Frame, TypeOK
<1>4. CASE CreateThreadFails
  BY <1>4, CreateThreadFailsFrame, MoveInv DEF LogInv, CreateThreadFails, OwedOK
<1> QED BY <1>1, <1>2, <1>3, <1>4 DEF Activate

LEMMA TerminateInv ==
  ASSUME LogInv, Terminate
  PROVE  LogInv'
<1>1. CASE LogTermination
  <2>1. /\ Begin(unloader) /\ pc[unloader] = "idle" /\ owed' = returned
        /\ UNCHANGED <<buffers, file, returned, dropped, activation>>
    BY <1>1, ContextFacts DEF LogTermination
  <2>2. cur[unloader] = None
    BY <2>1, ContextFacts DEF LogInv, Frame, Control, ContextOK, Logging
  <2> QED BY <1>1, <2>1, <2>2, LogTerminationFrame, LogTerminationOwed, BeginInv, ContextFacts
          DEF LogInv
<1>2. CASE StopFlusher
  <2>1. OwedOK => OwedOK'
    BY <1>2 DEF StopFlusher, OwedOK, history, InFile
  <2> QED BY <1>2, <2>1, StopFlusherFrame, MoveInv DEF LogInv, StopFlusher
<1>3. CASE FreeBuffers
  <2>1. OwedOK => OwedOK'
    BY <1>3 DEF FreeBuffers, OwedOK, history, InFile
  <2> QED BY <1>3, <2>1, FreeBuffersFrame, MoveInv DEF LogInv, FreeBuffers
<1> QED BY <1>1, <1>2, <1>3 DEF Terminate

LEMMA InitInv == Init => LogInv
<1> SUFFICES ASSUME Init PROVE LogInv
  OBVIOUS
<1>1. /\ <<>> \in Seq(Messages) /\ Len(<<>>) = 0
      /\ buffer[1] = <<>> /\ buffer[2] = <<>> /\ Other(head) = 2 /\ head = 1
      /\ buffer \in [{1, 2} -> Seq(Messages)]
  BY EmptySeq DEF Init, Other
<1>2. TypeOK
  BY <1>1, BoundsAssumption DEF Init, TypeOK, Labels, Resting
<1>3. Control
  <2> SUFFICES ASSUME NEW c \in Contexts PROVE ContextOK(c)
    BY DEF Control
  <2> QED BY ContextFacts DEF Init, ContextOK, Resting, Logging, Locking
<1>4. LifeOK
  BY ContextFacts DEF Init, LifeOK, Writing
<1>5. OldOK
  BY <1>1 DEF Init, OldOK, Old
<1>6. Places
  BY <1>1, NoneAssumption DEF Init, Places, MessagesOK, Distinct, InFile, Pending, HeadHas,
     OldHas, Old
<1>7. Kept
  BY <1>1, NoneAssumption DEF Init, Kept, Ordered, Located, OldOrder, HeadOrder, FileInOrder,
     DirectOrder, OwedOK, Old
<1> QED BY <1>2, <1>3, <1>4, <1>5, <1>6, <1>7 DEF LogInv, Frame

LEMMA NextInv == LogInv /\ [Next]_vars => LogInv'
<1> SUFFICES ASSUME LogInv, [Next]_vars PROVE LogInv'
  OBVIOUS
<1>1. ASSUME NEW c \in Threads, ThreadLogs(c) PROVE LogInv'
  BY <1>1, ThreadLogsFrame, LogsInv DEF LogInv, ThreadLogs
<1>2. ASSUME NEW h \in Handlers, NEW c \in Guests, HandlerLogs(h, c) PROVE LogInv'
  BY <1>2, HandlerLogsFrame, LogsInv DEF LogInv, HandlerLogs
<1>3. CASE UNCHANGED vars
  BY <1>3 DEF vars, buffers, locks, life, history, LogInv, Frame, TypeOK, Control, ContextOK,
     LifeOK, OldOK, Old, Places, MessagesOK, Begun, Distinct, InFile, Pending, HeadHas, OldHas,
     Kept, Ordered, Located, OldOrder, HeadOrder, FileInOrder, DirectOrder, OwedOK
<1> QED BY <1>1, <1>2, <1>3, ContinueInv, FlushInv, ActivateInv, TerminateInv DEF Next
-----------------------------------------------------------------------------
\* Of all behaviours of the log: where each context is, which locks it holds,
\* where each message is and in which order.
THEOREM LogInvariant == Spec => []LogInv
BY InitInv, NextInv, PTL DEF Spec

\* Every variable of the log has its type, and no buffer holds more messages
\* than fit in it (LogpBufferMessage, LogpFlushLogBuffer).
THEOREM TypeCorrect == Spec => []TypeOK
<1>1. LogInv => TypeOK
  BY DEF LogInv, Frame
<1> QED BY <1>1, LogInvariant, PTL

\* A message whose LogpPut returned and did not drop it is in the file or in a
\* buffer, once, whoever swaps and writes the buffers (LogpFlushLogBuffer).
THEOREM NothingLostHolds == Spec => []NothingLost
<1>1. LogInv => NothingLost
  BY DEF LogInv, Frame, TypeOK, Places, MessagesOK, Distinct, Kept, Ordered, Located, NothingLost
<1> QED BY <1>1, LogInvariant, PTL

\* A message that was over when another began comes before it in the file: who
\* writes directly flushes first (LogpWriteMessageToFile), holding the resource.
THEOREM FileOrderHolds == Spec => []FileOrder
<1>1. LogInv => FileOrder
  <2> SUFFICES ASSUME LogInv, activation # "failed", NEW i \in 1 .. Len(file),
                      NEW m \in before[file[i]] \ dropped
               PROVE  \E j \in 1 .. i - 1 : file[j] = m
    BY DEF FileOrder
  <2>1. file[i] \in Messages
    BY ElementOfSeq DEF LogInv, Frame, TypeOK
  <2> QED BY <2>1 DEF LogInv, Kept, Ordered, FileInOrder
<1> QED BY <1>1, LogInvariant, PTL

\* Once LogTermination is over the file has all that was logged before it,
\* though the flush thread ends without a last flush: "Bye!" flushed.
THEOREM OwedWrittenHolds == Spec => []OwedWritten
<1>1. LogInv => OwedWritten
  BY DEF LogInv, Kept, OwedOK, OwedWritten
<1> QED BY <1>1, LogInvariant, PTL

\* Nobody uses the buffers, the lock or the resource that
\* LogpFinalizeBufferInfo frees.
THEOREM NoUseAfterFreeHolds == Spec => []NoUseAfterFree
<1>1. LogInv => NoUseAfterFree
  <2> SUFFICES ASSUME LogInv, closing = "freed"
               PROVE  /\ \A c \in Contexts : pc[c] \in Resting
                      /\ spinLock = None /\ resource = None
    BY DEF NoUseAfterFree
  <2>1. \A c \in Contexts : pc[c] \in Resting
    BY DEF LogInv, Frame, LifeOK, Contexts, Guests, Resting
  <2>2. \A c \in Contexts : spinLock # c /\ resource # c
    BY <2>1 DEF LogInv, Frame, Control, ContextOK, Resting, Locking
  <2> QED BY <2>1, <2>2, ContextFacts DEF LogInv, Frame, TypeOK
<1> QED BY <1>1, LogInvariant, PTL
=============================================================================
