--------------------------- MODULE ListenerProofs ---------------------------
(***************************************************************************)
(* Theorems about Listener, for any listeners, datagrams and buffer size,  *)
(* of any length each.                                                     *)
(***************************************************************************)
EXTENDS Listener, TLAPS, SequenceTheorems

(* What a task holds from the moment it is spawned: its copy of the buffer *)
(* begins with its datagram, as far as the buffer reaches.                 *)
Carries(t) ==
  /\ t.of \in Datagrams
  /\ t.length = smaller(t.of.length, BufferSize)
  /\ \A k \in 1 .. t.length : t.data[k] = BytesOf(t.of)[k]
  /\ t.broadcast = (t.of.to = Broadcast)

QueueOK == queue \in [Listeners -> Seq(Datagrams)]

BufferOK == buffer = [l \in Listeners |-> buffer[l]]

LInv == /\ QueueOK
        /\ BufferOK
        /\ \A t \in tasks : Carries(t)
        /\ TaskSeesItsDatagram
-----------------------------------------------------------------------------
(* As many bytes as are received fit the buffer and the datagram.          *)
LEMMA Smaller ==
  ASSUME NEW a \in Nat, NEW b \in Nat
  PROVE  smaller(a, b) \in Nat /\ smaller(a, b) <= a /\ smaller(a, b) <= b
BY DEF smaller

(* A copy that agrees with the datagram yields its first bytes.            *)
LEMMA CutToLength ==
  ASSUME NEW t, Carries(t)
  PROVE  SubSeq(t.data, 1, t.length)
           = SubSeq(BytesOf(t.of), 1, smaller(t.of.length, BufferSize))
<1>. DEFINE d == t.of
            n == t.length
            S == {BytesOf(d)[k] : k \in 1 .. n}
<1>1. n \in Nat /\ n = smaller(d.length, BufferSize)
  BY Smaller, ListenerAssumption DEF Carries
<1>2. \A k \in 1 .. n : t.data[k] = BytesOf(d)[k] /\ BytesOf(d)[k] \in S
  BY DEF Carries
<1>. HIDE DEF S
<1>3. /\ SubSeq(t.data, 1, n) \in Seq(S)
      /\ Len(SubSeq(t.data, 1, n)) = IF 1 <= n THEN n - 1 + 1 ELSE 0
      /\ \A k \in 1 .. n - 1 + 1 : SubSeq(t.data, 1, n)[k] = t.data[1 + k - 1]
  <2>. \A k \in 1 .. n : t.data[k] \in S
    BY <1>2
  <2>. QED  BY <1>1, SubSeqProperties
<1>4. /\ SubSeq(BytesOf(d), 1, n) \in Seq(S)
      /\ Len(SubSeq(BytesOf(d), 1, n)) = IF 1 <= n THEN n - 1 + 1 ELSE 0
      /\ \A k \in 1 .. n - 1 + 1 :
           SubSeq(BytesOf(d), 1, n)[k] = BytesOf(d)[1 + k - 1]
  <2>. \A k \in 1 .. n : BytesOf(d)[k] \in S
    BY <1>2
  <2>. QED  BY <1>1, SubSeqProperties
<1>5. \A k \in 1 .. Len(SubSeq(t.data, 1, n)) :
        SubSeq(t.data, 1, n)[k] = SubSeq(BytesOf(d), 1, n)[k]
  <2>. TAKE k \in 1 .. Len(SubSeq(t.data, 1, n))
  <2>1. k \in 1 .. n /\ k \in 1 .. n - 1 + 1 /\ 1 + k - 1 = k
    BY <1>1, <1>3
  <2>. QED  BY <2>1, <1>2, <1>3, <1>4
<1>. QED  BY <1>1, <1>3, <1>4, <1>5, SeqEqual

(* The inductive invariant holds initially.                                *)
LEMMA LInvInit == Init => LInv
BY DEF Init, LInv, QueueOK, BufferOK, TaskSeesItsDatagram

(* Steps that neither receive nor start a task leave all of it alone but   *)
(* for the queue.                                                          *)
LEMMA LInvOthers ==
  ASSUME LInv, UNCHANGED <<buffer, tasks, taken>>, QueueOK'
  PROVE  LInv'
BY DEF LInv, BufferOK, TaskSeesItsDatagram, Carries

(* A listener that fails takes its queue with it, and no task.             *)
LEMMA LInvSetUpFails ==
  ASSUME LInv, NEW l \in Listeners, SetUpFails(l)
  PROVE  LInv'
<1>1. QueueOK'
  BY EmptySeq DEF LInv, QueueOK, SetUpFails
<1>. QED  BY <1>1, LInvOthers DEF SetUpFails

(* A datagram of the network joins queues only.                            *)
LEMMA LInvArrive ==
  ASSUME LInv, NEW d \in Datagrams, Arrive(d)
  PROVE  LInv'
<1>1. PICK to : queue' = [l \in Listeners |->
                            IF l \in to /\ HasRoom(l) THEN Append(queue[l], d)
                            ELSE queue[l]]
  BY DEF Arrive
<1>2. \A l \in Listeners : queue'[l] \in Seq(Datagrams)
  BY <1>1 DEF LInv, QueueOK
<1>3. QueueOK'
  BY <1>1, <1>2 DEF QueueOK
<1>. QED  BY <1>3, LInvOthers DEF Arrive

(* recvmsg leaves one datagram less on its queue, and its bytes at the     *)
(* head of the buffer.                                                     *)
LEMMA RecvmsgFacts ==
  ASSUME LInv, NEW l \in Listeners, recvmsg(l)
  PROVE  /\ QueueOK' /\ BufferOK'
         /\ Head(queue[l]) \in Datagrams
         /\ \A k \in 1 .. Copied(Head(queue[l])) :
              buffer'[l][k] = BytesOf(Head(queue[l]))[k]
<1>. DEFINE d == Head(queue[l])
            n == Copied(d)
<1>1. queue[l] \in Seq(Datagrams) /\ queue[l] # <<>>
  BY DEF LInv, QueueOK, recvmsg
<1>2. d \in Datagrams /\ Tail(queue[l]) \in Seq(Datagrams)
  BY <1>1, HeadTailProperties
<1>3. n \in Nat /\ n <= BufferSize /\ BufferSize \in Nat
  BY <1>2, Smaller, ListenerAssumption DEF Copied
<1>4. /\ buffer' = [buffer EXCEPT ![l] = [k \in 1 .. BufferSize |->
                      IF k <= n THEN BytesOf(d)[k] ELSE buffer[l][k]]]
      /\ queue' = [queue EXCEPT ![l] = Tail(queue[l])]
  BY DEF recvmsg
<1>5. buffer'[l] = [k \in 1 .. BufferSize |->
                      IF k <= n THEN BytesOf(d)[k] ELSE buffer[l][k]]
  BY <1>4 DEF LInv, BufferOK
<1>6. QueueOK' /\ BufferOK'
  BY <1>2, <1>4 DEF LInv, QueueOK, BufferOK
<1>7. \A k \in 1 .. n : buffer'[l][k] = BytesOf(d)[k]
  BY <1>3, <1>5
<1>. QED  BY <1>2, <1>6, <1>7

(* The spawned task copies the buffer.                                     *)
LEMMA LInvReceive ==
  ASSUME LInv, NEW l \in Listeners, Receive(l)
  PROVE  LInv'
<1>. DEFINE d == Head(queue[l])
            t == [of |-> d, recv_ip |-> l, length |-> Copied(d),
                  data |-> buffer'[l], broadcast |-> d.to = Broadcast]
<1>1. recvmsg(l) /\ tasks' = tasks \cup {t} /\ taken' = taken
  BY DEF Receive
<1>2. /\ QueueOK' /\ BufferOK' /\ d \in Datagrams
      /\ \A k \in 1 .. Copied(d) : buffer'[l][k] = BytesOf(d)[k]
  BY <1>1, RecvmsgFacts
<1>3. Carries(t)
  BY <1>2 DEF Carries, Copied
<1>4. \A u \in tasks' : Carries(u)
  BY <1>1, <1>3 DEF LInv
<1>5. TaskSeesItsDatagram'
  BY <1>1 DEF LInv, TaskSeesItsDatagram
<1>. QED  BY <1>2, <1>4, <1>5 DEF LInv, Carries

(* A datagram that is lost changes the buffer and no task's copy of it.    *)
LEMMA LInvControlMessagesFail ==
  ASSUME LInv, NEW l \in Listeners, ControlMessagesFail(l)
  PROVE  LInv'
<1>1. recvmsg(l) /\ UNCHANGED <<tasks, taken>>
  BY DEF ControlMessagesFail
<1>2. QueueOK' /\ BufferOK'
  BY <1>1, RecvmsgFacts
<1>. QED  BY <1>1, <1>2 DEF LInv, TaskSeesItsDatagram, Carries

(* The task cuts its copy to the received length: its datagram's bytes.    *)
LEMMA LInvTake ==
  ASSUME LInv, NEW t \in tasks, Take(t)
  PROVE  LInv'
<1>1. Carries(t)
  BY DEF LInv
<1>2. SubSeq(t.data, 1, t.length)
        = SubSeq(BytesOf(t.of), 1, smaller(t.of.length, BufferSize))
  BY <1>1, CutToLength
<1>3. TaskSeesItsDatagram'
  BY <1>1, <1>2 DEF LInv, TaskSeesItsDatagram, Take, Carries
<1>4. (QueueOK /\ BufferOK)' /\ \A u \in tasks' : Carries(u)
  BY DEF LInv, Take, QueueOK, BufferOK
<1>. QED  BY <1>3, <1>4 DEF LInv, Carries

(* The inductive invariant is preserved by every step.                     *)
LEMMA LInvNext == LInv /\ [Next]_vars => LInv'
<1>. SUFFICES ASSUME LInv, [Next]_vars PROVE LInv'
  OBVIOUS
<1>1. CASE \E l \in Listeners : SetUpFails(l)
  BY <1>1, LInvSetUpFails
<1>2. CASE \E d \in Datagrams : Arrive(d)
  BY <1>2, LInvArrive
<1>3. CASE \E l \in Listeners : Receive(l)
  BY <1>3, LInvReceive
<1>4. CASE \E l \in Listeners : ControlMessagesFail(l)
  BY <1>4, LInvControlMessagesFail
<1>5. CASE \E t \in tasks : Take(t)
  BY <1>5, LInvTake
<1>6. CASE \/ Load \/ UNCHANGED vars
           \/ \E l \in Listeners : Spawn(l) \/ SetUpStep(l) \/ ReceiveFails(l)
  <2>1. UNCHANGED <<queue, buffer, tasks, taken>>
    BY <1>6 DEF Load, Spawn, SetUpStep, ReceiveFails, network, vars
  <2>. QED  BY <2>1, LInvOthers DEF LInv, QueueOK
<1>. QED  BY <1>1, <1>2, <1>3, <1>4, <1>5, <1>6 DEF Next

(* However many datagrams a listener writes into its one buffer before the *)
(* task of an earlier one starts, that task has the bytes of its own, from *)
(* the first to the last that the buffer holds, and nothing of a longer    *)
(* one before it.                                                          *)
THEOREM BuffersAreSeparate == Spec => []TaskSeesItsDatagram
<1>1. LInv => TaskSeesItsDatagram
  BY DEF LInv
<1>. QED  BY <1>1, LInvInit, LInvNext, PTL DEF Spec
=============================================================================
