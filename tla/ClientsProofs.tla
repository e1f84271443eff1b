----------------------------- MODULE ClientsProofs -----------------------------
(***************************************************************************)
(* What a connected client gets, however many frames it sends and however  *)
(* many answers its channel carries: each request answered once and in     *)
(* order by the loop of a connection, and no answer lost within the        *)
(* capacity by a stream of events.                                         *)
(***************************************************************************)
EXTENDS MCClients, SequenceTheorems, TLAPS

Kind == Kinds("ws") \cup Kinds("stdio")

LoopTypes ==
    /\ transport \in {"ws", "stdio"}
    /\ sent \in Seq([kind : Kind, binary : BOOLEAN])
    /\ read \in 0 .. Len(sent)
    /\ pc \in {"read", "handle", "reply", "over"}
    /\ handled \in Seq(Nat) /\ out \in Seq(Nat)

\* The frame that the loop is at has been read and is to be answered, if an
\* answer is what comes next.
AtItsFrame ==
    /\ pc \in {"handle", "reply"} => read > 0
    /\ pc = "reply" => Current.kind \in {"request", "batch", "ping", "garbage"}

\* Nothing is handled or answered that comes behind that frame, and not the
\* frame itself before its turn.
NothingAhead ==
    /\ \A k \in DOMAIN handled :
          handled[k] # 0 /\ handled[k] <= read /\ (pc = "handle" => handled[k] < read)
    /\ \A k \in DOMAIN out :
          out[k] <= read /\ (pc \in {"handle", "reply"} => out[k] < read)

\* Every request before that frame has its answer, whatever ended the loop.
EarlierAnswered ==
    \A k \in 1 .. read :
        sent[k].kind = "request" /\ (k < read \/ pc = "read")
        => \E j \in DOMAIN out : out[j] = k

LoopIInv ==
    /\ LoopTypes /\ AtItsFrame /\ NothingAhead /\ EarlierAnswered
    /\ Ascending(handled) /\ Ascending(out)
    /\ \A k \in DOMAIN out : out[k] # 0 => sent[out[k]].kind \in {"request", "batch", "ping"}
-----------------------------------------------------------------------------
\* A number behind all others keeps a sequence ascending.
LEMMA AppendAscends ==
  ASSUME NEW seq \in Seq(Nat), NEW n \in Nat, Ascending(seq),
         n # 0 => \A k \in DOMAIN seq : seq[k] < n
  PROVE  Ascending(Append(seq, n))
  <1>1. /\ Append(seq, n) \in Seq(Nat) /\ Len(Append(seq, n)) = Len(seq) + 1
        /\ \A k \in 1 .. Len(seq) : Append(seq, n)[k] = seq[k]
        /\ Append(seq, n)[Len(seq) + 1] = n
    BY AppendProperties
  <1>2. Len(seq) \in Nat /\ DOMAIN seq = 1 .. Len(seq)
        /\ DOMAIN Append(seq, n) = 1 .. Len(seq) + 1
    BY <1>1
  <1>3. ASSUME NEW j \in 1 .. Len(seq) + 1, NEW k \in 1 .. Len(seq) + 1, j < k,
               Append(seq, n)[j] # 0, Append(seq, n)[k] # 0
        PROVE  Append(seq, n)[j] < Append(seq, n)[k]
    <2>1. j \in 1 .. Len(seq) /\ Append(seq, n)[j] = seq[j]
      BY <1>1, <1>2, <1>3
    <2>2. CASE k = Len(seq) + 1
      BY <1>1, <1>2, <1>3, <2>1, <2>2
    <2>3. CASE k \in 1 .. Len(seq)
      BY <1>1, <1>2, <1>3, <2>1, <2>3 DEF Ascending
    <2> QED
      BY <1>2, <1>3, <2>2, <2>3
  <1> QED
    BY <1>2, <1>3 DEF Ascending

\* A connection begins with nothing read and nothing answered.
LEMMA LoopInit == Init => LoopIInv
  BY DEF Init, LoopIInv, LoopTypes, AtItsFrame, NothingAhead, EarlierAnswered, Ascending

\* What the client sends lies behind what has been read.
LEMMA LoopSends ==
  ASSUME LoopIInv, NEW kind \in Kinds(transport), NEW binary \in BOOLEAN,
         ClientSends(kind, binary)
  PROVE  LoopIInv'
  <1> DEFINE f == [kind |-> kind, binary |-> binary]
  <1>1. /\ UNCHANGED <<transport, read, pc, handled, out>> /\ sent' = Append(sent, f)
        /\ f \in [kind : Kind, binary : BOOLEAN]
    BY DEF ClientSends, LoopIInv, LoopTypes, Kind
  <1> HIDE DEF f
  <1>2. /\ sent' \in Seq([kind : Kind, binary : BOOLEAN]) /\ Len(sent') = Len(sent) + 1
        /\ Len(sent) \in Nat /\ \A k \in 1 .. Len(sent) : sent'[k] = sent[k]
    BY <1>1, AppendProperties DEF LoopIInv, LoopTypes
  <1>3. \A k \in 1 .. read : sent'[k] = sent[k]
    <2>1. read \in 0 .. Len(sent)
      BY DEF LoopIInv, LoopTypes
    <2>2. \A k \in 1 .. read : k \in 1 .. Len(sent)
      BY <1>2, <2>1
    <2> QED
      BY <1>2, <2>2
  <1>4. LoopTypes'
    BY <1>1, <1>2 DEF LoopIInv, LoopTypes
  <1>5. AtItsFrame' /\ NothingAhead'
    BY <1>1, <1>3 DEF LoopIInv, LoopTypes, AtItsFrame, NothingAhead, Current
  <1>6. EarlierAnswered'
    BY <1>1, <1>3 DEF LoopIInv, EarlierAnswered
  <1>7. ASSUME NEW k \in DOMAIN out, out[k] # 0
        PROVE  sent'[out[k]].kind \in {"request", "batch", "ping"}
    <2>1. out[k] \in 1 .. read
      BY <1>7 DEF LoopIInv, LoopTypes, NothingAhead
    <2> QED
      BY <1>3, <1>7, <2>1 DEF LoopIInv
  <1> QED
    BY <1>1, <1>4, <1>5, <1>6, <1>7 DEF LoopIInv, Ascending

\* A frame that is read comes behind those that were.
LEMMA LoopReads == LoopIInv /\ ReadFrame => LoopIInv'
  <1> SUFFICES ASSUME LoopIInv, ReadFrame PROVE LoopIInv'
    OBVIOUS
  <1> DEFINE f == sent[read + 1]
  <1>1. /\ UNCHANGED <<transport, sent, handled, out>> /\ pc = "read" /\ read' = read + 1
        /\ read < Len(sent)
        /\ pc' = IF Ends(f) THEN "over"
                 ELSE IF Handles(f) THEN "handle"
                 ELSE IF AnswersAlone(f) THEN "reply" ELSE "read"
    BY DEF ReadFrame
  <1>2. read \in Nat /\ Len(sent) \in Nat /\ read + 1 \in 0 .. Len(sent)
    BY <1>1 DEF LoopIInv, LoopTypes
  <1>3. LoopTypes'
    BY <1>1, <1>2 DEF LoopIInv, LoopTypes
  <1>4. AtItsFrame'
    <2>1. pc' = "reply" => f.kind \in {"ping", "garbage"}
      BY <1>1 DEF AnswersAlone
    <2> QED
      BY <1>1, <1>2, <2>1 DEF AtItsFrame, Current
  <1>5. NothingAhead'
    BY <1>1, <1>2 DEF LoopIInv, LoopTypes, NothingAhead
  <1>6. EarlierAnswered'
    <2>1. pc' = "read" => f.kind # "request"
      BY <1>1 DEF Handles
    <2> QED
      BY <1>1, <1>2, <2>1 DEF LoopIInv, EarlierAnswered
  <1> QED
    BY <1>1, <1>3, <1>4, <1>5, <1>6 DEF LoopIInv, Ascending

\* A request that is handled becomes the answer that is next.
LEMMA LoopHandles == LoopIInv /\ Handle => LoopIInv'
  <1> SUFFICES ASSUME LoopIInv, Handle PROVE LoopIInv'
    OBVIOUS
  <1>1. /\ UNCHANGED <<transport, sent, read, out>> /\ pc = "handle"
        /\ handled' = Append(handled, read)
        /\ pc' = IF Answered(Current) THEN "reply" ELSE "read"
    BY DEF Handle
  <1>2. read \in Nat /\ read > 0 /\ handled \in Seq(Nat) /\ Len(handled) \in Nat
    BY <1>1 DEF LoopIInv, LoopTypes, AtItsFrame
  <1>3. /\ handled' \in Seq(Nat) /\ DOMAIN handled' = 1 .. Len(handled) + 1
        /\ DOMAIN handled = 1 .. Len(handled)
        /\ \A k \in 1 .. Len(handled) : handled'[k] = handled[k]
        /\ handled'[Len(handled) + 1] = read
    BY <1>1, <1>2, AppendProperties
  <1>4. LoopTypes' /\ AtItsFrame'
    BY <1>1, <1>2, <1>3 DEF LoopIInv, LoopTypes, AtItsFrame, Answered, Current
  <1>5. NothingAhead'
    <2>1. \A k \in DOMAIN handled' : handled'[k] # 0 /\ handled'[k] <= read
      BY <1>1, <1>2, <1>3 DEF LoopIInv, NothingAhead
    <2> QED
      BY <1>1, <2>1 DEF LoopIInv, NothingAhead
  <1>6. EarlierAnswered'
    BY <1>1, <1>2 DEF LoopIInv, EarlierAnswered, Answered, Current
  <1>7. Ascending(handled')
    <2>1. \A k \in DOMAIN handled : handled[k] < read
      BY <1>1 DEF LoopIInv, NothingAhead
    <2> QED
      BY <1>1, <1>2, <2>1, AppendAscends DEF LoopIInv
  <1> QED
    BY <1>1, <1>4, <1>5, <1>6, <1>7 DEF LoopIInv, Ascending

\* The answers that are sent come behind those that were, in their order.
LEMMA LoopReplies == LoopIInv /\ Reply => LoopIInv'
  <1> SUFFICES ASSUME LoopIInv, Reply PROVE LoopIInv'
    OBVIOUS
  <1>1. /\ UNCHANGED <<transport, sent, read, handled>> /\ pc = "reply" /\ pc' = "read"
        /\ out' = Append(out, Id) /\ Id = IF Current.kind = "garbage" THEN 0 ELSE read
    BY DEF Reply, AfterReply, Id
  <1>2. /\ read \in Nat /\ read > 0 /\ out \in Seq(Nat) /\ Len(out) \in Nat /\ Id \in Nat
        /\ Id <= read /\ (Id # 0 => Current.kind \in {"request", "batch", "ping"})
        /\ (Current.kind = "request" => Id = read)
    BY <1>1 DEF LoopIInv, LoopTypes, AtItsFrame
  <1>3. /\ out' \in Seq(Nat) /\ DOMAIN out' = 1 .. Len(out) + 1 /\ DOMAIN out = 1 .. Len(out)
        /\ \A k \in 1 .. Len(out) : out'[k] = out[k]
        /\ out'[Len(out) + 1] = Id
    BY <1>1, <1>2, AppendProperties
  <1>4. LoopTypes' /\ AtItsFrame'
    BY <1>1, <1>3 DEF LoopIInv, LoopTypes, AtItsFrame
  <1>5. NothingAhead'
    <2>1. \A k \in DOMAIN out' : out'[k] <= read
      BY <1>2, <1>3 DEF LoopIInv, NothingAhead
    <2> QED
      BY <1>1, <2>1 DEF LoopIInv, NothingAhead
  <1>6. EarlierAnswered'
    <2> SUFFICES ASSUME NEW k \in 1 .. read, sent[k].kind = "request"
                 PROVE  \E j \in DOMAIN out' : out'[j] = k
      BY <1>1 DEF EarlierAnswered
    <2>1. CASE k < read
      <3>1. PICK j \in DOMAIN out : out[j] = k
        BY <2>1 DEF LoopIInv, EarlierAnswered
      <3> QED
        BY <1>2, <1>3, <3>1
    <2>2. CASE k = read
      <3>1. Id = read
        BY <1>2, <2>2 DEF Current
      <3>2. Len(out) + 1 \in DOMAIN out'
        BY <1>2, <1>3
      <3> QED
        BY <1>3, <2>2, <3>1, <3>2
    <2> QED
      BY <1>2, <2>1, <2>2
  <1>7. Ascending(out')
    <2>1. Id # 0 => \A k \in DOMAIN out : out[k] < Id
      BY <1>1 DEF LoopIInv, NothingAhead
    <2> QED
      BY <1>1, <1>2, <2>1, AppendAscends DEF LoopIInv
  <1>8. \A k \in DOMAIN out' : out'[k] # 0 => sent[out'[k]].kind \in {"request", "batch", "ping"}
    <2>1. Id # 0 => sent[Id].kind \in {"request", "batch", "ping"}
      BY <1>1, <1>2 DEF Current
    <2> QED
      BY <1>2, <1>3, <2>1 DEF LoopIInv
  <1> QED
    BY <1>1, <1>4, <1>5, <1>6, <1>7, <1>8 DEF LoopIInv, Ascending

\* No step of the loop, of the client or of its end breaks the order.
LEMMA LoopStep == LoopIInv /\ [Next]_vars => LoopIInv'
  <1> SUFFICES ASSUME LoopIInv, [Next]_vars PROVE LoopIInv'
    OBVIOUS
  <1>1. ASSUME UNCHANGED <<transport, sent, read, handled, out>>, pc' \in {pc, "over"}
        PROVE  LoopIInv'
    <2>1. LoopTypes' /\ AtItsFrame'
      BY <1>1 DEF LoopIInv, LoopTypes, AtItsFrame, Current
    <2>2. NothingAhead' /\ EarlierAnswered'
      BY <1>1 DEF LoopIInv, NothingAhead, EarlierAnswered
    <2> QED
      BY <1>1, <2>1, <2>2 DEF LoopIInv, Ascending
  <1>2. CASE UNCHANGED vars
    BY <1>1, <1>2 DEF vars
  <1>3. CASE ClientGoes \/ Panic \/ ReadEnd \/ ReplyFails
    BY <1>1, <1>3 DEF ClientGoes, Panic, ReadEnd, ReplyFails
  <1> QED
    BY <1>2, <1>3, LoopSends, LoopReads, LoopHandles, LoopReplies DEF Next, Loop

\* Sent in the order of the requests, each once: AnswersFollowRequests (Connection).
LEMMA LoopPromise == LoopIInv => AnswersFollowRequests
  BY DEF LoopIInv, EarlierAnswered, AnswersFollowRequests

\* Of all that a client sends, nothing is handled or answered twice or out of
\* order, and every request is answered before the loop reads on.
THEOREM AnswersTheorem == Spec => []AnswersFollowRequests
  BY LoopInit, LoopStep, LoopPromise, PTL DEF Spec
-----------------------------------------------------------------------------
\* The streams of a channel: where each one began and what it reads next.
StreamTypes ==
    /\ open \in BOOLEAN /\ tail \in Nat
    /\ state \in [Reader -> {"none", "reading", "ended", "gone"}]
    /\ from \in [Reader -> Nat] /\ next \in [Reader -> Nat]
    /\ got \in [Reader -> Seq(Nat)]
    /\ behind \in [Reader -> BOOLEAN]

\* Where stream r is: behind where it began, and no further than the channel;
\* unless it ever was behind, all that it is to read is still kept.
StreamPlaced(r) ==
    /\ state[r] = "none" => got[r] = <<>> /\ ~behind[r] /\ from[r] = 0 /\ next[r] = 0
    /\ state[r] # "none" => from[r] >= 1 /\ from[r] <= next[r] /\ next[r] <= tail + 1
    /\ state[r] = "reading" /\ ~behind[r] => tail < next[r] + Capacity
    /\ state[r] = "ended" => ~open /\ next[r] = tail + 1

\* What it was given lies in between, in order, and is all of it unless the
\* stream ever was behind.
StreamOrdered(r) ==
    /\ \A j \in 1 .. Len(got[r]) : got[r][j] >= from[r] /\ got[r][j] < next[r]
    /\ \A j, k \in 1 .. Len(got[r]) : j < k => got[r][j] < got[r][k]
    /\ ~behind[r] => /\ Len(got[r]) = next[r] - from[r]
                     /\ \A j \in 1 .. Len(got[r]) : got[r][j] = from[r] + j - 1

\* What the channel still keeps of it is not missing in any case.
StreamRecent(r) ==
    state[r] # "none" =>
        \A n \in from[r] .. next[r] - 1 : n > tail - Capacity =>
            \E j \in 1 .. Len(got[r]) : got[r][j] = n

StreamSound(r) == StreamPlaced(r) /\ StreamOrdered(r) /\ StreamRecent(r)

StreamIInv == StreamTypes /\ \A r \in Reader : StreamSound(r)

\* No stream has read anything of an empty channel.
LEMMA StreamInit == Stream!Init => StreamIInv
  BY DEF Stream!Init, StreamIInv, StreamTypes, StreamSound, StreamPlaced, StreamOrdered, StreamRecent

\* A stream stays sound while another one is served.
LEMMA StreamStays ==
  ASSUME StreamIInv, NEW r \in Reader, UNCHANGED <<open, tail>>,
         state'[r] = state[r], from'[r] = from[r], next'[r] = next[r],
         got'[r] = got[r], behind'[r] = behind[r]
  PROVE  StreamSound(r)'
  BY DEF StreamIInv, StreamSound, StreamPlaced, StreamOrdered, StreamRecent

\* A poll gives the event that is next, and moves the stream on by one.
LEMMA StreamReceives ==
  ASSUME StreamIInv, NEW r \in Reader, Stream!Receive(r)
  PROVE  StreamIInv'
  <1>1. /\ UNCHANGED <<open, tail, state, from, behind>>
        /\ state[r] = "reading" /\ ~Stream!Lags(r) /\ next[r] <= tail
        /\ got' = [got EXCEPT ![r] = Append(@, next[r])]
        /\ next' = [next EXCEPT ![r] = @ + 1]
    BY DEF Stream!Receive, Stream!channel
  <1>2. /\ from[r] \in Nat /\ next[r] \in Nat /\ tail \in Nat /\ got[r] \in Seq(Nat)
        /\ Capacity \in Nat /\ Len(got[r]) \in Nat /\ behind[r] \in BOOLEAN
        /\ StreamSound(r)
    BY CapacityAssumption DEF StreamIInv, StreamTypes, Stream!ConstantsAssumption
  <1>3. /\ got'[r] = Append(got[r], next[r]) /\ next'[r] = next[r] + 1
        /\ \A s \in Reader : s # r => got'[s] = got[s] /\ next'[s] = next[s]
    BY <1>1 DEF StreamIInv, StreamTypes
  <1>4. /\ got'[r] \in Seq(Nat) /\ Len(got'[r]) = Len(got[r]) + 1
        /\ \A j \in 1 .. Len(got[r]) : got'[r][j] = got[r][j]
        /\ got'[r][Len(got[r]) + 1] = next[r]
    BY <1>2, <1>3, AppendProperties
  <1>5. StreamTypes'
    BY <1>1, <1>2, <1>4 DEF StreamIInv, StreamTypes
  <1>6. StreamSound(r)'
    <2> DEFINE last == Len(got[r]) + 1
    <2>1. \A j \in 1 .. last : j = last \/ j \in 1 .. Len(got[r])
      BY <1>2
    <2>2. \A j \in 1 .. last : got'[r][j] >= from[r] /\ got'[r][j] < next[r] + 1
      BY <1>1, <1>2, <1>4, <2>1 DEF StreamSound, StreamPlaced, StreamOrdered, StreamRecent
    <2>3. \A j, k \in 1 .. last : j < k => got'[r][j] < got'[r][k]
      <3> SUFFICES ASSUME NEW j \in 1 .. last, NEW k \in 1 .. last, j < k
                   PROVE  got'[r][j] < got'[r][k]
        OBVIOUS
      <3>1. j \in 1 .. Len(got[r])
        BY <1>2
      <3>2. CASE k = last
        BY <1>1, <1>2, <1>4, <3>1, <3>2 DEF StreamSound, StreamPlaced, StreamOrdered, StreamRecent
      <3>3. CASE k \in 1 .. Len(got[r])
        BY <1>2, <1>4, <3>1, <3>3 DEF StreamSound, StreamPlaced, StreamOrdered, StreamRecent
      <3> QED
        BY <2>1, <3>2, <3>3
    <2>4. ~behind[r] => /\ last = next[r] + 1 - from[r]
                        /\ \A j \in 1 .. last : got'[r][j] = from[r] + j - 1
      <3> SUFFICES ASSUME ~behind[r]
                   PROVE  /\ last = next[r] + 1 - from[r]
                          /\ \A j \in 1 .. last : got'[r][j] = from[r] + j - 1
        OBVIOUS
      <3>1. /\ Len(got[r]) = next[r] - from[r]
            /\ \A j \in 1 .. Len(got[r]) : got[r][j] = from[r] + j - 1
        BY <1>2 DEF StreamSound, StreamOrdered
      <3>2. \A j \in 1 .. Len(got[r]) : got'[r][j] = from[r] + j - 1
        BY <1>4, <3>1
      <3>3. last = next[r] + 1 - from[r] /\ got'[r][last] = from[r] + last - 1
        <4>1. next[r] = from[r] + last - 1 /\ last = next[r] + 1 - from[r]
          BY <1>2, <3>1
        <4> QED
          BY <1>4, <4>1
      <3> QED
        BY <2>1, <3>2, <3>3
    <2>5. \A n \in from[r] .. next[r] : n > tail - Capacity =>
              \E j \in 1 .. last : got'[r][j] = n
      <3> SUFFICES ASSUME NEW n \in from[r] .. next[r], n > tail - Capacity
                   PROVE  \E j \in 1 .. last : got'[r][j] = n
        OBVIOUS
      <3>1. CASE n = next[r]
        BY <1>2, <1>4, <3>1
      <3>2. CASE n # next[r]
        <4>1. n \in from[r] .. next[r] - 1
          BY <1>2, <3>2
        <4>2. PICK j \in 1 .. Len(got[r]) : got[r][j] = n
          BY <1>1, <1>2, <4>1 DEF StreamSound, StreamRecent
        <4>3. got'[r][j] = n
          BY <1>4, <4>2
        <4>4. j \in 1 .. last
          BY <1>2
        <4> QED
          BY <4>3, <4>4
      <3> QED
        BY <3>1, <3>2
    <2>6. Len(got'[r]) = last /\ next'[r] = next[r] + 1 /\ next'[r] - 1 = next[r]
      BY <1>2, <1>3, <1>4
    <2>7. ~behind[r] => tail < next'[r] + Capacity
      BY <1>1, <1>2, <2>6 DEF StreamSound, StreamPlaced, Stream!Lags
    <2>8. from[r] >= 1 /\ from[r] <= next'[r] /\ next'[r] <= tail + 1
      BY <1>1, <1>2, <2>6 DEF StreamSound, StreamPlaced, StreamOrdered, StreamRecent
    <2> HIDE DEF last
    <2>9. StreamPlaced(r)'
      BY <1>1, <2>7, <2>8 DEF StreamPlaced
    <2>10. StreamOrdered(r)'
      <3>1. behind' = behind /\ from' = from
        BY <1>1
      <3>2. \A j \in 1 .. Len(got'[r]) : got'[r][j] >= from'[r] /\ got'[r][j] < next'[r]
        BY <2>2, <2>6, <3>1
      <3>3. \A j, k \in 1 .. Len(got'[r]) : j < k => got'[r][j] < got'[r][k]
        BY <2>3, <2>6
      <3>4. ~behind'[r] => /\ Len(got'[r]) = next'[r] - from'[r]
                           /\ \A j \in 1 .. Len(got'[r]) : got'[r][j] = from'[r] + j - 1
        <4>1. next'[r] - from'[r] = next[r] + 1 - from[r] /\ behind'[r] = behind[r]
                /\ from'[r] = from[r]
          <5>1. next'[r] = next[r] + 1 /\ behind'[r] = behind[r] /\ from'[r] = from[r]
            BY <2>6, <3>1
          <5>2. next[r] \in Nat /\ from[r] \in Nat
            BY <1>2
          <5> QED
            BY <5>1, <5>2, Z3
        <4> QED
          BY <2>4, <2>6, <4>1
      <3> QED
        BY <3>2, <3>3, <3>4 DEF StreamOrdered
    <2>11. StreamRecent(r)'
      BY <1>1, <2>5, <2>6 DEF StreamRecent
    <2> QED
      BY <2>9, <2>10, <2>11 DEF StreamSound
  <1>7. ASSUME NEW s \in Reader, s # r PROVE StreamSound(s)'
    BY <1>1, <1>2, <1>3, <1>5, <1>7, StreamStays DEF StreamIInv, StreamTypes
  <1> QED
    BY <1>5, <1>6, <1>7 DEF StreamIInv

\* What a stream skips, the channel keeps no longer.
LEMMA StreamSkips ==
  ASSUME StreamIInv, NEW r \in Reader, Stream!Skip(r)
  PROVE  StreamIInv'
  <1>1. /\ UNCHANGED <<open, tail, state, from, got, behind>>
        /\ state[r] = "reading" /\ tail >= next[r] + Capacity
        /\ next' = [next EXCEPT ![r] = tail + 1 - Capacity]
    BY DEF Stream!Skip, Stream!Skipped, Stream!Lags, Stream!channel
  <1>2. /\ from[r] \in Nat /\ next[r] \in Nat /\ tail \in Nat /\ got[r] \in Seq(Nat)
        /\ Capacity \in Nat /\ Len(got[r]) \in Nat /\ behind[r] \in BOOLEAN
        /\ StreamSound(r)
    BY CapacityAssumption DEF StreamIInv, StreamTypes, Stream!ConstantsAssumption
  <1>3. /\ next'[r] = tail + 1 - Capacity /\ next'[r] \in Nat /\ next[r] < next'[r]
        /\ \A s \in Reader : s # r => next'[s] = next[s]
    BY <1>1, <1>2 DEF StreamIInv, StreamTypes
  <1>4. StreamTypes'
    BY <1>1, <1>3 DEF StreamIInv, StreamTypes
  <1>5. StreamSound(r)'
    <2>1. behind[r]
      BY <1>1, <1>2 DEF StreamSound, StreamPlaced, StreamOrdered, StreamRecent
    <2>2. \A n \in from[r] .. next'[r] - 1 : ~(n > tail - Capacity)
      BY <1>2, <1>3
    <2>3. \A j \in 1 .. Len(got[r]) : got[r][j] >= from[r] /\ got[r][j] < next'[r]
      BY <1>2, <1>3 DEF StreamSound, StreamPlaced, StreamOrdered, StreamRecent
    <2>4. from[r] >= 1 /\ from[r] <= next'[r] /\ next'[r] <= tail + 1
      BY <1>1, <1>2, <1>3 DEF StreamSound, StreamPlaced, StreamOrdered, StreamRecent
    <2> QED
      BY <1>1, <1>2, <2>1, <2>2, <2>3, <2>4 DEF StreamSound, StreamPlaced, StreamOrdered, StreamRecent
  <1>6. ASSUME NEW s \in Reader, s # r PROVE StreamSound(s)'
    BY <1>1, <1>2, <1>3, <1>4, <1>6, StreamStays DEF StreamIInv, StreamTypes
  <1> QED
    BY <1>4, <1>5, <1>6 DEF StreamIInv

\* No answer, poll, skip or end breaks what a stream has read.
LEMMA StreamStep == StreamIInv /\ [Stream!Next]_(Stream!vars) => StreamIInv'
  <1> SUFFICES ASSUME StreamIInv, [Stream!Next]_(Stream!vars) PROVE StreamIInv'
    OBVIOUS
  <1> USE DEF Stream!channel, Stream!streams
  <1>1. tail \in Nat /\ Capacity \in Nat /\ open \in BOOLEAN
    BY CapacityAssumption DEF StreamIInv, StreamTypes, Stream!ConstantsAssumption
  <1>2. CASE UNCHANGED Stream!vars
    BY <1>2 DEF Stream!vars, StreamIInv, StreamTypes, StreamSound, StreamPlaced, StreamOrdered, StreamRecent
  <1>3. CASE Stream!Close
    <2>1. open' = FALSE /\ UNCHANGED <<tail, state, from, next, got, behind>>
      BY <1>3 DEF Stream!Close
    <2> QED
      BY <2>1 DEF StreamIInv, StreamTypes, StreamSound, StreamPlaced, StreamOrdered, StreamRecent
  <1>4. CASE Stream!Answer
    <2>1. /\ open /\ tail' = tail + 1 /\ UNCHANGED <<open, state, from, next, got>>
          /\ behind' = [r \in Reader |->
                           behind[r] \/ (state[r] = "reading" /\ tail' >= next[r] + Capacity)]
      BY <1>4 DEF Stream!Answer
    <2>2. StreamTypes'
      BY <1>1, <2>1 DEF StreamIInv, StreamTypes
    <2>3. ASSUME NEW r \in Reader PROVE StreamSound(r)'
      <3>1. /\ from[r] \in Nat /\ next[r] \in Nat /\ got[r] \in Seq(Nat)
            /\ Len(got[r]) \in Nat /\ behind[r] \in BOOLEAN /\ StreamSound(r)
            /\ behind'[r] = (behind[r] \/ (state[r] = "reading" /\ tail + 1 >= next[r] + Capacity))
        BY <2>1, <2>3 DEF StreamIInv, StreamTypes
      <3>2. state[r] # "ended"
        BY <2>1, <3>1 DEF StreamSound, StreamPlaced, StreamOrdered, StreamRecent
      <3>3. ~behind'[r] => ~behind[r] /\ (state[r] = "reading" => tail + 1 < next[r] + Capacity)
        <4>1. ~behind'[r] =>
                 ~behind[r] /\ ~(state[r] = "reading" /\ tail + 1 >= next[r] + Capacity)
          BY <3>1, Zenon
        <4>2. ~(tail + 1 >= next[r] + Capacity) => tail + 1 < next[r] + Capacity
          BY <1>1, <3>1
        <4> QED
          BY <4>1, <4>2
      <3>4. /\ state' = state /\ from' = from /\ next' = next /\ got' = got /\ open' = open
            /\ tail' = tail + 1
        BY <2>1
      <3>5. StreamPlaced(r)'
        <4>1. state[r] = "none" => ~behind'[r]
          BY <3>1 DEF StreamSound, StreamPlaced
        <4>2. state[r] # "none" => from[r] >= 1 /\ from[r] <= next[r] /\ next[r] <= tail + 1 + 1
          BY <1>1, <3>1 DEF StreamSound, StreamPlaced
        <4>3. state[r] = "none" => got[r] = <<>> /\ from[r] = 0 /\ next[r] = 0
          BY <3>1 DEF StreamSound, StreamPlaced
        <4> QED
          BY <3>2, <3>3, <3>4, <4>1, <4>2, <4>3 DEF StreamPlaced
      <3>6. StreamOrdered(r)'
        BY <3>1, <3>3, <3>4 DEF StreamSound, StreamOrdered
      <3>7. StreamRecent(r)'
        <4> SUFFICES ASSUME state'[r] # "none", NEW n \in from'[r] .. next'[r] - 1,
                            n > tail' - Capacity
                     PROVE  \E j \in 1 .. Len(got'[r]) : got'[r][j] = n
          BY DEF StreamRecent
        <4>1. n \in from[r] .. next[r] - 1 /\ n > tail - Capacity
          BY <1>1, <3>1, <3>4
        <4> QED
          BY <3>1, <3>4, <4>1 DEF StreamSound, StreamRecent
      <3> QED
        BY <3>5, <3>6, <3>7 DEF StreamSound
    <2> QED
      BY <2>2, <2>3 DEF StreamIInv
  <1>5. ASSUME NEW r \in Reader, Stream!Subscribe(r) PROVE StreamIInv'
    <2>1. /\ UNCHANGED <<open, tail, got, behind>> /\ state[r] = "none"
          /\ state' = [state EXCEPT ![r] = "reading"]
          /\ from' = [from EXCEPT ![r] = tail + 1]
          /\ next' = [next EXCEPT ![r] = tail + 1]
      BY <1>5 DEF Stream!Subscribe
    <2>2. StreamTypes'
      BY <1>1, <2>1 DEF StreamIInv, StreamTypes
    <2>3. StreamSound(r)'
      <3>1. /\ state'[r] = "reading" /\ from'[r] = tail + 1 /\ next'[r] = tail + 1
            /\ got'[r] = <<>> /\ ~behind'[r] /\ Len(got'[r]) = 0
        BY <1>1, <2>1 DEF StreamIInv, StreamTypes, StreamSound, StreamPlaced, StreamOrdered, StreamRecent
      <3> QED
        BY <1>1, <2>1, <3>1 DEF StreamSound, StreamPlaced, StreamOrdered, StreamRecent
    <2>4. ASSUME NEW s \in Reader, s # r PROVE StreamSound(s)'
      BY <1>1, <2>1, <2>2, <2>4, StreamStays DEF StreamIInv, StreamTypes
    <2> QED
      BY <2>2, <2>3, <2>4 DEF StreamIInv
  <1>6. ASSUME NEW r \in Reader, Stream!End(r) \/ Stream!Leave(r) PROVE StreamIInv'
    <2>1. /\ UNCHANGED <<open, tail, from, next, got, behind>> /\ state[r] = "reading"
          /\ \/ state' = [state EXCEPT ![r] = "ended"] /\ ~open /\ next[r] > tail
             \/ state' = [state EXCEPT ![r] = "gone"]
      BY <1>6 DEF Stream!End, Stream!Leave, Stream!Over
    <2>2. StreamTypes'
      BY <1>1, <2>1 DEF StreamIInv, StreamTypes
    <2>3. StreamSound(r)'
      <3>1. next[r] \in Nat /\ StreamSound(r)
        BY <1>6 DEF StreamIInv, StreamTypes
      <3>2. state'[r] = "gone" \/ (state'[r] = "ended" /\ ~open /\ next[r] = tail + 1)
        BY <1>1, <2>1, <3>1 DEF StreamIInv, StreamTypes, StreamSound, StreamPlaced, StreamOrdered, StreamRecent
      <3> QED
        BY <2>1, <3>1, <3>2 DEF StreamSound, StreamPlaced, StreamOrdered, StreamRecent
    <2>4. ASSUME NEW s \in Reader, s # r PROVE StreamSound(s)'
      BY <1>1, <2>1, <2>2, <2>4, StreamStays DEF StreamIInv, StreamTypes
    <2> QED
      BY <2>2, <2>3, <2>4 DEF StreamIInv
  <1> QED
    BY <1>2, <1>3, <1>4, <1>5, <1>6, StreamReceives, StreamSkips DEF Stream!Next, Stream!Read

\* What a stream has read leaves out only what it lagged behind (EventStream).
LEMMA StreamPromise == StreamIInv => NothingLostWithinCapacity
  <1> SUFFICES ASSUME StreamIInv, NEW r \in Reader
               PROVE  /\ ~behind[r] => got[r] = [k \in 1 .. next[r] - from[r] |-> from[r] + k - 1]
                      /\ state[r] = "ended" =>
                            \A n \in from[r] .. tail : n > tail - Capacity =>
                                \E j \in DOMAIN got[r] : got[r][j] = n
                      /\ \A j, k \in DOMAIN got[r] :
                            got[r][j] >= from[r] /\ (j < k => got[r][j] < got[r][k])
    BY DEF NothingLostWithinCapacity, Stream!NothingLostWithinCapacity, Stream!NothingLost,
       Stream!SameOrderForAll
  <1>1. /\ from[r] \in Nat /\ next[r] \in Nat /\ tail \in Nat /\ got[r] \in Seq(Nat)
        /\ DOMAIN got[r] = 1 .. Len(got[r]) /\ StreamSound(r)
    BY DEF StreamIInv, StreamTypes
  <1>2. ~behind[r] => got[r] = [k \in 1 .. next[r] - from[r] |-> from[r] + k - 1]
    <2> SUFFICES ASSUME ~behind[r]
                 PROVE  got[r] = [k \in 1 .. next[r] - from[r] |-> from[r] + k - 1]
      OBVIOUS
    <2>1. /\ DOMAIN got[r] = 1 .. next[r] - from[r]
          /\ \A j \in 1 .. next[r] - from[r] : got[r][j] = from[r] + j - 1
      BY <1>1 DEF StreamSound, StreamOrdered
    <2>2. got[r] = [k \in DOMAIN got[r] |-> got[r][k]]
      BY <1>1, LenProperties
    <2> QED
      BY <2>1, <2>2
  <1>3. ASSUME state[r] = "ended", NEW n \in from[r] .. tail, n > tail - Capacity
        PROVE  \E j \in DOMAIN got[r] : got[r][j] = n
    BY <1>1, <1>3 DEF StreamSound, StreamPlaced, StreamOrdered, StreamRecent
  <1>4. \A j, k \in DOMAIN got[r] : got[r][j] >= from[r] /\ (j < k => got[r][j] < got[r][k])
    BY <1>1 DEF StreamSound, StreamPlaced, StreamOrdered, StreamRecent
  <1> QED
    BY <1>2, <1>3, <1>4

\* However far a stream lags and skips, it gives no answer twice or out of
\* order, all that were sent since it began unless it was behind, and in the
\* end the last ones that the channel could keep.
THEOREM StreamTheorem == Stream!Spec => []NothingLostWithinCapacity
  BY StreamInit, StreamStep, StreamPromise, PTL DEF Stream!Spec
-----------------------------------------------------------------------------
\* Whichever of the two a client is connected by, it gets what it promises.
THEOREM ClientsKeepPromises ==
    ClientsSpec => [](AnswersFollowRequests /\ NothingLostWithinCapacity)
  <1>1. ClientsInit => LoopIInv /\ StreamIInv
    BY LoopInit, StreamInit DEF ClientsInit
  <1>2. LoopIInv /\ StreamIInv /\ [ClientsNext]_clientsVars => LoopIInv' /\ StreamIInv'
    <2>1. [ClientsNext]_clientsVars => [Next]_vars /\ [Stream!Next]_(Stream!vars)
      BY DEF ClientsNext, ConnectionOnly, StreamOnly, clientsVars, StreamVars, Stream!vars,
         Stream!channel, Stream!streams
    <2> QED
      BY <2>1, LoopStep, StreamStep
  <1> QED
    BY <1>1, <1>2, LoopPromise, StreamPromise, PTL DEF ClientsSpec
=============================================================================
