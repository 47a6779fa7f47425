---------------------------- MODULE SessionProofs ----------------------------
(***************************************************************************)
(* Theorems about the two streams between a client and its sub-worker, for *)
(* buffers, messages and batches of any size.                              *)
(***************************************************************************)
EXTENDS Session, FiniteSetTheorems, SequenceTheorems, TLAPS

\* Where the batches begin that have not been received, and where the
\* acknowledgements are that have not.
Owed(s) == {i \in DOMAIN s : s[i].kind = "Index" /\ s[i].part = 1}
Answers(s) == {i \in DOMAIN s : s[i] = "Success"}

OneAtMost(S) == \A x, y \in S : x = y

\* A batch that has not been received is the last one sent.
Numbered(s, no) == \A i \in Owed(s) : s[i].no = no

StreamInv ==
    /\ up \in Seq(Part) /\ down \in Seq(DownKinds)
    /\ Numbered(up, sent)

\* There is one acknowledgement at most, owed, under way or arrived, and none
\* while the worker does not wait.
AckInv ==
    /\ worker \in {"fill", "await"}
    /\ dataSuccessfullyReceived \in BOOLEAN
    /\ OneAtMost(Owed(up)) /\ OneAtMost(Answers(down))
    /\ Owed(up) # {} => worker = "await" /\ Answers(down) = {} /\ ~dataSuccessfullyReceived
    /\ Answers(down) # {} => worker = "await" /\ Owed(up) = {} /\ ~dataSuccessfullyReceived
    /\ dataSuccessfullyReceived => worker = "await"

\* The beginning of batch b has been stored, or the batch is being inserted.
Answered(b) == \/ stored[b] > 0
               \/ inserting # <<>> /\ inserting[1].no = b

\* An acknowledgement is under way or has arrived only if the batch it answers,
\* the last one, has been received, at least its beginning.
CountInv ==
    /\ inserting \in Seq(Part)
    /\ inserting # <<>> => inserting[1].no \in 1..MaxBatches
    /\ sent \in 0..MaxBatches /\ acked \in Nat /\ stored \in [1..MaxBatches -> Nat]
    /\ sent = acked + (IF worker = "await" THEN 1 ELSE 0)
    /\ \A b \in 1..acked : Answered(b)
    /\ Answers(down) # {} \/ dataSuccessfullyReceived => Answered(sent)

SessionInv == StreamInv /\ AckInv /\ CountInv

\* The types of what the argument does not look at.
OtherTypes ==
    /\ main \in {"idle", "wait", "quit"}
    /\ reader \in {"recv", "exit"}
    /\ server \in {"serving", "closing", "left", "aborted"}
    /\ searchBuffer \in BOOLEAN
    /\ finishes \in 0..MaxFinishes /\ searches \in 0..MaxSearches

----------------------------------------------------------------------------
(* Streams                                                                 *)

LEMMA AppendMessage ==
    ASSUME NEW s \in Seq(Part), NEW kind \in UpKinds, NEW no \in Nat, NEW n \in Nat \ {0}
    PROVE  LET t == s \o Message(kind, no, n)
           IN  /\ t \in Seq(Part)
               /\ kind # "Index" => /\ Owed(t) = Owed(s)
                                    /\ \A m \in Nat : Numbered(s, m) => Numbered(t, m)
               /\ kind = "Index" => /\ Owed(t) = Owed(s) \cup {Len(s) + 1}
                                    /\ Owed(s) = {} => Numbered(t, no)
<1>. DEFINE m == Message(kind, no, n)
            t == s \o m
<1>1. /\ m \in Seq(Part) /\ Len(m) = n /\ DOMAIN m = 1..n
      /\ \A i \in 1..n : m[i] = [kind |-> kind, no |-> no, part |-> i, of |-> n]
  BY DEF Message, Part
<1>2. DOMAIN s = 1..Len(s) /\ Len(s) \in Nat /\ \A i \in 1..Len(s) : s[i] \in Part
  OBVIOUS
<1>. HIDE DEF m
<1>3. /\ t \in Seq(Part) /\ DOMAIN t = 1..(Len(s) + n)
      /\ \A i \in 1..Len(s) : t[i] = s[i]
      /\ \A i \in 1..n : t[Len(s) + i] = m[i]
  <2>1. /\ t \in Seq(Part) /\ Len(t) = Len(s) + n
        /\ \A i \in 1..(Len(s) + n) : t[i] = IF i <= Len(s) THEN s[i] ELSE m[i - Len(s)]
    BY <1>1, ConcatProperties
  <2>. HIDE DEF t
  <2>2. DOMAIN t = 1..(Len(s) + n)
    BY <2>1
  <2>3. \A i \in 1..Len(s) : t[i] = s[i]
    BY <1>2, <2>1
  <2>4. ASSUME NEW i \in 1..n PROVE t[Len(s) + i] = m[i]
    <3>. DEFINE j == Len(s) + i
    <3>1. j \in 1..(Len(s) + n) /\ ~(j <= Len(s)) /\ j - Len(s) = i
      BY <1>2
    <3>. HIDE DEF j
    <3>2. t[j] = m[i]
      BY <2>1, <3>1
    <3>. QED
      BY <3>2 DEF j
  <2>. QED
    BY <2>1, <2>2, <2>3, <2>4
<1>. HIDE DEF t
<1>4. \A i \in DOMAIN t : \/ i \in DOMAIN s /\ t[i] = s[i]
                          \/ i - Len(s) \in 1..n /\ t[i] = m[i - Len(s)]
  BY <1>2, <1>3
<1>5. ASSUME kind # "Index"
      PROVE  /\ Owed(t) = Owed(s)
             /\ \A k \in Nat : Numbered(s, k) => Numbered(t, k)
  <2>1. Owed(t) = Owed(s)
    BY <1>1, <1>2, <1>3, <1>4, <1>5 DEF Owed
  <2>2. \A i \in Owed(s) : t[i] = s[i]
    BY <1>2, <1>3 DEF Owed
  <2>. QED
    BY <2>1, <2>2 DEF Numbered
<1>6. ASSUME kind = "Index"
      PROVE  /\ Owed(t) = Owed(s) \cup {Len(s) + 1}
             /\ Owed(s) = {} => Numbered(t, no)
  <2>1. t[Len(s) + 1] = m[1] /\ Len(s) + 1 \in DOMAIN t
    BY <1>2, <1>3
  <2>2. ASSUME NEW i \in Owed(t) PROVE i \in Owed(s) \cup {Len(s) + 1}
    BY <1>1, <1>2, <1>3, <1>4, <2>2 DEF Owed
  <2>3. ASSUME NEW i \in Owed(s) PROVE i \in Owed(t)
    BY <1>2, <1>3, <2>3 DEF Owed
  <2>4. Len(s) + 1 \in Owed(t)
    BY <1>1, <1>6, <2>1 DEF Owed
  <2>5. t[Len(s) + 1].no = no
    BY <1>1, <2>1
  <2>. QED
    BY <2>2, <2>3, <2>4, <2>5 DEF Numbered
<1>. QED
  BY <1>3, <1>5, <1>6 DEF m, t

\* What is received is taken from the front.
LEMMA ConsumeParts ==
    ASSUME NEW s \in Seq(Part), NEW k \in 1..Len(s), NEW no, Numbered(s, no)
    PROVE  LET t == SubSeq(s, k + 1, Len(s))
           IN  /\ t \in Seq(Part)
               /\ Numbered(t, no)
               /\ Owed(s) = {} => Owed(t) = {}
               /\ OneAtMost(Owed(s)) => OneAtMost(Owed(t))
               /\ OneAtMost(Owed(s)) /\ 1 \in Owed(s) => Owed(t) = {}
<1>. DEFINE t == SubSeq(s, k + 1, Len(s))
<1>1. DOMAIN s = 1..Len(s) /\ Len(s) \in Nat /\ \A i \in 1..Len(s) : s[i] \in Part
  OBVIOUS
<1>2. /\ t \in Seq(Part) /\ DOMAIN t = 1..(Len(s) - k)
      /\ \A i \in 1..(Len(s) - k) : t[i] = s[k + i]
  BY <1>1
<1>. HIDE DEF t
<1>3. \A i \in DOMAIN t : k + i \in DOMAIN s /\ t[i] = s[k + i]
  BY <1>1, <1>2
<1>4. \A i \in Owed(t) : i \in Nat \ {0} /\ k + i \in Owed(s) /\ t[i] = s[k + i]
  BY <1>2, <1>3 DEF Owed
<1>5. Numbered(t, no)
  BY <1>4 DEF Numbered
<1>6. OneAtMost(Owed(s)) => OneAtMost(Owed(t))
  BY <1>4 DEF OneAtMost
<1>7. OneAtMost(Owed(s)) /\ 1 \in Owed(s) => Owed(t) = {}
  BY <1>4 DEF OneAtMost
<1>. QED
  BY <1>2, <1>4, <1>5, <1>6, <1>7 DEF t

LEMMA AppendAnswer ==
    ASSUME NEW s \in Seq(DownKinds), NEW a \in DownKinds
    PROVE  /\ Append(s, a) \in Seq(DownKinds)
           /\ a # "Success" => Answers(Append(s, a)) = Answers(s)
           /\ a = "Success" => Answers(Append(s, a)) = Answers(s) \cup {Len(s) + 1}
  BY DEF Answers

LEMMA ConsumeAnswers ==
    ASSUME NEW s \in Seq(DownKinds), NEW k \in 1..Len(s)
    PROVE  LET t == SubSeq(s, k + 1, Len(s))
           IN  /\ t \in Seq(DownKinds)
               /\ Answers(s) = {} => Answers(t) = {}
               /\ OneAtMost(Answers(s)) => OneAtMost(Answers(t))
               /\ OneAtMost(Answers(s)) /\ 1 \in Answers(s) => Answers(t) = {}
<1>. DEFINE t == SubSeq(s, k + 1, Len(s))
<1>1. /\ t \in Seq(DownKinds) /\ DOMAIN t = 1..(Len(s) - k)
      /\ \A i \in 1..(Len(s) - k) : t[i] = s[k + i]
  OBVIOUS
<1>. HIDE DEF t
<1>2. \A i \in Answers(t) : i \in Nat \ {0} /\ k + i \in Answers(s)
  BY <1>1 DEF Answers
<1>3. OneAtMost(Answers(s)) => OneAtMost(Answers(t))
  BY <1>2 DEF OneAtMost
<1>4. OneAtMost(Answers(s)) /\ 1 \in Answers(s) => Answers(t) = {}
  BY <1>2 DEF OneAtMost
<1>. QED
  BY <1>1, <1>2, <1>3, <1>4 DEF t

\* A reply may be followed by its rest: neither is an acknowledgement.
LEMMA AppendReply ==
    ASSUME NEW s \in Seq(DownKinds),
           NEW t \in {Append(s, "Success-Search"), s \o <<"Success-Search", "rest">>}
    PROVE  t \in Seq(DownKinds) /\ Answers(t) = Answers(s)
<1>1. CASE t = Append(s, "Success-Search")
  BY <1>1, AppendAnswer DEF DownKinds
<1>2. CASE t = s \o <<"Success-Search", "rest">>
  <2>1. t = Append(Append(s, "Success-Search"), "rest")
    BY <1>2
  <2>. QED
    BY <2>1, AppendAnswer DEF DownKinds
<1>. QED
  BY <1>1, <1>2

----------------------------------------------------------------------------
(* The inductive invariant                                                 *)

LEMMA SessionInvInit == Init => SessionInv
<1>. SUFFICES ASSUME Init PROVE SessionInv
  OBVIOUS
<1>1. Owed(up) = {} /\ Answers(down) = {}
  BY DEF Init, Owed, Answers
<1>2. StreamInv
  BY <1>1 DEF Init, StreamInv, Numbered, DownKinds
<1>3. AckInv
  BY <1>1 DEF Init, AckInv, OneAtMost
<1>4. CountInv
  BY <1>1, BoundsAssumption DEF Init, CountInv
<1>. QED
  BY <1>2, <1>3, <1>4 DEF SessionInv

\* A short message but a batch, on its way up, owes nothing.
LEMMA SendShortMessage ==
    ASSUME SessionInv, NEW kind \in UpKinds \ {"Index"},
           up' = up \o ShortMessage(kind),
           UNCHANGED <<worker, inserting, down, dataSuccessfullyReceived, sent, acked, stored>>
    PROVE  SessionInv'
<1>1. Short \in Nat \ {0} /\ sent \in Nat
  BY ShortAssumption, CapacityAssumption, BoundsAssumption DEF SessionInv, CountInv
<1>2. up' \in Seq(Part) /\ Owed(up') = Owed(up) /\ Numbered(up', sent)
  BY <1>1, AppendMessage DEF SessionInv, StreamInv, ShortMessage
<1>. QED
  BY <1>2 DEF SessionInv, StreamInv, AckInv, CountInv, Answered

\* Whatever is received and not answered by Success owes no more than before.
LEMMA LoseParts ==
    ASSUME SessionInv, NEW k \in 1..Len(up), Consume(k),
           \/ UNCHANGED down
           \/ down' \in {Append(down, "Success-Search"), down \o <<"Success-Search", "rest">>},
           UNCHANGED <<worker, inserting, dataSuccessfullyReceived, sent, acked, stored>>
    PROVE  SessionInv'
<1>1. /\ up' \in Seq(Part) /\ Numbered(up', sent)
      /\ Owed(up) = {} => Owed(up') = {}
      /\ OneAtMost(Owed(up'))
  BY ConsumeParts DEF SessionInv, StreamInv, AckInv, Consume
<1>2. down' \in Seq(DownKinds) /\ Answers(down') = Answers(down)
  BY AppendReply DEF SessionInv, StreamInv
<1>. QED
  BY <1>1, <1>2 DEF SessionInv, StreamInv, AckInv, CountInv, Answered

\* What is consumed at the client without a look at the flag.
LEMMA LoseAnswers ==
    ASSUME SessionInv, NEW k \in 1..Len(down), ConsumeDown(k),
           UNCHANGED <<worker, inserting, up, dataSuccessfullyReceived, sent, acked, stored>>
    PROVE  SessionInv'
<1>1. /\ down' \in Seq(DownKinds) /\ OneAtMost(Answers(down'))
      /\ Answers(down) = {} => Answers(down') = {}
  BY ConsumeAnswers DEF ConsumeDown, SessionInv, StreamInv, AckInv
<1>. QED
  BY <1>1 DEF SessionInv, StreamInv, AckInv, CountInv, Answered

\* The worker sends a batch: it waits, and the batch is the last one sent.
LEMMA SendBatchStep == SessionInv /\ SendBatch => SessionInv'
<1>. SUFFICES ASSUME SessionInv, SendBatch PROVE SessionInv'
  OBVIOUS
<1>1. PICK n \in BatchParts : Fits(n) /\ up' = up \o Message("Index", sent + 1, n)
  BY DEF SendBatch
<1>2. n \in Nat \ {0} /\ sent + 1 \in Nat /\ sent' = sent + 1
  BY <1>1, BatchPartsAssumption, BoundsAssumption DEF SessionInv, CountInv, SendBatch
<1>3. Owed(up) = {} /\ Answers(down) = {} /\ ~dataSuccessfullyReceived
  BY DEF SessionInv, AckInv, SendBatch
<1>4. /\ up' \in Seq(Part) /\ Numbered(up', sent')
      /\ Owed(up') = {Len(up) + 1}
  <2>1. up \in Seq(Part) /\ "Index" \in UpKinds
    BY DEF SessionInv, StreamInv, UpKinds
  <2>2. /\ up' \in Seq(Part) /\ Numbered(up', sent + 1)
        /\ Owed(up') = Owed(up) \cup {Len(up) + 1}
    BY <1>1, <1>2, <1>3, <2>1, AppendMessage
  <2>. QED
    BY <1>2, <1>3, <2>2
<1>5. StreamInv'
  BY <1>4 DEF SessionInv, StreamInv, SendBatch
<1>6. AckInv'
  BY <1>3, <1>4 DEF SessionInv, AckInv, SendBatch, serverVars, OneAtMost
<1>7. CountInv'
  BY <1>2, <1>3, BoundsAssumption DEF SessionInv, CountInv, Answered, SendBatch, serverVars
<1>. QED
  BY <1>5, <1>6, <1>7 DEF SessionInv

\* The worker takes the acknowledgement of the last batch.
LEMMA TakeAcknowledgementStep == SessionInv /\ TakeAcknowledgement => SessionInv'
<1>. SUFFICES ASSUME SessionInv, TakeAcknowledgement PROVE SessionInv'
  OBVIOUS
<1>1. Owed(up) = {} /\ Answers(down) = {} /\ sent = acked + 1 /\ Answered(acked + 1)
  BY DEF TakeAcknowledgement, SessionInv, AckInv, CountInv
<1>2. StreamInv'
  BY DEF TakeAcknowledgement, serverVars, SessionInv, StreamInv
<1>3. AckInv'
  BY <1>1 DEF TakeAcknowledgement, serverVars, SessionInv, AckInv
<1>4. \A b : Answered(b) <=> Answered(b)'
  BY DEF TakeAcknowledgement, serverVars, Answered
<1>5. \A b \in 1..acked' : Answered(b)'
  BY <1>1, <1>4 DEF TakeAcknowledgement, SessionInv, CountInv
<1>6. CountInv'
  BY <1>1, <1>5 DEF TakeAcknowledgement, serverVars, SessionInv, CountInv
<1>. QED
  BY <1>2, <1>3, <1>6 DEF SessionInv

\* The sub-worker answers a batch, the last one sent, and holds what it has
\* received of it.
LEMMA ReceiveIndexStep ==
    ASSUME SessionInv, NEW k \in 1..Len(up), ReceiveIndex(k), inserting = <<>>
    PROVE  SessionInv'
<1>. USE DEF serverUnchanged, clientVars
<1>1. /\ SubSeq(up, 1, k) \in Seq(Part) /\ Len(SubSeq(up, 1, k)) = k
      /\ SubSeq(up, 1, k)[1] = up[1]
  BY DEF SessionInv, StreamInv
<1>2. inserting' = SubSeq(up, 1, k) /\ up[1].kind = "Index" /\ up[1].part = 1
  BY <1>1 DEF ReceiveIndex, Chunk, BeginsWith
<1>3. 1 \in Owed(up) /\ up[1].no = sent
  BY <1>2 DEF Owed, Numbered, SessionInv, StreamInv
<1>4. up' \in Seq(Part) /\ Numbered(up', sent) /\ Owed(up') = {}
  BY <1>3, ConsumeParts DEF SessionInv, StreamInv, AckInv, ReceiveIndex, Consume
<1>5. down' \in Seq(DownKinds) /\ Answers(down') = Answers(down) \cup {Len(down) + 1}
  BY AppendAnswer DEF SessionInv, StreamInv, ReceiveIndex, DownKinds
<1>6. Answers(down) = {} /\ ~dataSuccessfullyReceived /\ worker = "await"
  BY <1>3 DEF SessionInv, AckInv
<1>7. StreamInv'
  BY <1>4, <1>5 DEF ReceiveIndex, StreamInv
<1>8. AckInv'
  BY <1>4, <1>5, <1>6 DEF ReceiveIndex, SessionInv, AckInv, OneAtMost
<1>9. inserting' \in Seq(Part) /\ inserting' # <<>> /\ inserting'[1].no = sent
  BY <1>1, <1>2, <1>3
<1>10. sent \in 1..MaxBatches
  BY <1>6, BoundsAssumption DEF SessionInv, CountInv
<1>11. Answered(sent)' /\ \A b \in 1..acked : Answered(b)'
  BY <1>9 DEF ReceiveIndex, SessionInv, CountInv, Answered
<1>12. CountInv'
  BY <1>9, <1>10, <1>11 DEF ReceiveIndex, SessionInv, CountInv
<1>. QED
  BY <1>7, <1>8, <1>12 DEF SessionInv

\* What is inserted is at least the first part of the batch.
LEMMA InsertBatchStep == SessionInv /\ InsertBatch => SessionInv'
<1>. SUFFICES ASSUME SessionInv, InsertBatch PROVE SessionInv'
  OBVIOUS
<1>. DEFINE no == inserting[1].no
            n == Len(inserting) - Len(Behind(inserting))
<1>1. no \in 1..MaxBatches /\ stored \in [1..MaxBatches -> Nat] /\ inserting # <<>>
  BY DEF SessionInv, CountInv, InsertBatch
<1>2. n \in Nat \ {0}
  <2>1. inserting \in Seq(Part) /\ Len(inserting) \in Nat \ {0} /\ inserting[1] \in Part
    BY <1>1 DEF SessionInv, CountInv
  <2>2. inserting[1].of \in Nat \ {0}
    BY <2>1 DEF Part
  <2>3. Len(Behind(inserting)) = IF inserting[1].of < Len(inserting)
                                 THEN Len(inserting) - inserting[1].of ELSE 0
    BY <2>1, <2>2 DEF Behind
  <2>. QED
    BY <2>1, <2>2, <2>3
<1>3. stored' = [stored EXCEPT ![no] = n] /\ inserting' = <<>>
  BY DEF InsertBatch
<1>. HIDE DEF n
<1>4. stored' \in [1..MaxBatches -> Nat]
  BY <1>1, <1>2, <1>3
<1>5. \A b \in 1..MaxBatches : Answered(b) => Answered(b)'
  BY <1>1, <1>2, <1>3 DEF Answered
<1>6. acked \in Nat /\ sent \in 0..MaxBatches /\ acked <= sent
  BY BoundsAssumption DEF SessionInv, CountInv
<1>7. Answers(down) # {} \/ dataSuccessfullyReceived => sent \in 1..MaxBatches
  BY <1>6 DEF SessionInv, AckInv, CountInv
<1>8. CountInv'
  BY <1>3, <1>4, <1>5, <1>6, <1>7, BoundsAssumption
  DEF InsertBatch, serverUnchanged, clientVars, SessionInv, CountInv
<1>9. StreamInv' /\ AckInv'
  BY DEF InsertBatch, serverUnchanged, clientVars, SessionInv, StreamInv, AckInv
<1>. QED
  BY <1>8, <1>9 DEF SessionInv

\* The reader sets the flag for an acknowledgement that is under way.
LEMMA ReceiveSuccessStep ==
    ASSUME SessionInv, NEW k \in 1..Len(down), ReceiveSuccess(k)
    PROVE  SessionInv'
<1>1. 1 \in Answers(down)
  <2>1. <<"Success">>[1] = "Success"
    OBVIOUS
  <2>2. SubSeq(down, 1, k)[1] = "Success"
    BY <2>1 DEF ReceiveSuccess
  <2>. QED
    BY <2>2 DEF Answers, SessionInv, StreamInv
<1>2. down' \in Seq(DownKinds) /\ Answers(down') = {}
  BY <1>1, ConsumeAnswers DEF ReceiveSuccess, ConsumeDown, SessionInv, StreamInv, AckInv
<1>. QED
  BY <1>1, <1>2
  DEF ReceiveSuccess, serverVars, countVars, SessionInv, StreamInv, AckInv, CountInv, Answered,
     OneAtMost

\* The reader acknowledges the end of the server and leaves.
LEMMA ReceiveServerShutDownStep ==
    ASSUME SessionInv, NEW k \in 1..Len(down), ReceiveServerShutDown(k)
    PROVE  SessionInv'
<1>1. /\ down' \in Seq(DownKinds) /\ OneAtMost(Answers(down'))
      /\ Answers(down) = {} => Answers(down') = {}
  BY ConsumeAnswers DEF ReceiveServerShutDown, ConsumeDown, SessionInv, StreamInv, AckInv
<1>2. Short \in Nat \ {0} /\ sent \in Nat
  BY ShortAssumption, CapacityAssumption, BoundsAssumption DEF SessionInv, CountInv
<1>3. up' \in Seq(Part) /\ Owed(up') = Owed(up) /\ Numbered(up', sent)
  <2>1. CASE up' = up
    BY <2>1 DEF SessionInv, StreamInv
  <2>2. CASE up' = up \o ShortMessage("Client-ShutDown-Successful")
    BY <1>2, <2>2, AppendMessage DEF ShortMessage, SessionInv, StreamInv, UpKinds
  <2>. QED
    BY <2>1, <2>2 DEF ReceiveServerShutDown
<1>. QED
  BY <1>1, <1>3
  DEF ReceiveServerShutDown, serverVars, countVars, SessionInv, StreamInv, AckInv, CountInv,
     Answered

LEMMA SessionInvStep == SessionInv /\ [Next]_vars => SessionInv'
<1>. SUFFICES ASSUME SessionInv, [Next]_vars PROVE SessionInv'
  OBVIOUS
<1>. USE DEF serverVars
<1>1. CASE SendBatch \/ TakeAcknowledgement
  BY <1>1, SendBatchStep, TakeAcknowledgementStep
<1>2. CASE SendFinished
  BY <1>2, SendShortMessage DEF SendFinished, clientVars, UpKinds
<1>3. CASE SendSearch
  BY <1>3, SendShortMessage DEF SendSearch, UpKinds
<1>4. CASE SendQuit
  BY <1>4, SendShortMessage DEF SendQuit, countVars, UpKinds
<1>5. CASE LeaveSearch
  BY <1>5 DEF LeaveSearch, countVars, SessionInv, StreamInv, AckInv, CountInv, Answered
<1>6. CASE SubWorkerStep
  <2>1. CASE InsertBatch
    BY <2>1, InsertBatchStep
  <2>2. ASSUME NEW k \in 1..Len(up), ReceiveIndex(k), inserting = <<>>
        PROVE  SessionInv'
    BY <2>2, ReceiveIndexStep
  <2>3. ASSUME NEW k \in 1..Len(up),
               \/ ReceiveQuit(k) \/ ReceiveSearch(k)
               \/ ReceiveShutDownSuccessful(k) \/ ReceiveOther(k)
        PROVE  SessionInv'
    BY <2>3, LoseParts
    DEF ReceiveQuit, ReceiveSearch, ReceiveShutDownSuccessful, ReceiveOther, serverUnchanged,
       clientVars
  <2>4. CASE Leave
    <3>. USE DEF Leave, serverUnchanged, clientVars
    <3>1. CASE UNCHANGED up
      BY <2>4, <3>1 DEF SessionInv, StreamInv, AckInv, CountInv, Answered
    <3>2. ASSUME NEW k \in 1..Len(up), Consume(k) PROVE SessionInv'
      BY <2>4, <3>2, LoseParts
    <3>. QED
      BY <2>4, <3>1, <3>2
  <2>. QED
    BY <1>6, <2>1, <2>2, <2>3, <2>4 DEF SubWorkerStep
<1>7. CASE ShutDown
  BY <1>7, AppendAnswer
  DEF ShutDown, clientVars, countVars, SessionInv, StreamInv, AckInv, CountInv, Answered, DownKinds
<1>8. CASE ReaderStep
  <2>1. ASSUME NEW k \in 1..Len(down), ReceiveReply(k) \/ ReceiveUnknown(k)
        PROVE  SessionInv'
    BY <2>1, LoseAnswers DEF ReceiveReply, ReceiveUnknown, clientVars, countVars
  <2>. QED
    BY <1>8, <2>1, ReceiveSuccessStep, ReceiveServerShutDownStep DEF ReaderStep
<1>9. CASE ConnectionFails
  BY <1>9 DEF ConnectionFails, countVars, SessionInv, StreamInv, AckInv, CountInv, Answered
<1>10. CASE UNCHANGED vars
  BY <1>10 DEF vars, clientVars, countVars, SessionInv, StreamInv, AckInv, CountInv, Answered
<1>. QED
  BY <1>1, <1>2, <1>3, <1>4, <1>5, <1>6, <1>7, <1>8, <1>9, <1>10 DEF Next

----------------------------------------------------------------------------
(* The theorems                                                            *)

\* Where the one acknowledgement is, and how many batches were answered, in
\* every reachable state.
THEOREM SessionInvariant == Spec => []SessionInv
<1>1. SessionInv /\ [Next]_vars => SessionInv'
  BY SessionInvStep
<1>. QED
  BY <1>1, SessionInvInit, PTL DEF Spec

LEMMA OtherTypesInit == Init => OtherTypes
<1>. SUFFICES ASSUME Init PROVE OtherTypes
  OBVIOUS
<1>1. 0 \in 0..MaxFinishes /\ 0 \in 0..MaxSearches
  BY BoundsAssumption
<1>. QED
  BY <1>1 DEF Init, OtherTypes

LEMMA OtherTypesStep == OtherTypes /\ [Next]_vars => OtherTypes'
<1>. SUFFICES ASSUME OtherTypes, [Next]_vars PROVE OtherTypes'
  OBVIOUS
<1>. USE DEF OtherTypes, clientVars, serverVars, countVars, serverUnchanged
<1>1. CASE SendBatch \/ TakeAcknowledgement \/ SendQuit \/ LeaveSearch
  BY <1>1 DEF SendBatch, TakeAcknowledgement, SendQuit, LeaveSearch
<1>2. CASE SendFinished
  BY <1>2, BoundsAssumption DEF SendFinished
<1>3. CASE SendSearch
  BY <1>3, BoundsAssumption DEF SendSearch
<1>4. CASE SubWorkerStep
  <2>1. CASE InsertBatch \/ Leave
    BY <2>1 DEF InsertBatch, Leave
  <2>2. ASSUME NEW k \in 1..Len(up), server \in {"serving"},
               \/ ReceiveQuit(k) \/ ReceiveIndex(k) \/ ReceiveSearch(k)
               \/ ReceiveShutDownSuccessful(k) \/ ReceiveOther(k)
        PROVE  OtherTypes'
    BY <2>2
    DEF ReceiveQuit, ReceiveIndex, ReceiveSearch, ReceiveShutDownSuccessful, ReceiveOther
  <2>. QED
    BY <1>4, <2>1, <2>2 DEF SubWorkerStep
<1>5. CASE ShutDown \/ ConnectionFails
  BY <1>5 DEF ShutDown, ConnectionFails
<1>6. CASE ReaderStep
  <2>1. ASSUME NEW k \in 1..Len(down),
               ReceiveSuccess(k) \/ ReceiveReply(k) \/ ReceiveServerShutDown(k) \/ ReceiveUnknown(k)
        PROVE  OtherTypes'
    BY <2>1 DEF ReceiveSuccess, ReceiveReply, ReceiveServerShutDown, ReceiveUnknown
  <2>. QED
    BY <1>6, <2>1 DEF ReaderStep
<1>7. CASE UNCHANGED vars
  BY <1>7 DEF vars
<1>. QED
  BY <1>1, <1>2, <1>3, <1>4, <1>5, <1>6, <1>7 DEF Next

\* The types of the state; that no more batches are acknowledged than were sent
\* is part of them, and follows from SessionInv.
THEOREM SessionTypeCorrect == Spec => []TypeOK
<1>1. OtherTypes /\ [Next]_vars => OtherTypes'
  BY OtherTypesStep
<1>2. SessionInv /\ OtherTypes => TypeOK
  <2>. SUFFICES ASSUME SessionInv, OtherTypes PROVE TypeOK
    OBVIOUS
  <2>1. sent \in 0..MaxBatches /\ acked \in 0..sent
    BY BoundsAssumption DEF SessionInv, AckInv, CountInv
  <2>. QED
    BY <2>1 DEF SessionInv, StreamInv, AckInv, CountInv, OtherTypes, TypeOK
<1>. QED
  BY <1>1, <1>2, OtherTypesInit, SessionInvariant, PTL DEF Spec

LEMMA CardinalityOfOneAtMost ==
    ASSUME NEW S, OneAtMost(S)
    PROVE  Cardinality(S) = IF S = {} THEN 0 ELSE 1
<1>1. CASE S = {}
  BY <1>1, FS_EmptySet
<1>2. ASSUME NEW x \in S PROVE Cardinality(S) = 1
  <2>1. S = {x}
    BY <1>2 DEF OneAtMost
  <2>. QED
    BY <2>1, FS_Singleton
<1>. QED
  BY <1>1, <1>2

\* One acknowledgement at most is owed, under way or not yet taken, and none
\* while the worker does not wait: the flag it spins on never lets it pass for
\* an earlier batch, whatever the command thread sends and however the streams
\* are cut.
THEOREM OneAcknowledgement == Spec => []AcknowledgedInStep
<1>1. SessionInv => AcknowledgedInStep
  <2>. SUFFICES ASSUME SessionInv PROVE AcknowledgedInStep
    OBVIOUS
  <2>1. Outstanding = Cardinality(Owed(up)) + Cardinality(Answers(down))
                      + (IF dataSuccessfullyReceived THEN 1 ELSE 0)
    BY DEF Outstanding, Owed, Answers
  <2>2. /\ Cardinality(Owed(up)) = IF Owed(up) = {} THEN 0 ELSE 1
        /\ Cardinality(Answers(down)) = IF Answers(down) = {} THEN 0 ELSE 1
    BY CardinalityOfOneAtMost DEF SessionInv, AckInv
  <2>3. CASE worker = "await"
    BY <2>1, <2>2, <2>3 DEF SessionInv, AckInv, AcknowledgedInStep
  <2>4. CASE worker # "await"
    BY <2>1, <2>2, <2>4 DEF SessionInv, AckInv, AcknowledgedInStep
  <2>. QED
    BY <2>3, <2>4
<1>. QED
  BY <1>1, SessionInvariant, PTL

\* Of what was acknowledged the beginning has been stored, but for the batch
\* being inserted, however recv cuts: an acknowledgement is sent for a chunk that
\* begins with a batch, and the batch under way is always the last one sent.
THEOREM AcknowledgedStored == Spec => []AcknowledgedIsStored
<1>1. SessionInv => AcknowledgedIsStored
  BY DEF SessionInv, CountInv, Answered, AcknowledgedIsStored
<1>. QED
  BY <1>1, SessionInvariant, PTL

=============================================================================
