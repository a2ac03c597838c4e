----------------------- MODULE GoogleSynthesizerProofs -----------------------
(***************************************************************************)
(* GoogleSynthesizer, for every number of pieces and of failing streams:   *)
(* the text of a response is neither lost nor repeated nor put in another  *)
(* order on its way to the streams.  What was sent and what is gathered    *)
(* make up one sequence, which a successful send does not change, a token  *)
(* extends, and only a failed flush shortens.  What is heard is put out    *)
(* in the order it was sent, and all of it when nothing failed.            *)
(***************************************************************************)
EXTENDS GoogleSynthesizer, SequenceTheorems, FunctionTheorems, FiniteSetTheorems, TLAPS

USE DEF tokenVars, grpVars, streamVars, textVars

\* The parts of the type invariant that the text depends on.
TextTypes ==
  /\ consumed \in Nat /\ failures \in Nat
  /\ sent \in Seq(Nat) /\ text \in Seq(Nat)
  /\ dropped \subseteq 1 .. consumed

\* The stream that sendLoop writes to is open, unless it broke.
WritesToOpen == snd # "done" => stream = "open" \/ failures > 0

TextInv ==
  /\ TextTypes /\ WritesToOpen /\ TextKept

(***************************************************************************)
(* Sequences                                                               *)
(***************************************************************************)
\* Concatenation is associative.
LEMMA Associative ==
  ASSUME NEW a \in Seq(Nat), NEW x \in Seq(Nat), NEW y \in Seq(Nat)
  PROVE  (a \o x) \o y = a \o (x \o y)
OBVIOUS

\* Sending a beginning of what is gathered leaves the whole as it was.
LEMMA SplitOff ==
  ASSUME NEW a \in Seq(Nat), NEW s \in Seq(Nat), NEW n \in 1 .. Len(s)
  PROVE  /\ SubSeq(s, 1, n) \in Seq(Nat) /\ SubSeq(s, n + 1, Len(s)) \in Seq(Nat)
         /\ (a \o SubSeq(s, 1, n)) \o SubSeq(s, n + 1, Len(s)) = a \o s
<1> DEFINE x == SubSeq(s, 1, n)
           y == SubSeq(s, n + 1, Len(s))
<1>1. x \in Seq(Nat) /\ y \in Seq(Nat) BY SubSeqProperties
<1>2. x \o y = SubSeq(s, 1, Len(s)) BY ConcatAdjacentSubSeq
<1>3. SubSeq(s, 1, Len(s)) = s BY SubSeqFull
<1>4. x \o y = s BY <1>2, <1>3
<1>5. (a \o x) \o y = a \o s
  <2> HIDE DEF x, y
  <2>1. (a \o x) \o y = a \o (x \o y) BY <1>1, Associative
  <2> QED BY <2>1, <1>4
<1> QED BY <1>1, <1>5

\* The pieces of a concatenation.
LEMMA PiecesOfConcat ==
  ASSUME NEW s \in Seq(Nat), NEW t \in Seq(Nat)
  PROVE  Pieces(s \o t) = Pieces(s) \cup Pieces(t)
<1>1. /\ Len(s \o t) = Len(s) + Len(t)
      /\ \A i \in 1 .. Len(s) + Len(t) :
           (s \o t)[i] = IF i <= Len(s) THEN s[i] ELSE t[i - Len(s)]
  BY ConcatProperties
<1>2. \A i \in 1 .. Len(s) : i \in 1 .. Len(s \o t) /\ (s \o t)[i] = s[i] BY <1>1
<1>3. \A i \in 1 .. Len(t) :
        Len(s) + i \in 1 .. Len(s \o t) /\ (s \o t)[Len(s) + i] = t[i]
  BY <1>1
<1>4. \A i \in 1 .. Len(s \o t) :
        \/ i \in 1 .. Len(s) /\ (s \o t)[i] = s[i]
        \/ i - Len(s) \in 1 .. Len(t) /\ (s \o t)[i] = t[i - Len(s)]
  BY <1>1
<1>5. Pieces(s) \subseteq Pieces(s \o t) BY <1>2 DEF Pieces
<1>6. Pieces(t) \subseteq Pieces(s \o t) BY <1>3 DEF Pieces
<1>7. Pieces(s \o t) \subseteq Pieces(s) \cup Pieces(t) BY <1>4 DEF Pieces
<1> QED BY <1>5, <1>6, <1>7

\* A token extends an ascending text of pieces up to consumed.
LEMMA TokenExtends ==
  ASSUME NEW n \in Nat, NEW w \in Seq(Nat), consumed \in Nat, consumed < n, Ascending(w),
         Pieces(w) \subseteq 1 .. consumed
  PROVE  /\ Token(n) \in Seq(Nat)
         /\ Ascending(w \o Token(n))
         /\ Pieces(w \o Token(n)) = Pieces(w) \cup (consumed + 1 .. n)
<1> DEFINE t == Token(n)
<1>1. t \in Seq(Nat) /\ Len(t) = n - consumed /\ \A i \in 1 .. n - consumed : t[i] = consumed + i
  BY DEF Token
<1>2. /\ Len(w \o t) = Len(w) + Len(t)
      /\ \A i \in 1 .. Len(w) + Len(t) :
           (w \o t)[i] = IF i <= Len(w) THEN w[i] ELSE t[i - Len(w)]
  BY <1>1, ConcatProperties
<1>3. \A i \in 1 .. Len(w) : w[i] \in 1 .. consumed BY DEF Pieces
<1>4. Ascending(w \o t)
  <2> SUFFICES ASSUME NEW i \in 1 .. Len(w \o t), NEW j \in 1 .. Len(w \o t), i < j
               PROVE  (w \o t)[i] < (w \o t)[j]
    BY DEF Ascending
  <2>1. CASE j <= Len(w)
    <3>1. i \in 1 .. Len(w) /\ j \in 1 .. Len(w) BY <2>1, <1>2
    <3>2. (w \o t)[i] = w[i] /\ (w \o t)[j] = w[j] BY <2>1, <3>1, <1>2
    <3> QED BY <3>1, <3>2 DEF Ascending
  <2>2. CASE i <= Len(w) /\ j > Len(w)
    <3>1. (w \o t)[i] = w[i] /\ w[i] \in 1 .. consumed BY <2>2, <1>2, <1>3
    <3>2. j - Len(w) \in 1 .. n - consumed /\ (w \o t)[j] = consumed + (j - Len(w))
      BY <2>2, <1>1, <1>2
    <3> QED BY <3>1, <3>2
  <2>3. CASE i > Len(w)
    <3>1. /\ i - Len(w) \in 1 .. n - consumed /\ j - Len(w) \in 1 .. n - consumed
          /\ j > Len(w)
      BY <2>3, <1>1, <1>2
    <3>2. /\ (w \o t)[i] = consumed + (i - Len(w)) /\ (w \o t)[j] = consumed + (j - Len(w))
      BY <2>3, <3>1, <1>1, <1>2
    <3> QED BY <3>2
  <2> QED BY <2>1, <2>2, <2>3
<1>5. Pieces(t) = consumed + 1 .. n
  <2>1. \A k \in consumed + 1 .. n : k - consumed \in 1 .. Len(t) /\ t[k - consumed] = k
    BY <1>1
  <2>2. \A i \in 1 .. Len(t) : t[i] \in consumed + 1 .. n BY <1>1
  <2> QED BY <2>1, <2>2 DEF Pieces
<1> QED BY <1>1, <1>4, <1>5, PiecesOfConcat

\* No piece of an ascending concatenation is in both parts, and its first part ascends.
LEMMA AscendingParts ==
  ASSUME NEW s \in Seq(Nat), NEW t \in Seq(Nat), Ascending(s \o t)
  PROVE  Ascending(s) /\ Pieces(s) \cap Pieces(t) = {}
<1>1. /\ Len(s \o t) = Len(s) + Len(t)
      /\ \A i \in 1 .. Len(s) + Len(t) :
           (s \o t)[i] = IF i <= Len(s) THEN s[i] ELSE t[i - Len(s)]
  BY ConcatProperties
<1>2. Ascending(s)
  <2>1. \A i \in 1 .. Len(s) : i \in 1 .. Len(s \o t) /\ (s \o t)[i] = s[i] BY <1>1
  <2> QED BY <2>1 DEF Ascending
<1>3. \A i \in 1 .. Len(s), j \in 1 .. Len(t) : s[i] < t[j]
  <2> TAKE i \in 1 .. Len(s), j \in 1 .. Len(t)
  <2>1. (s \o t)[i] = s[i] /\ (s \o t)[Len(s) + j] = t[j] BY <1>1
  <2>2. i \in 1 .. Len(s \o t) /\ Len(s) + j \in 1 .. Len(s \o t) /\ i < Len(s) + j BY <1>1
  <2> QED BY <2>1, <2>2 DEF Ascending
<1>4. \A i \in 1 .. Len(s), j \in 1 .. Len(t) : s[i] # t[j]
  <2> TAKE i \in 1 .. Len(s), j \in 1 .. Len(t)
  <2>1. s[i] \in Nat /\ t[j] \in Nat BY ElementOfSeq
  <2> QED BY <1>3, <2>1
<1> QED BY <1>2, <1>4 DEF Pieces

(***************************************************************************)
(* The steps                                                               *)
(***************************************************************************)
\* Nothing has been read.
LEMMA InitText == Init => TextInv
BY DEF Init, TextInv, TextTypes, WritesToOpen, TextKept, Ascending, Pieces

\* What sendLoop does with what is gathered, s, leaves sent \o s as it was, unless a flush
\* over a stream that is not open gives s up.
LEMMA SendKeepsWhole ==
  ASSUME sent \in Seq(Nat), NEW s \in Seq(Nat), TrySendSentence(s)
  PROVE  /\ sent' \in Seq(Nat) /\ text' \in Seq(Nat) /\ sent' \o text' = sent \o s
         /\ dropped' = dropped
         /\ stream' = stream \/ snd' = "done"
<1>1. CASE sent' = sent /\ text' = s
  BY <1>1 DEF TrySendSentence, SendGoesOn, SendEnds
<1>2. ASSUME NEW n \in 1 .. Len(s), Accepted(SubSeq(s, 1, n)), text' = AfterSentence(s, n)
      PROVE  sent' \in Seq(Nat) /\ text' \in Seq(Nat) /\ sent' \o text' = sent \o s
  <2>1. sent' = sent \o SubSeq(s, 1, n) /\ text' = SubSeq(s, n + 1, Len(s))
    BY <1>2 DEF Accepted, AfterSentence
  <2>2. sent' \in Seq(Nat) BY <2>1, SplitOff, ConcatProperties
  <2> QED BY <2>1, <2>2, SplitOff
<1>3. \/ sent' = sent /\ text' = s
      \/ \E n \in 1 .. Len(s) : Accepted(SubSeq(s, 1, n)) /\ text' = AfterSentence(s, n)
  BY DEF TrySendSentence, Rejected
<1>4. dropped' = dropped /\ (stream' = stream \/ snd' = "done")
  BY DEF TrySendSentence, SendGoesOn, SendEnds
<1> QED BY <1>1, <1>2, <1>3, <1>4

\* A step that leaves what is sent and gathered, and what was read, as they are.
LEMMA SameWhole ==
  ASSUME TextInv, sent' \o text' = sent \o text,
         dropped' = dropped, consumed' = consumed,
         failures' = failures \/ failures' = failures + 1,
         ctxDone => ctxDone'
  PROVE  TextKept'
<1>1. Ascending(sent \o text)' BY DEF TextInv, TextKept, Ascending
<1>2. Pieces(sent \o text)' = (1 .. consumed') \ dropped'
  BY DEF TextInv, TextKept, Pieces
<1>3. failures > 0 => failures' > 0 BY DEF TextInv, TextTypes
<1>4. dropped' # {} => failures' > 0 \/ ctxDone' BY <1>3 DEF TextInv, TextKept
<1> QED BY <1>1, <1>2, <1>4 DEF TextKept

\* A step that reads the token up to n, whatever part of it is sent.
LEMMA TokenKept ==
  ASSUME TextInv, NEW n \in Nat, consumed < n, consumed' = n,
         sent' \o text' = sent \o (text \o Token(n)),
         dropped' = dropped, failures' = failures, ctxDone' = ctxDone
  PROVE  TextKept' /\ dropped' \subseteq 1 .. consumed'
<1> DEFINE w == sent \o text
<1>1. w \in Seq(Nat) /\ consumed \in Nat /\ dropped \subseteq 1 .. consumed
  BY ConcatProperties DEF TextInv, TextTypes
<1>2. Ascending(w) /\ Pieces(w) = (1 .. consumed) \ dropped BY DEF TextInv, TextKept
<1>3. /\ Token(n) \in Seq(Nat) /\ Ascending(w \o Token(n))
      /\ Pieces(w \o Token(n)) = Pieces(w) \cup (consumed + 1 .. n)
  <2> HIDE DEF w
  <2> QED BY <1>1, <1>2, TokenExtends
<1>4. sent' \o text' = w \o Token(n)
  BY <1>3, Associative DEF TextInv, TextTypes
<1>5. Ascending(sent \o text)' BY <1>3, <1>4 DEF Ascending
<1>6. Pieces(sent \o text)' = Pieces(w) \cup (consumed + 1 .. n) BY <1>3, <1>4 DEF Pieces
<1>7. ((1 .. consumed) \ dropped) \cup (consumed + 1 .. n) = (1 .. n) \ dropped
  <2>1. 1 .. n = (1 .. consumed) \cup (consumed + 1 .. n) BY <1>1
  <2>2. dropped \cap (consumed + 1 .. n) = {} BY <1>1
  <2> QED BY <2>1, <2>2
<1>8. Pieces(sent \o text)' = (1 .. consumed') \ dropped' BY <1>2, <1>6, <1>7
<1>9. dropped' # {} => failures' > 0 \/ ctxDone' BY DEF TextInv, TextKept
<1>10. dropped' \subseteq 1 .. consumed' BY <1>1
<1> QED BY <1>5, <1>8, <1>9, <1>10 DEF TextKept

\* A flush sends all that is gathered, or gives it up on a stream that is not open.
LEMMA FlushKept ==
  ASSUME TextInv, FlushText, snd # "done", consumed' = consumed, failures' = failures,
         ctxDone' = ctxDone
  PROVE  TextKept' /\ dropped' \subseteq 1 .. consumed' /\ sent' \in Seq(Nat) /\ text' \in Seq(Nat)
<1>1. text' = <<>> /\ sent \in Seq(Nat) /\ text \in Seq(Nat)
  BY DEF FlushText, TextInv, TextTypes
<1>2. CASE Accepted(text) /\ UNCHANGED dropped
  <2>1. sent' = sent \o text BY <1>2 DEF Accepted
  <2>2. sent' \in Seq(Nat) BY <1>1, <2>1, ConcatProperties
  <2>3. sent' \o text' = sent'  BY <1>1, <2>2, ConcatEmptySeq
  <2>4. sent' \o text' = sent \o text BY <2>1, <2>3
  <2>5. TextKept' BY <1>2, <2>4, SameWhole
  <2> QED BY <1>1, <1>2, <2>2, <2>5 DEF TextInv, TextTypes
<1>3. CASE Rejected /\ text # <<>> /\ dropped' = dropped \cup Pieces(text)
  <2>1. sent' = sent /\ (stream # "open" \/ ctxDone) BY <1>3 DEF Rejected
  <2>2. sent' \o text' = sent BY <1>1, <2>1, ConcatEmptySeq
  <2>3. Ascending(sent \o text) /\ Pieces(sent \o text) = (1 .. consumed) \ dropped
    BY DEF TextInv, TextKept
  <2>4. Ascending(sent) /\ Pieces(sent) \cap Pieces(text) = {} BY <1>1, <2>3, AscendingParts
  <2>5. Pieces(sent) \cup Pieces(text) = (1 .. consumed) \ dropped
    BY <1>1, <2>3, PiecesOfConcat
  <2>6. Pieces(sent) = (1 .. consumed) \ (dropped \cup Pieces(text)) BY <2>4, <2>5
  <2>7. Ascending(sent \o text)' BY <2>2, <2>4 DEF Ascending
  <2>8. Pieces(sent \o text)' = (1 .. consumed') \ dropped'
    BY <1>3, <2>2, <2>6 DEF Pieces
  <2>9. failures' > 0 \/ ctxDone' BY <2>1 DEF TextInv, WritesToOpen
  <2>10. dropped' \subseteq 1 .. consumed' BY <1>3, <2>5 DEF TextInv, TextTypes
  <2> QED BY <1>1, <2>1, <2>7, <2>8, <2>9, <2>10 DEF TextKept
<1> QED BY <1>2, <1>3 DEF FlushText

\* The stream of a sendLoop that goes on.
LEMMA StaysOpen ==
  ASSUME WritesToOpen, snd # "done", failures' = failures, stream' = stream \/ snd' = "done"
  PROVE  WritesToOpen'
BY DEF WritesToOpen

\* What streamLoop does.
LEMMA StreamLoopKeeps == TextInv /\ StreamLoop => TextInv'
<1> SUFFICES ASSUME TextInv, StreamLoop PROVE TextInv'
  OBVIOUS
<1> USE DEF TextInv
<1>1. CASE NewClient \/ OpenFails
  <2>1. /\ UNCHANGED <<sent, text, dropped, consumed, ctxDone, snd, stream>>
        /\ failures' = failures \/ failures' = failures + 1
    BY <1>1 DEF NewClient, OpenFails, Fails
  <2>2. TextKept' BY <2>1, SameWhole
  <2>3. WritesToOpen' BY <2>1 DEF WritesToOpen, TextTypes
  <2> QED BY <2>1, <2>2, <2>3 DEF TextTypes
<1>2. CASE NextToken /\ text' = text /\ consumed' = consumed
  <2>1. UNCHANGED <<sent, text, dropped, consumed, ctxDone, snd, stream, failures>>
    BY <1>2 DEF NextToken
  <2>2. TextKept' BY <2>1, SameWhole
  <2> QED BY <2>1, <2>2 DEF TextTypes, WritesToOpen
<1>3. ASSUME NEW n \in 1 .. MaxPieces, NextToken, text = <<>>, ReadToken(n), text' = Token(n)
      PROVE  TextInv'
  <2>1. UNCHANGED <<sent, dropped, ctxDone, snd, stream, failures>> BY <1>3 DEF NextToken
  <2>2. n \in Nat /\ consumed' = n /\ consumed < n BY <1>3 DEF ReadToken, TextTypes
  <2>3. Token(n) \in Seq(Nat) BY <2>2 DEF Token, TextTypes
  <2>4. <<>> \o Token(n) = Token(n) BY <2>3, ConcatEmptySeq
  <2>5. sent' \o text' = sent \o (text \o Token(n)) BY <1>3, <2>1, <2>4
  <2>6. TextKept' /\ dropped' \subseteq 1 .. consumed' BY <2>1, <2>2, <2>5, TokenKept
  <2> QED BY <1>3, <2>1, <2>2, <2>3, <2>6 DEF TextTypes, WritesToOpen
<1>4. CASE OpenStream
  <2>1. UNCHANGED <<sent, text, dropped, consumed, ctxDone, failures>> /\ stream' = "open"
    BY <1>4 DEF OpenStream
  <2>2. TextKept' BY <2>1, SameWhole
  <2> QED BY <2>1, <2>2 DEF TextTypes, WritesToOpen
<1>5. CASE GroupDone
  <2>1. UNCHANGED <<sent, text, dropped, consumed, ctxDone, snd, stream, failures>>
    BY <1>5 DEF GroupDone, Remaining
  <2>2. TextKept' BY <2>1, SameWhole
  <2> QED BY <2>1, <2>2 DEF TextTypes, WritesToOpen
<1>6. NextToken => \/ text' = text /\ consumed' = consumed
                   \/ \E n \in 1 .. MaxPieces : text = <<>> /\ ReadToken(n) /\ text' = Token(n)
  BY DEF NextToken
<1> QED BY <1>1, <1>2, <1>3, <1>4, <1>5, <1>6 DEF StreamLoop

\* What sendLoop does.
LEMMA SendLoopKeeps == TextInv /\ SendLoop => TextInv'
<1> SUFFICES ASSUME TextInv, SendLoop PROVE TextInv'
  OBVIOUS
<1> USE DEF TextInv
<1>1. CASE SendFirst
  <2>1. snd # "done" /\ TrySendSentence(text) /\ UNCHANGED <<consumed, ctxDone, failures>>
    BY <1>1 DEF SendFirst
  <2>2. /\ sent' \in Seq(Nat) /\ text' \in Seq(Nat) /\ sent' \o text' = sent \o text
        /\ dropped' = dropped /\ (stream' = stream \/ snd' = "done")
    BY <2>1, SendKeepsWhole DEF TextTypes
  <2>3. TextKept' BY <2>1, <2>2, SameWhole
  <2>4. WritesToOpen' BY <2>1, <2>2, StaysOpen
  <2> QED BY <2>1, <2>2, <2>3, <2>4 DEF TextTypes
<1>2. CASE SendToken
  <2>1. PICK n \in 1 .. MaxPieces : ReadToken(n) /\ TrySendSentence(text \o Token(n))
    BY <1>2 DEF SendToken
  <2>2. snd # "done" /\ UNCHANGED <<ctxDone, failures>> BY <1>2 DEF SendToken
  <2>3. n \in Nat /\ consumed' = n /\ consumed < n BY <2>1 DEF ReadToken, TextTypes
  <2>4. text \o Token(n) \in Seq(Nat)
    <3>1. Token(n) \in Seq(Nat) BY <2>3 DEF Token, TextTypes
    <3> QED BY <3>1, ConcatProperties DEF TextTypes
  <2>5. /\ sent' \in Seq(Nat) /\ text' \in Seq(Nat)
        /\ sent' \o text' = sent \o (text \o Token(n))
        /\ dropped' = dropped /\ (stream' = stream \/ snd' = "done")
    BY <2>1, <2>4, SendKeepsWhole DEF TextTypes
  <2>6. TextKept' /\ dropped' \subseteq 1 .. consumed' BY <2>2, <2>3, <2>5, TokenKept
  <2>7. WritesToOpen' BY <2>2, <2>5, StaysOpen
  <2> QED BY <2>2, <2>3, <2>5, <2>6, <2>7 DEF TextTypes
<1>3. CASE FlushTimer \/ TokensClosed
  <2>1. snd # "done" /\ FlushText /\ UNCHANGED <<consumed, ctxDone, failures>>
    BY <1>3 DEF FlushTimer, TokensClosed
  <2>2. stream' = stream \/ snd' = "done"
    BY <1>3 DEF FlushTimer, TokensClosed, SendGoesOn, SendEnds
  <2>3. /\ TextKept' /\ dropped' \subseteq 1 .. consumed'
        /\ sent' \in Seq(Nat) /\ text' \in Seq(Nat)
    BY <2>1, FlushKept
  <2>4. WritesToOpen' BY <2>1, <2>2, StaysOpen
  <2> QED BY <2>1, <2>3, <2>4 DEF TextTypes
<1>4. CASE SendCtxDone
  <2>1. UNCHANGED <<sent, text, dropped, consumed, ctxDone, failures>> /\ snd' = "done"
    BY <1>4 DEF SendCtxDone, SendEnds
  <2>2. TextKept' BY <2>1, SameWhole
  <2> QED BY <2>1, <2>2 DEF TextTypes, WritesToOpen
<1> QED BY <1>1, <1>2, <1>3, <1>4 DEF SendLoop

\* What everything else does: recvLoop, the brain, the responder and the service.
LEMMA OthersKeep ==
  TextInv /\ (RecvLoop \/ EndTokens \/ CancelResponse \/ StreamBreaks \/ UNCHANGED vars)
    => TextInv'
<1> SUFFICES ASSUME TextInv,
                    RecvLoop \/ EndTokens \/ CancelResponse \/ StreamBreaks \/ UNCHANGED vars
             PROVE  TextInv'
  OBVIOUS
<1> USE DEF TextInv
<1>1. CASE RecvLoop \/ EndTokens \/ CancelResponse \/ UNCHANGED vars
  <2>1. /\ UNCHANGED <<sent, text, dropped, consumed, failures, snd, stream>>
        /\ ctxDone => ctxDone'
    BY <1>1 DEF RecvLoop, RecvCheck, RecvFrame, RecvEnds, SendFrame, EndTokens,
                CancelResponse, vars
  <2>2. TextKept' BY <2>1, SameWhole
  <2> QED BY <2>1, <2>2 DEF TextTypes, WritesToOpen
<1>2. CASE StreamBreaks
  <2>1. UNCHANGED <<sent, text, dropped, consumed, ctxDone, snd>> /\ failures' = failures + 1
    BY <1>2 DEF StreamBreaks, Fails
  <2>2. TextKept' BY <2>1, SameWhole
  <2>3. failures' > 0 /\ failures' \in Nat BY <2>1 DEF TextTypes
  <2> QED BY <2>1, <2>2, <2>3 DEF TextTypes, WritesToOpen
<1> QED BY <1>1, <1>2

(***************************************************************************)
(* The theorem                                                             *)
(***************************************************************************)
\* The text of a response reaches the streams in its order, each piece once, but for what
\* flushText could not send over a stream that had ended (sendLoop, trySendSentence and the
\* pending text that streamLoop carries from one stream to the next).
THEOREM TextIsKept == Spec => []TextKept
<1>1. Init => TextInv BY InitText
<1>2. TextInv /\ [Next]_vars => TextInv'
  BY StreamLoopKeeps, SendLoopKeeps, OthersKeep DEF Next, Terminated
<1>3. TextInv => TextKept BY DEF TextInv
<1> QED BY <1>1, <1>2, <1>3, PTL DEF Spec

(***************************************************************************)
(* What is heard                                                           *)
(***************************************************************************)
Precede(A, B) == \A x \in A, y \in B : x < y

\* The bounds are numbers.
Bounds == MaxPieces \in Nat /\ MaxFailures \in Nat

\* The rest of the type invariant, and that both goroutines belong to a running stream.
ControlTypes ==
  /\ stage \in {"client", "next", "open", "run", "returned"} /\ ctxDone \in BOOLEAN
  /\ consumed \in 0 .. MaxPieces /\ ends \subseteq 1 .. consumed /\ ended \in BOOLEAN
  /\ snd \in {"first", "select", "done"} /\ rcv \in {"check", "recv", "send", "done"}
  /\ grpErr \in BOOLEAN /\ stream \in {"open", "closing", "eof", "error"}
  /\ failures \in 0 .. MaxFailures
  /\ stage # "run" => snd = "done" /\ rcv = "done"

\* The frame that recvLoop has received and not yet put on the channel.
InHand == IF rcv = "send" THEN {frame} ELSE {}

\* What was heard, then the frame in hand, then what the stream will deliver ascends, and
\* all of it was sent.
AudioInOrder ==
  /\ audio \in Seq(Nat) /\ played \in Seq(Nat) /\ frame \in Nat
  /\ rcv # "send" => frame = 0
  /\ Ascending(played) /\ Ascending(audio)
  /\ Precede(Pieces(played), InHand) /\ Precede(Pieces(played), Pieces(audio))
  /\ Precede(InHand, Pieces(audio))
  /\ Pieces(played) \cup InHand \cup Pieces(audio) \subseteq Pieces(sent)

\* While nothing disturbs the response there is one stream, its writer ends with the tokens
\* and its reader after the writer, and what was sent is heard, in hand or on its way.
NothingMissing ==
  ~ctxDone /\ failures = 0 =>
    /\ ~grpErr /\ stream # "error"
    /\ stage \in {"client", "next", "open"} => sent = <<>> /\ audio = <<>>
    /\ stage \in {"client", "next"} => text = <<>>
    /\ stage = "run" /\ snd # "done" => stream = "open"
    /\ stage = "run" /\ snd = "done" => stream = "closing" /\ ended /\ text = <<>>
    /\ stage = "run" /\ rcv = "done" => snd = "done" /\ audio = <<>>
    /\ stage = "returned" => ended /\ text = <<>> /\ audio = <<>>
    /\ Pieces(sent) \subseteq Pieces(played) \cup InHand \cup Pieces(audio)

HeardInv == TextInv /\ ControlTypes /\ AudioInOrder /\ NothingMissing

\* A concatenation ascends if its parts do and the first precedes the second.
LEMMA AscendingConcat ==
  ASSUME NEW s \in Seq(Nat), NEW t \in Seq(Nat)
  PROVE  Ascending(s \o t) <=>
           Ascending(s) /\ Ascending(t) /\ Precede(Pieces(s), Pieces(t))
<1>1. /\ Len(s \o t) = Len(s) + Len(t) /\ Len(s) \in Nat /\ Len(t) \in Nat
      /\ \A i \in 1 .. Len(s) + Len(t) :
           (s \o t)[i] = IF i <= Len(s) THEN s[i] ELSE t[i - Len(s)]
  BY ConcatProperties, LenProperties
<1>2. \A i \in 1 .. Len(s) : i \in 1 .. Len(s \o t) /\ (s \o t)[i] = s[i] BY <1>1
<1>3. \A i \in 1 .. Len(t) :
        Len(s) + i \in 1 .. Len(s \o t) /\ (s \o t)[Len(s) + i] = t[i]
  BY <1>1
<1>4. ASSUME Ascending(s \o t)
      PROVE  Ascending(s) /\ Ascending(t) /\ Precede(Pieces(s), Pieces(t))
  <2>1. Ascending(s) BY <1>2, <1>4 DEF Ascending
  <2>2. Ascending(t)
    <3> SUFFICES ASSUME NEW i \in 1 .. Len(t), NEW j \in 1 .. Len(t), i < j
                 PROVE  t[i] < t[j]
      BY DEF Ascending
    <3>1. Len(s) + i < Len(s) + j BY <1>1
    <3> QED BY <1>3, <1>4, <3>1 DEF Ascending
  <2>3. \A i \in 1 .. Len(s), j \in 1 .. Len(t) : s[i] < t[j]
    <3> TAKE i \in 1 .. Len(s), j \in 1 .. Len(t)
    <3>1. i < Len(s) + j BY <1>1
    <3>2. (s \o t)[i] < (s \o t)[Len(s) + j] BY <1>2, <1>3, <1>4, <3>1 DEF Ascending
    <3> QED BY <1>2, <1>3, <3>2
  <2> QED BY <2>1, <2>2, <2>3 DEF Precede, Pieces
<1>5. ASSUME Ascending(s), Ascending(t), Precede(Pieces(s), Pieces(t))
      PROVE  Ascending(s \o t)
  <2> SUFFICES ASSUME NEW i \in 1 .. Len(s \o t), NEW j \in 1 .. Len(s \o t), i < j
               PROVE  (s \o t)[i] < (s \o t)[j]
    BY DEF Ascending
  <2>1. CASE j <= Len(s)
    <3>1. /\ i \in 1 .. Len(s) /\ j \in 1 .. Len(s)
          /\ (s \o t)[i] = s[i] /\ (s \o t)[j] = s[j]
      BY <1>1, <2>1
    <3> QED BY <1>5, <3>1 DEF Ascending
  <2>2. CASE i <= Len(s) /\ j > Len(s)
    <3>1. /\ i \in 1 .. Len(s) /\ j - Len(s) \in 1 .. Len(t)
          /\ (s \o t)[i] = s[i] /\ (s \o t)[j] = t[j - Len(s)]
      BY <1>1, <2>2
    <3> QED BY <1>5, <3>1 DEF Precede, Pieces
  <2>3. CASE i > Len(s)
    <3>1. /\ i - Len(s) \in 1 .. Len(t) /\ j - Len(s) \in 1 .. Len(t) /\ j > Len(s)
          /\ i - Len(s) < j - Len(s)
      BY <1>1, <2>3
    <3>2. (s \o t)[i] = t[i - Len(s)] /\ (s \o t)[j] = t[j - Len(s)] BY <1>1, <2>3, <3>1
    <3> QED BY <1>5, <3>1, <3>2 DEF Ascending
  <2>4. i \in Nat /\ j \in Nat BY <1>1
  <2>5. Len(s) \in Nat BY LenProperties
  <2>6. j <= Len(s) \/ (i <= Len(s) /\ j > Len(s)) \/ i > Len(s) BY <2>4, <2>5
  <2> QED BY <2>1, <2>2, <2>3, <2>6
<1> QED BY <1>4, <1>5

\* A beginning of an ascending sequence.
LEMMA AscendingPrefix ==
  ASSUME NEW s \in Seq(Nat), NEW n \in 0 .. Len(s), Ascending(s)
  PROVE  /\ SubSeq(s, 1, n) \in Seq(Nat) /\ Ascending(SubSeq(s, 1, n))
         /\ Pieces(SubSeq(s, 1, n)) \subseteq Pieces(s)
<1> DEFINE p == SubSeq(s, 1, n)
<1>1. Len(s) \in Nat BY LenProperties
<1>2. p \in Seq(Nat) /\ Len(p) = n /\ \A i \in 1 .. n : p[i] = s[i] BY <1>1
<1>3. 1 .. n \subseteq 1 .. Len(s) BY <1>1
<1> HIDE DEF p
<1>4. Ascending(p) BY <1>2, <1>3 DEF Ascending
<1>5. Pieces(p) \subseteq Pieces(s) BY <1>2, <1>3 DEF Pieces
<1> QED BY <1>2, <1>4, <1>5 DEF p

\* The head of an ascending sequence precedes the rest.
LEMMA AscendingTail ==
  ASSUME NEW s \in Seq(Nat), s # <<>>, Ascending(s)
  PROVE  /\ Head(s) \in Nat /\ Tail(s) \in Seq(Nat) /\ Ascending(Tail(s))
         /\ Pieces(s) = {Head(s)} \cup Pieces(Tail(s))
         /\ Precede({Head(s)}, Pieces(Tail(s)))
<1> DEFINE t == Tail(s)
<1>1. /\ Head(s) \in Nat /\ t \in Seq(Nat) /\ Len(t) = Len(s) - 1 /\ Len(s) \in Nat \ {0}
      /\ \A i \in 1 .. Len(t) : t[i] = s[i + 1]
  BY HeadTailProperties, EmptySeq
<1>2. Head(s) = s[1] OBVIOUS
<1> HIDE DEF t
<1>3. \A i \in 1 .. Len(t) : i + 1 \in 1 .. Len(s) /\ 1 < i + 1 BY <1>1
<1>4. 1 \in 1 .. Len(s) /\ \A i \in 1 .. Len(s) : i = 1 \/ i - 1 \in 1 .. Len(t) BY <1>1
<1>5. Ascending(t)
  <2> SUFFICES ASSUME NEW i \in 1 .. Len(t), NEW j \in 1 .. Len(t), i < j PROVE t[i] < t[j]
    BY DEF Ascending
  <2>1. i + 1 < j + 1 BY <1>1
  <2> QED BY <1>1, <1>3, <2>1 DEF Ascending
<1>6. Pieces(t) \subseteq Pieces(s) BY <1>1, <1>3 DEF Pieces
<1>7. \A i \in 1 .. Len(s) : s[i] \in {Head(s)} \cup Pieces(t)
  <2> TAKE i \in 1 .. Len(s)
  <2>1. CASE i = 1 BY <1>2, <2>1
  <2>2. CASE i # 1
    <3>1. i - 1 \in 1 .. Len(t) /\ (i - 1) + 1 = i BY <1>4, <2>2
    <3>2. t[i - 1] = s[i] BY <1>1, <3>1
    <3> QED BY <3>1, <3>2 DEF Pieces
  <2> QED BY <2>1, <2>2
<1>8. Pieces(s) = {Head(s)} \cup Pieces(t) BY <1>2, <1>4, <1>6, <1>7 DEF Pieces
<1>9. Precede({Head(s)}, Pieces(t)) BY <1>1, <1>2, <1>3, <1>4 DEF Precede, Pieces, Ascending
<1> QED BY <1>1, <1>5, <1>8, <1>9 DEF t

\* One more element.
LEMMA AscendingAppend ==
  ASSUME NEW s \in Seq(Nat), NEW x \in Nat
  PROVE  /\ Append(s, x) \in Seq(Nat) /\ Pieces(Append(s, x)) = Pieces(s) \cup {x}
         /\ Ascending(s) /\ Precede(Pieces(s), {x}) => Ascending(Append(s, x))
<1>1. Append(s, x) = s \o <<x>> BY AppendIsConcat
<1>2. <<x>> \in Seq(Nat) /\ Len(<<x>>) = 1 /\ <<x>>[1] = x OBVIOUS
<1>3. Pieces(<<x>>) = {x} /\ Ascending(<<x>>)
  <2> DEFINE t == <<x>>
  <2>1. t \in Seq(Nat) /\ Len(t) = 1 /\ t[1] = x BY <1>2
  <2> HIDE DEF t
  <2>2. Pieces(t) = {x} /\ Ascending(t) BY <2>1 DEF Pieces, Ascending
  <2> QED BY <2>2 DEF t
<1>4. Append(s, x) \in Seq(Nat) BY AppendProperties
<1>5. Pieces(s \o <<x>>) = Pieces(s) \cup Pieces(<<x>>) BY <1>2, PiecesOfConcat
<1>6. Ascending(s) /\ Precede(Pieces(s), {x}) => Ascending(s \o <<x>>)
  BY <1>2, <1>3, AscendingConcat
<1> QED BY <1>1, <1>3, <1>4, <1>5, <1>6

\* An ascending sequence of the pieces 1 to n has n elements.
LEMMA AscendingLength ==
  ASSUME NEW s \in Seq(Nat), Ascending(s), NEW n \in Nat, Pieces(s) = 1 .. n
  PROVE  Len(s) = n
<1>1. Len(s) \in Nat BY LenProperties
<1>2. \A i, j \in 1 .. Len(s) : s[i] = s[j] => i = j
  <2> SUFFICES ASSUME NEW i \in 1 .. Len(s), NEW j \in 1 .. Len(s), i # j PROVE s[i] # s[j]
    OBVIOUS
  <2>1. i < j \/ j < i BY <1>1
  <2>2. s[i] < s[j] \/ s[j] < s[i] BY <2>1 DEF Ascending
  <2>3. s[i] \in Nat /\ s[j] \in Nat BY ElementOfSeq
  <2> QED BY <2>2, <2>3
<1>3. s \in Bijection(1 .. Len(s), 1 .. n)
  <2>1. s \in [1 .. Len(s) -> 1 .. n]
    <3>1. \A i \in 1 .. Len(s) : s[i] \in 1 .. n BY DEF Pieces
    <3>2. s \in [1 .. Len(s) -> Nat] BY LenProperties
    <3> QED BY <3>1, <3>2
  <2>2. \A k \in 1 .. n : \E i \in 1 .. Len(s) : s[i] = k BY DEF Pieces
  <2> QED BY <1>2, <2>1, <2>2, Fun_IsBij
<1>4. /\ IsFiniteSet(1 .. Len(s)) /\ Cardinality(1 .. Len(s)) = Len(s)
      /\ IsFiniteSet(1 .. n) /\ Cardinality(1 .. n) = n
  <2>1. \A m \in Nat : IsFiniteSet(1 .. m) /\ Cardinality(1 .. m) = m
    <3> TAKE m \in Nat
    <3>1. IsFiniteSet(1 .. m) /\ Cardinality(1 .. m) = IF 1 > m THEN 0 ELSE m - 1 + 1
      BY FS_Interval
    <3> QED BY <3>1
  <2> QED BY <1>1, <2>1
<1> QED BY <1>3, <1>4, FS_Bijection, Fun_ExistsBij

\* Nothing has been sent.
LEMMA InitHeard == Init /\ Bounds => HeardInv
<1> SUFFICES ASSUME Init, Bounds PROVE HeardInv
  OBVIOUS
<1>1. TextInv BY InitText
<1>2. ControlTypes
  <2>1. 0 \in 0 .. MaxPieces /\ 0 \in 0 .. MaxFailures BY DEF Bounds
  <2> QED BY <2>1 DEF Init, ControlTypes
<1>3. AudioInOrder
  <2>1. <<>> \in Seq(Nat) /\ Pieces(<<>>) = {} /\ Ascending(<<>>)
    BY EmptySeq DEF Pieces, Ascending
  <2> QED BY <2>1 DEF Init, AudioInOrder, InHand, Precede
<1>4. NothingMissing BY DEF Init, NothingMissing, Pieces
<1> QED BY <1>1, <1>2, <1>3, <1>4 DEF HeardInv

\* A token leaves the bounds of what is read.
LEMMA ReadTypes ==
  ASSUME ControlTypes, Bounds, NEW n \in 1 .. MaxPieces, ReadToken(n)
  PROVE  consumed' \in 0 .. MaxPieces /\ ends' \subseteq 1 .. consumed' /\ ended' = ended
<1>1. consumed \in Nat /\ consumed' = n /\ consumed < n /\ n \in Nat /\ ended' = ended
  BY DEF ControlTypes, Bounds, ReadToken
<1>2. PICK E \in SUBSET (consumed + 1 .. n) : ends' = ends \cup E BY DEF ReadToken
<1>3. 1 .. consumed \subseteq 1 .. n /\ consumed + 1 .. n \subseteq 1 .. n BY <1>1
<1>4. ends' \subseteq 1 .. consumed' BY <1>1, <1>2, <1>3 DEF ControlTypes
<1> QED BY <1>1, <1>4 DEF Bounds

\* The steps keep these types.
LEMMA ControlKept ==
  ASSUME ControlTypes, Bounds, Next
  PROVE  ControlTypes'
<1> USE DEF ControlTypes
<1>1. failures' = failures \/ Fails => failures' \in 0 .. MaxFailures
  BY DEF Fails, Bounds
<1>2. CASE NextToken
  <2>1. /\ UNCHANGED <<ctxDone, snd, rcv, grpErr, stream, failures>> /\ stage = "next"
        /\ stage' \in {"open", "returned"}
        /\ UNCHANGED <<consumed, ends, ended>> \/ \E n \in 1 .. MaxPieces : ReadToken(n)
    BY <1>2 DEF NextToken
  <2>2. consumed' \in 0 .. MaxPieces /\ ends' \subseteq 1 .. consumed' /\ ended' = ended
    BY <2>1, ReadTypes
  <2> QED BY <2>1, <2>2
<1>3. CASE NewClient \/ OpenStream \/ OpenFails \/ GroupDone
  <2>1. /\ UNCHANGED <<ctxDone, consumed, ends, ended>> /\ (failures' = failures \/ Fails)
        /\ grpErr' \in BOOLEAN /\ stream' \in {"open", stream}
        /\ \/ /\ stage' \in {"next", "returned"} /\ snd' = snd /\ rcv' = rcv
              /\ snd = "done" /\ rcv = "done"
           \/ stage' = "run" /\ snd' = "first" /\ rcv' = "check"
    BY <1>3 DEF NewClient, OpenStream, OpenFails, GroupDone, GroupReturns
  <2> QED BY <1>1, <2>1
<1>4. CASE SendLoop
  <2>1. UNCHANGED <<stage, ctxDone, rcv, failures>> /\ snd # "done"
    BY <1>4 DEF SendLoop, SendFirst, SendToken, FlushTimer, TokensClosed, SendCtxDone
  <2>2. snd' \in {"select", "done"} /\ stream' \in {stream, "closing"} /\ grpErr' \in BOOLEAN
    BY <1>4 DEF SendLoop, SendFirst, SendToken, FlushTimer, TokensClosed, SendCtxDone,
                TrySendSentence, SendGoesOn, SendEnds
  <2>3. UNCHANGED <<consumed, ends, ended>> \/ \E n \in 1 .. MaxPieces : ReadToken(n)
    BY <1>4 DEF SendLoop, SendFirst, SendToken, FlushTimer, TokensClosed, SendCtxDone
  <2>4. consumed' \in 0 .. MaxPieces /\ ends' \subseteq 1 .. consumed' /\ ended' = ended
    BY <2>3, ReadTypes
  <2> QED BY <2>1, <2>2, <2>4
<1>5. CASE RecvLoop
  <2>1. UNCHANGED <<stage, ctxDone, consumed, ends, ended, snd, stream, failures>> /\ rcv # "done"
    BY <1>5 DEF RecvLoop, RecvCheck, RecvFrame, RecvEnds, SendFrame
  <2>2. rcv' \in {"check", "recv", "send", "done"} /\ grpErr' \in BOOLEAN
    BY <1>5 DEF RecvLoop, RecvCheck, RecvFrame, RecvEnds, SendFrame
  <2> QED BY <2>1, <2>2
<1>6. CASE EndTokens \/ CancelResponse \/ StreamBreaks \/ Terminated
  <2>1. /\ UNCHANGED <<stage, consumed, ends, snd, rcv, grpErr>>
        /\ ctxDone' \in BOOLEAN /\ ended' \in BOOLEAN /\ stream' \in {stream, "eof", "error"}
        /\ (failures' = failures \/ Fails)
    BY <1>6 DEF EndTokens, CancelResponse, StreamBreaks, Terminated, vars
  <2> QED BY <1>1, <2>1
<1> QED BY <1>2, <1>3, <1>4, <1>5, <1>6 DEF Next, StreamLoop

\* A response that is undisturbed after a step was so before.
LEMMA UndisturbedBefore ==
  ASSUME ControlTypes, Bounds, Next, ~ctxDone', failures' = 0
  PROVE  ~ctxDone /\ failures = 0 /\ ~Fails
<1>1. ctxDone => ctxDone'
  BY DEF Next, StreamLoop, SendLoop, RecvLoop, NewClient, NextToken, OpenStream, OpenFails,
         GroupDone, SendFirst, SendToken, FlushTimer, TokensClosed, SendCtxDone, RecvCheck,
         RecvFrame, RecvEnds, SendFrame, EndTokens, CancelResponse, StreamBreaks, Terminated, vars
<1>2. failures' = failures \/ Fails
  BY DEF Next, StreamLoop, SendLoop, RecvLoop, NewClient, NextToken, OpenStream, OpenFails,
         GroupDone, SendFirst, SendToken, FlushTimer, TokensClosed, SendCtxDone, RecvCheck,
         RecvFrame, RecvEnds, SendFrame, EndTokens, CancelResponse, StreamBreaks, Terminated, vars
<1> QED BY <1>1, <1>2 DEF Fails, ControlTypes, Bounds

\* What is sent, p, comes after all that was sent before it, so after what is on its way.
LEMMA SentInOrder ==
  ASSUME HeardInv, TextInv', NEW p \in Seq(Nat), sent' = sent \o p,
         audio' = audio \/ audio' = audio \o p, UNCHANGED <<played, frame, rcv>>
  PROVE  /\ AudioInOrder'
         /\ audio' = audio \o p
           /\ Pieces(sent) \subseteq Pieces(played) \cup InHand \cup Pieces(audio)
              => Pieces(sent') \subseteq Pieces(played') \cup InHand' \cup Pieces(audio')
<1> USE DEF HeardInv
<1>1. sent \in Seq(Nat) /\ audio \in Seq(Nat) BY DEF TextInv, TextTypes, AudioInOrder
<1>2. Ascending(sent')
  <2>1. sent' \in Seq(Nat) /\ text' \in Seq(Nat) BY DEF TextInv, TextTypes
  <2>2. Ascending(sent \o text)' BY DEF TextInv, TextKept
  <2>3. Ascending(sent' \o text') BY <2>2 DEF Ascending
  <2> QED BY <2>1, <2>3, AscendingParts
<1>3. Ascending(p) /\ Precede(Pieces(sent), Pieces(p))
  <2>1. Ascending(sent \o p) BY <1>2 DEF Ascending
  <2> QED BY <1>1, <2>1, AscendingConcat
<1>4. Pieces(sent') = Pieces(sent) \cup Pieces(p)
  BY <1>1, PiecesOfConcat
<1>5. InHand' = InHand BY DEF InHand
<1>6. CASE audio' = audio
  <2>1. Pieces(audio') = Pieces(audio) /\ Pieces(played') = Pieces(played) BY <1>6
  <2>2. AudioInOrder'
    BY <1>4, <1>5, <1>6, <2>1 DEF AudioInOrder, Precede, Ascending
  <2>3. audio' = audio \o p => Pieces(p) \subseteq Pieces(audio)
    <3>1. Pieces(audio \o p) = Pieces(audio) \cup Pieces(p) BY <1>1, PiecesOfConcat
    <3> QED BY <1>6, <3>1
  <2> QED BY <1>4, <1>5, <2>1, <2>2, <2>3
<1>7. CASE audio' = audio \o p
  <2>1. Pieces(audio') = Pieces(audio) \cup Pieces(p) BY <1>1, <1>7, PiecesOfConcat
  <2>2. Ascending(audio')
    <3>1. Precede(Pieces(audio), Pieces(p)) BY <1>3 DEF AudioInOrder, Precede
    <3>2. Ascending(audio \o p) BY <1>1, <1>3, <3>1, AscendingConcat DEF AudioInOrder
    <3> QED BY <1>7, <3>2
  <2>3. audio' \in Seq(Nat) BY <1>1, <1>7, ConcatProperties
  <2>4. /\ Precede(Pieces(played), Pieces(audio')) /\ Precede(InHand, Pieces(audio'))
        /\ Pieces(played) \cup InHand \cup Pieces(audio') \subseteq Pieces(sent')
    BY <1>3, <1>4, <2>1 DEF AudioInOrder, Precede
  <2>5. played' = played /\ Pieces(played') = Pieces(played) OBVIOUS
  <2>6. AudioInOrder'
    <3>1. /\ Ascending(played) /\ Precede(Pieces(played), InHand) /\ played \in Seq(Nat)
          /\ frame \in Nat /\ (rcv # "send" => frame = 0)
      BY DEF AudioInOrder
    <3>2. /\ Ascending(played') /\ Precede(Pieces(played'), InHand')
          /\ Precede(Pieces(played'), Pieces(audio')) /\ Precede(InHand', Pieces(audio'))
          /\ Pieces(played') \cup InHand' \cup Pieces(audio') \subseteq Pieces(sent')
      BY <1>5, <2>4, <2>5, <3>1
    <3> QED BY <2>2, <2>3, <3>1, <3>2 DEF AudioInOrder
  <2> QED BY <1>4, <1>5, <2>1, <2>5, <2>6
<1> QED BY <1>6, <1>7

\* What streamLoop does.
LEMMA StreamLoopHeard ==
  ASSUME HeardInv, TextInv', ControlTypes', Bounds, StreamLoop
  PROVE  AudioInOrder' /\ NothingMissing'
<1> USE DEF HeardInv
<1>1. ~ctxDone' /\ failures' = 0 => ~ctxDone /\ failures = 0 /\ ~Fails
  BY UndisturbedBefore DEF Next
<1>2. UNCHANGED <<sent, played, frame>> /\ snd = "done" /\ rcv = "done"
  BY DEF StreamLoop, NewClient, NextToken, OpenStream, OpenFails, GroupDone, GroupReturns,
         ControlTypes
<1>3. CASE NewClient \/ NextToken \/ OpenFails \/ GroupDone
  <2>1. UNCHANGED <<sent, played, frame, audio, rcv, snd, stream, grpErr>>
    BY <1>3 DEF NewClient, NextToken, OpenFails, GroupDone
  <2>2. InHand' = InHand /\ Pieces(sent') = Pieces(sent) /\ Pieces(played') = Pieces(played)
        /\ Pieces(audio') = Pieces(audio)
    BY <2>1 DEF InHand
  <2>3. AudioInOrder' BY <2>1, <2>2 DEF AudioInOrder, Precede, Ascending
  <2>4. NothingMissing'
    <3> SUFFICES ASSUME ~ctxDone', failures' = 0 PROVE NothingMissing'
      BY DEF NothingMissing
    <3>1. /\ ~ctxDone /\ failures = 0 /\ ~Fails /\ ~grpErr /\ stream # "error"
          /\ Pieces(sent') \subseteq Pieces(played') \cup InHand' \cup Pieces(audio')
      BY <1>1, <2>2 DEF NothingMissing
    <3>2. CASE NewClient
      BY <2>1, <3>1, <3>2 DEF NewClient, NothingMissing
    <3>3. CASE NextToken
      <4>1. stage = "next" /\ sent = <<>> /\ audio = <<>> /\ text = <<>>
        BY <3>1, <3>3 DEF NextToken, NothingMissing
      <4>2. stage' = "open" \/ (stage' = "returned" /\ ended' /\ text' = <<>>)
        BY <3>1, <3>3, <4>1 DEF NextToken
      <4> QED BY <2>1, <3>1, <4>1, <4>2 DEF NothingMissing
    <3>4. CASE OpenFails
      BY <3>1, <3>4 DEF OpenFails
    <3>5. CASE GroupDone
      <4>1. /\ stage = "run" /\ stage' = "returned" /\ text' = text /\ ended' = ended
            /\ ended /\ text = <<>> /\ audio = <<>>
        BY <1>2, <3>1, <3>5 DEF GroupDone, Remaining, NothingMissing
      <4> QED BY <2>1, <3>1, <4>1 DEF NothingMissing
    <3> QED BY <1>3, <3>2, <3>3, <3>4, <3>5
  <2> QED BY <2>3, <2>4
<1>4. CASE OpenStream
  <2>1. /\ stage = "open" /\ stage' = "run" /\ stream' = "open" /\ audio' = <<>>
        /\ snd' = "first" /\ rcv' = "check" /\ grpErr' = FALSE
        /\ UNCHANGED <<sent, played, frame, failures, ctxDone>>
    BY <1>4 DEF OpenStream
  <2>2. /\ InHand = {} /\ InHand' = {} /\ Pieces(sent') = Pieces(sent)
        /\ Pieces(played') = Pieces(played)
    BY <1>2, <2>1 DEF InHand
  <2>3. <<>> \in Seq(Nat) /\ Pieces(<<>>) = {} /\ Ascending(<<>>)
    BY EmptySeq DEF Pieces, Ascending
  <2>4. audio' \in Seq(Nat) /\ Pieces(audio') = {} /\ Ascending(audio') BY <2>1, <2>3
  <2>5. AudioInOrder'
    BY <1>2, <2>1, <2>2, <2>4 DEF AudioInOrder, Precede, Ascending
  <2>6. NothingMissing'
    <3> SUFFICES ASSUME ~ctxDone', failures' = 0 PROVE NothingMissing'
      BY DEF NothingMissing
    <3>1. sent = <<>> BY <1>1, <2>1 DEF NothingMissing
    <3> QED BY <2>1, <2>2, <2>3, <3>1 DEF NothingMissing
  <2> QED BY <2>5, <2>6
<1> QED BY <1>3, <1>4 DEF StreamLoop

\* What sendLoop sends: a part of what is gathered, or nothing.
LEMMA SendsPart ==
  ASSUME HeardInv, Bounds, SendLoop
  PROVE  /\ snd # "done" /\ stage = "run"
         /\ UNCHANGED <<stage, ctxDone, played, frame, rcv, failures, ended>>
         /\ \E p \in Seq(Nat) :
              /\ sent' = sent \o p /\ (audio' = audio \/ audio' = audio \o p)
              /\ stream = "open" => audio' = audio \o p
         /\ ~ctxDone /\ failures = 0 =>
              /\ grpErr' = grpErr
              /\ \/ snd' # "done" /\ stream' = stream
                 \/ snd' = "done" /\ stream' = "closing" /\ ended' /\ text' = <<>>
<1> USE DEF HeardInv
<1>1. /\ snd # "done" /\ UNCHANGED <<stage, ctxDone, played, frame, rcv, failures>>
      /\ UNCHANGED ended
  BY DEF SendLoop, SendFirst, SendToken, FlushTimer, TokensClosed, SendCtxDone, ReadToken
<1>2. stage = "run" BY <1>1 DEF ControlTypes
<1>3. /\ sent \in Seq(Nat) /\ text \in Seq(Nat) /\ audio \in Seq(Nat) /\ <<>> \in Seq(Nat)
      /\ sent \o <<>> = sent /\ audio \o <<>> = audio
  BY EmptySeq, ConcatEmptySeq DEF TextInv, TextTypes, AudioInOrder
<1>4. ~ctxDone /\ failures = 0 => ~GrpDone /\ stream = "open"
  BY <1>1, <1>2 DEF NothingMissing, GrpDone
<1>5. ASSUME NEW s \in Seq(Nat), TrySendSentence(s)
      PROVE  /\ \E p \in Seq(Nat) :
                  /\ sent' = sent \o p /\ (audio' = audio \/ audio' = audio \o p)
                  /\ stream = "open" => audio' = audio \o p
             /\ ~ctxDone /\ failures = 0 =>
                  grpErr' = grpErr /\ snd' # "done" /\ stream' = stream
  <2>1. ASSUME UNCHANGED <<sent, audio>>
        PROVE  \E p \in Seq(Nat) :
                 /\ sent' = sent \o p /\ (audio' = audio \/ audio' = audio \o p)
                 /\ stream = "open" => audio' = audio \o p
    BY <1>3, <2>1
  <2>2. ASSUME NEW n \in 1 .. Len(s), Accepted(SubSeq(s, 1, n))
        PROVE  \E p \in Seq(Nat) :
                 /\ sent' = sent \o p /\ (audio' = audio \/ audio' = audio \o p)
                 /\ stream = "open" => audio' = audio \o p
    <3>1. SubSeq(s, 1, n) \in Seq(Nat) BY SplitOff
    <3> QED BY <2>2, <3>1 DEF Accepted
  <2>3. UNCHANGED <<sent, audio>> \/ \E n \in 1 .. Len(s) : Accepted(SubSeq(s, 1, n))
    BY <1>5 DEF TrySendSentence, Rejected
  <2>4. ~ctxDone /\ failures = 0 => grpErr' = grpErr /\ SendGoesOn
    BY <1>4, <1>5 DEF TrySendSentence, Rejected
  <2>5. ~ctxDone /\ failures = 0 => snd' # "done" /\ stream' = stream
    BY <1>4, <2>4 DEF SendGoesOn
  <2> QED BY <2>1, <2>2, <2>3, <2>4, <2>5
<1>6. CASE SendFirst
  BY <1>1, <1>2, <1>3, <1>5, <1>6 DEF SendFirst
<1>7. CASE SendToken
  <2>1. PICK n \in 1 .. MaxPieces : ReadToken(n) /\ TrySendSentence(text \o Token(n))
    BY <1>7 DEF SendToken
  <2>2. Token(n) \in Seq(Nat) BY <2>1 DEF Token, ReadToken, TextInv, TextTypes
  <2>3. text \o Token(n) \in Seq(Nat) BY <1>3, <2>2, ConcatProperties
  <2> QED BY <1>1, <1>2, <1>5, <2>1, <2>3
<1>8. CASE FlushTimer \/ TokensClosed
  <2>1. FlushText /\ UNCHANGED grpErr BY <1>8 DEF FlushTimer, TokensClosed
  <2>2. \E p \in Seq(Nat) :
          /\ sent' = sent \o p /\ (audio' = audio \/ audio' = audio \o p)
          /\ stream = "open" => audio' = audio \o p
    BY <1>3, <2>1 DEF FlushText, Accepted, Rejected
  <2>3. text' = <<>> BY <2>1 DEF FlushText
  <2>4. ~ctxDone /\ failures = 0 =>
          \/ snd' # "done" /\ stream' = stream
          \/ snd' = "done" /\ stream' = "closing" /\ ended'
    BY <1>1, <1>4, <1>8 DEF FlushTimer, TokensClosed, SendGoesOn, SendEnds
  <2> QED BY <1>1, <1>2, <2>1, <2>2, <2>3, <2>4
<1>9. CASE SendCtxDone
  <2>1. GrpDone /\ UNCHANGED <<sent, audio>> BY <1>9 DEF SendCtxDone
  <2> QED BY <1>1, <1>2, <1>3, <1>4, <2>1
<1> QED BY <1>6, <1>7, <1>8, <1>9 DEF SendLoop

\* What sendLoop does.
LEMMA SendLoopHeard ==
  ASSUME HeardInv, TextInv', Bounds, SendLoop
  PROVE  AudioInOrder' /\ NothingMissing'
<1> USE DEF HeardInv
<1>1. PICK p \in Seq(Nat) :
        /\ sent' = sent \o p /\ (audio' = audio \/ audio' = audio \o p)
        /\ stream = "open" => audio' = audio \o p
  BY SendsPart
<1>2. /\ snd # "done" /\ stage = "run"
      /\ UNCHANGED <<stage, ctxDone, played, frame, rcv, failures, ended>>
  BY SendsPart
<1>3. AudioInOrder' BY <1>1, <1>2, SentInOrder
<1>4. NothingMissing'
  <2> SUFFICES ASSUME ~ctxDone', failures' = 0 PROVE NothingMissing'
    BY DEF NothingMissing
  <2>1. /\ ~grpErr /\ stream = "open" /\ rcv # "done"
        /\ Pieces(sent) \subseteq Pieces(played) \cup InHand \cup Pieces(audio)
    BY <1>2 DEF NothingMissing
  <2>2. Pieces(sent') \subseteq Pieces(played') \cup InHand' \cup Pieces(audio')
    BY <1>1, <1>2, <2>1, SentInOrder
  <2>3. /\ grpErr' = grpErr
        /\ \/ snd' # "done" /\ stream' = stream
           \/ snd' = "done" /\ stream' = "closing" /\ ended' /\ text' = <<>>
    BY <1>2, SendsPart
  <2> QED BY <1>2, <2>1, <2>2, <2>3 DEF NothingMissing
<1> QED BY <1>3, <1>4

\* What recvLoop does.
LEMMA RecvLoopHeard ==
  ASSUME HeardInv, Bounds, RecvLoop
  PROVE  AudioInOrder' /\ NothingMissing'
<1> USE DEF HeardInv
<1>1. /\ UNCHANGED <<sent, text, stage, ctxDone, ended, snd, stream, failures>> /\ rcv # "done"
      /\ stage = "run"
  BY DEF RecvLoop, RecvCheck, RecvFrame, RecvEnds, SendFrame, ControlTypes
<1>2. Pieces(sent') = Pieces(sent) BY <1>1
<1>3. ~ctxDone' /\ failures' = 0 =>
        /\ ~GrpDone /\ stream # "error"
        /\ Pieces(sent) \subseteq Pieces(played) \cup InHand \cup Pieces(audio)
  BY <1>1 DEF NothingMissing, GrpDone
<1>4. CASE RecvCheck \/ RecvEnds
  <2>1. UNCHANGED <<played, frame, audio>> /\ rcv # "send" /\ rcv' # "send"
    BY <1>4 DEF RecvCheck, RecvEnds
  <2>2. /\ InHand' = InHand /\ Pieces(played') = Pieces(played) /\ Pieces(audio') = Pieces(audio)
    BY <2>1 DEF InHand
  <2>3. AudioInOrder' BY <1>2, <2>1, <2>2 DEF AudioInOrder, Precede, Ascending
  <2>4. NothingMissing'
    <3> SUFFICES ASSUME ~ctxDone', failures' = 0 PROVE NothingMissing'
      BY DEF NothingMissing
    <3>1. grpErr' = grpErr /\ (rcv' = "done" => audio = <<>> /\ stream \in {"closing", "eof"})
      BY <1>1, <1>3, <1>4 DEF RecvCheck, RecvEnds, GrpDone
    <3>2. rcv' = "done" => snd = "done" BY <1>1, <3>1 DEF NothingMissing
    <3> QED BY <1>1, <1>2, <1>3, <2>1, <2>2, <3>1, <3>2 DEF NothingMissing
  <2> QED BY <2>3, <2>4
<1>5. CASE RecvFrame
  <2>1. /\ rcv = "recv" /\ rcv' = "send" /\ audio # <<>> /\ frame' = Head(audio)
        /\ audio' = Tail(audio) /\ UNCHANGED <<played, grpErr>>
    BY <1>5 DEF RecvFrame
  <2>2. /\ frame' \in Nat /\ audio' \in Seq(Nat) /\ Ascending(audio')
        /\ Pieces(audio) = {frame'} \cup Pieces(audio')
        /\ Precede({frame'}, Pieces(audio'))
    <3>1. audio \in Seq(Nat) /\ Ascending(audio) BY DEF AudioInOrder
    <3>2. Ascending(Tail(audio)) /\ Precede({Head(audio)}, Pieces(Tail(audio)))
      BY <2>1, <3>1, AscendingTail
    <3> QED BY <2>1, <3>1, <3>2, AscendingTail
  <2>3. InHand = {} /\ InHand' = {frame'} /\ Pieces(played') = Pieces(played)
    BY <2>1 DEF InHand
  <2>4. AudioInOrder'
    BY <1>2, <2>1, <2>2, <2>3 DEF AudioInOrder, Precede, Ascending
  <2>5. NothingMissing'
    BY <1>1, <1>2, <1>3, <2>1, <2>2, <2>3 DEF NothingMissing
  <2> QED BY <2>4, <2>5
<1>6. CASE SendFrame
  <2>1. /\ rcv = "send" /\ frame' = 0 /\ UNCHANGED <<audio, grpErr>>
        /\ \/ played' = Append(played, frame) /\ rcv' = "check"
           \/ GrpDone /\ rcv' = "done" /\ played' = played
    BY <1>6 DEF SendFrame
  <2>2. InHand = {frame} /\ InHand' = {} /\ Pieces(audio') = Pieces(audio)
    BY <2>1 DEF InHand
  <2>3. /\ played' \in Seq(Nat) /\ Ascending(played')
        /\ Pieces(played) \subseteq Pieces(played')
        /\ Pieces(played') \subseteq Pieces(played) \cup InHand
        /\ ~GrpDone => Pieces(played') = Pieces(played) \cup InHand
    <3>1. /\ played \in Seq(Nat) /\ frame \in Nat /\ Ascending(played)
          /\ Precede(Pieces(played), {frame})
      BY <2>2 DEF AudioInOrder
    <3>2. CASE played' = played BY <2>1, <3>1, <3>2, AscendingAppend
    <3>3. CASE played' = Append(played, frame)
      <4>1. Ascending(Append(played, frame)) BY <3>1, AscendingAppend
      <4> QED BY <2>2, <3>1, <3>3, <4>1, AscendingAppend
    <3> QED BY <2>1, <3>2, <3>3
  <2>4. AudioInOrder'
    <3>1. /\ Precede(Pieces(played'), Pieces(audio)) /\ Precede(Pieces(played'), {})
          /\ Precede({}, Pieces(audio)) /\ audio \in Seq(Nat) /\ Ascending(audio)
          /\ Pieces(played') \cup Pieces(audio) \subseteq Pieces(sent)
      BY <2>3 DEF AudioInOrder, Precede
    <3> QED BY <1>2, <2>1, <2>2, <2>3, <3>1 DEF AudioInOrder, Ascending
  <2>5. NothingMissing'
    BY <1>1, <1>2, <1>3, <2>1, <2>2, <2>3 DEF NothingMissing
  <2> QED BY <2>4, <2>5
<1> QED BY <1>4, <1>5, <1>6 DEF RecvLoop

\* What the brain, the responder and the service do.
LEMMA OthersHeard ==
  ASSUME HeardInv, Bounds, EndTokens \/ CancelResponse \/ StreamBreaks \/ UNCHANGED vars
  PROVE  AudioInOrder' /\ NothingMissing'
<1> USE DEF HeardInv
<1>1. /\ UNCHANGED <<sent, text, stage, snd, rcv, frame, grpErr, played>>
      /\ Pieces(sent') = Pieces(sent) /\ Pieces(played') = Pieces(played) /\ InHand' = InHand
  BY DEF EndTokens, CancelResponse, StreamBreaks, vars, InHand
<1>2. CASE EndTokens \/ CancelResponse \/ UNCHANGED vars
  <2>1. /\ UNCHANGED <<audio, stream, failures>> /\ Pieces(audio') = Pieces(audio)
        /\ (ctxDone => ctxDone') /\ (ended => ended')
    BY <1>2 DEF EndTokens, CancelResponse, vars
  <2>2. AudioInOrder' BY <1>1, <2>1 DEF AudioInOrder, Precede, Ascending
  <2>3. NothingMissing' BY <1>1, <2>1 DEF NothingMissing
  <2> QED BY <2>2, <2>3
<1>3. CASE StreamBreaks
  <2>1. PICK n \in 0 .. Len(audio) : audio' = SubSeq(audio, 1, n) BY <1>3 DEF StreamBreaks
  <2>2. /\ audio' \in Seq(Nat) /\ Ascending(audio') /\ Pieces(audio') \subseteq Pieces(audio)
    <3>1. audio \in Seq(Nat) /\ Ascending(audio) BY DEF AudioInOrder
    <3>2. Ascending(SubSeq(audio, 1, n)) BY <3>1, AscendingPrefix
    <3> QED BY <2>1, <3>1, <3>2, AscendingPrefix
  <2>3. AudioInOrder'
    <3>1. /\ Precede(Pieces(played), Pieces(audio')) /\ Precede(InHand, Pieces(audio'))
          /\ Pieces(played) \cup InHand \cup Pieces(audio') \subseteq Pieces(sent)
      BY <2>2 DEF AudioInOrder, Precede
    <3> QED BY <1>1, <2>2, <3>1 DEF AudioInOrder, Ascending
  <2>4. failures' = failures + 1 /\ failures \in Nat
    BY <1>3 DEF StreamBreaks, Fails, ControlTypes, Bounds
  <2>5. NothingMissing' BY <2>4 DEF NothingMissing
  <2> QED BY <2>3, <2>5
<1> QED BY <1>2, <1>3

\* The inductive invariant, if the bounds are numbers.
THEOREM HeardHolds == ASSUME Bounds PROVE Spec => []HeardInv
<1>1. HeardInv /\ [Next]_vars => HeardInv'
  <2> SUFFICES ASSUME HeardInv, [Next]_vars PROVE HeardInv'
    OBVIOUS
  <2>1. TextInv'
    BY StreamLoopKeeps, SendLoopKeeps, OthersKeep DEF Next, Terminated, HeardInv
  <2>2. ControlTypes'
    <3>1. CASE Next BY <3>1, ControlKept DEF HeardInv
    <3>2. CASE UNCHANGED vars BY <3>2 DEF HeardInv, ControlTypes, vars
    <3> QED BY <3>1, <3>2
  <2>3. AudioInOrder' /\ NothingMissing'
    BY <2>1, <2>2, StreamLoopHeard, SendLoopHeard, RecvLoopHeard, OthersHeard
       DEF Next, Terminated
  <2> QED BY <2>1, <2>2, <2>3 DEF HeardInv
<1> QED BY InitHeard, <1>1, PTL DEF Spec

\* All state keeps its type; the audio and the text are made of pieces that were read.
THEOREM TypesHold == ASSUME Bounds PROVE Spec => []TypeOK
<1>1. HeardInv => TypeOK
  <2> SUFFICES ASSUME HeardInv PROVE TypeOK
    OBVIOUS
  <2> USE DEF HeardInv
  <2>1. Pieces(sent) \subseteq 1 .. consumed /\ Pieces(text) \subseteq 1 .. consumed
    <3>1. sent \in Seq(Nat) /\ text \in Seq(Nat) BY DEF TextInv, TextTypes
    <3>2. Pieces(sent \o text) \subseteq 1 .. consumed BY DEF TextInv, TextKept
    <3> QED BY <3>1, <3>2, PiecesOfConcat
  <2>2. Pieces(audio) \subseteq 1 .. consumed /\ Pieces(played) \subseteq 1 .. consumed
    BY <2>1 DEF AudioInOrder
  <2>3. \A s \in Seq(Nat) : Pieces(s) \subseteq 1 .. consumed => s \in Seq(1 .. consumed)
    <3> SUFFICES ASSUME NEW s \in Seq(Nat), Pieces(s) \subseteq 1 .. consumed
                 PROVE  s \in Seq(1 .. consumed)
      OBVIOUS
    <3>1. \A i \in 1 .. Len(s) : s[i] \in 1 .. consumed BY DEF Pieces
    <3>2. DOMAIN s = 1 .. Len(s) BY LenProperties
    <3>3. Range(s) \subseteq 1 .. consumed BY <3>1, <3>2 DEF Range
    <3>4. s \in Seq(Range(s)) BY SeqOfRange
    <3> QED BY <3>3, <3>4, SeqMonotonic
  <2>4. frame \in 0 .. consumed
    <3>1. CASE rcv = "send"
      <4>1. frame \in Pieces(sent) BY <3>1 DEF AudioInOrder, InHand
      <4> QED BY <2>1, <4>1
    <3>2. CASE rcv # "send" BY <3>2 DEF AudioInOrder, TextInv, TextTypes
    <3> QED BY <3>1, <3>2
  <2>5. /\ sent \in Seq(1 .. consumed) /\ text \in Seq(1 .. consumed)
        /\ audio \in Seq(1 .. consumed) /\ played \in Seq(1 .. consumed)
    BY <2>1, <2>2, <2>3 DEF TextInv, TextTypes, AudioInOrder
  <2> QED BY <2>4, <2>5 DEF TypeOK, ControlTypes, TextInv, TextTypes
<1> QED BY HeardHolds, <1>1, PTL

\* The response is heard in the order of its text, each piece once and none that was not
\* sent, over however many streams (recvLoop, openStream, streamLoop).
THEOREM HeardStaysInOrder == ASSUME Bounds PROVE Spec => []HeardInOrder
<1>1. HeardInv => HeardInOrder BY DEF HeardInv, AudioInOrder, HeardInOrder
<1> QED BY HeardHolds, <1>1, PTL

\* A response that nothing disturbed is spoken to the end of its tokens: when streamLoop
\* returns, the rest was flushed and recvLoop has read the stream to its end.
THEOREM IsSpokenToTheEnd == ASSUME Bounds PROVE Spec => []SpokenToTheEnd
<1>1. HeardInv => SpokenToTheEnd
  <2> SUFFICES ASSUME HeardInv, stage = "returned", ~ctxDone, failures = 0
               PROVE  ended /\ Len(played) = consumed
    BY DEF SpokenToTheEnd
  <2> USE DEF HeardInv
  <2>1. /\ ended /\ text = <<>> /\ audio = <<>>
        /\ Pieces(sent) \subseteq Pieces(played) \cup InHand \cup Pieces(audio)
    BY DEF NothingMissing
  <2>2. InHand = {} /\ Pieces(audio) = {}
    <3>1. rcv # "send" BY DEF ControlTypes
    <3> QED BY <2>1, <3>1, EmptySeq DEF InHand, Pieces
  <2>3. Pieces(played) = Pieces(sent) BY <2>1, <2>2 DEF AudioInOrder
  <2>4. Pieces(sent) = 1 .. consumed
    <3>1. sent \in Seq(Nat) BY DEF TextInv, TextTypes
    <3>2. sent \o text = sent BY <2>1, <3>1, ConcatEmptySeq
    <3>3. dropped = {} BY DEF TextInv, TextKept
    <3> QED BY <3>2, <3>3 DEF TextInv, TextKept
  <2>5. played \in Seq(Nat) /\ Ascending(played) /\ consumed \in Nat
    BY DEF AudioInOrder, TextInv, TextTypes
  <2> QED BY <2>1, <2>3, <2>4, <2>5, AscendingLength
<1> QED BY HeardHolds, <1>1, PTL
=============================================================================
