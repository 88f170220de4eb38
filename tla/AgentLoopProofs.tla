-------------------------- MODULE AgentLoopProofs --------------------------
(* Proofs about AgentLoop.tla: the type invariant with the bound on what a  *)
(* turn spends, the system prompt at the head of every history, the daily   *)
(* budget, and the history the model is shown.                              *)
EXTENDS AgentLoop, SequenceTheorems, FiniteSetTheorems, TLAPS

USE AgentLoopAssumption

Entry == [role : Roles, turn : Turns, iter : 0 .. Iterations, n : Nat]

Prompted(ms) == \A i \in 1 .. Len(ms) : (ms[i].role = "prompt") <=> i = 1
Unprompted(ms) == \A i \in 1 .. Len(ms) : ms[i].role # "prompt"

\* What i answers of the model may cost.
Cost(i) == i * MaxDelta

\* The history of a turn past its beginning has the prompt at least, and an
\* iteration has cost at most one answer.
Framed(t) ==
    /\ pc[t] # "idle" => session[t] \in Sessions
    /\ pc[t] \in {"upsert", "user", "llm", "tokens", "added", "tool", "finish"}
          => messages[session[t]] # <<>>
    /\ pc[t] \in Ended \cup {"budget", "begin", "upsert", "user"}
          => frame[t].iter = 0 /\ frame[t].tokens = 0
    /\ pc[t] = "llm" => frame[t].iter >= 1 /\ frame[t].tokens <= Cost(frame[t].iter - 1)
    /\ pc[t] \in {"tokens", "added", "tool", "finish"}
          => frame[t].iter >= 1 /\ frame[t].tokens <= Cost(frame[t].iter)

AgentInv == TypeOK /\ PromptFirst /\ \A t \in Turns : Framed(t)

----------------------------------------------------------------------------
(* Costs and histories *)

LEMMA CostGrows ==
    ASSUME NEW i \in 1 .. Iterations
    PROVE  /\ Cost(i) \in Nat /\ Cost(i - 1) \in Nat /\ MaxTokens \in Nat
           /\ Cost(i) = Cost(i - 1) + MaxDelta /\ Cost(i) <= MaxTokens
<1>1. i \in Nat /\ i - 1 \in Nat /\ Iterations - i \in Nat /\ Iterations \in Nat /\ MaxDelta \in Nat
  OBVIOUS
<1>2. (i - 1) * MaxDelta \in Nat /\ (Iterations - i) * MaxDelta \in Nat
  BY <1>1
<1>3. i * MaxDelta = (i - 1) * MaxDelta + MaxDelta
  BY <1>1
<1>4. Iterations * MaxDelta = i * MaxDelta + (Iterations - i) * MaxDelta
  BY <1>1
<1> QED BY <1>1, <1>2, <1>3, <1>4 DEF Cost, MaxTokens

\* What is said after the prompt leaves it where it is.
LEMMA SaidAfterPrompt ==
    ASSUME NEW ms \in Seq(Entry), ms # <<>>, Prompted(ms), NEW more \in Seq(Entry), Unprompted(more)
    PROVE  ms \o more \in Seq(Entry) /\ ms \o more # <<>> /\ Prompted(ms \o more)
<1>1. /\ ms \o more \in Seq(Entry) /\ Len(ms \o more) = Len(ms) + Len(more)
      /\ Len(ms) \in Nat \ {0} /\ Len(more) \in Nat
      /\ \A i \in 1 .. Len(ms) : (ms \o more)[i] = ms[i]
  OBVIOUS
<1>2. \A i \in Len(ms) + 1 .. Len(ms) + Len(more) :
         (ms \o more)[i] = more[i - Len(ms)] /\ i - Len(ms) \in 1 .. Len(more)
  BY <1>1
<1>3. ASSUME NEW i \in 1 .. Len(ms \o more) PROVE ((ms \o more)[i].role = "prompt") <=> i = 1
  <2>1. CASE i \in 1 .. Len(ms)
    BY <1>1, <2>1 DEF Prompted
  <2>2. CASE i \in Len(ms) + 1 .. Len(ms) + Len(more)
    BY <1>1, <1>2, <2>2 DEF Unprompted
  <2> QED BY <1>1, <2>1, <2>2
<1>4. ms \o more # <<>>
  BY <1>1
<1> QED BY <1>1, <1>3, <1>4 DEF Prompted

\* trim() keeps the prompt, and adds none.
LEMMA TrimKeepsPrompt ==
    ASSUME NEW ms \in Seq(Entry), Prompted(ms)
    PROVE  /\ Trim(ms) \in Seq(Entry) /\ Prompted(Trim(ms))
           /\ ms # <<>> => Trim(ms) # <<>>
<1>1. CASE Len(ms) <= MaxMessages
  BY <1>1 DEF Trim
<1>2. CASE Len(ms) > MaxMessages
  <2> DEFINE keep == MaxMessages - 1
             tail == SubSeq(ms, Len(ms) - keep + 1, Len(ms))
  <2>1. /\ Len(ms) \in Nat /\ keep \in Nat \ {0} /\ Len(ms) - keep + 1 \in 3 .. Len(ms)
    BY <1>2
  <2>2. Head(ms) = ms[1] /\ ms[1] \in Entry /\ ms[1].role = "prompt" /\ Len(<<Head(ms)>>) = 1
    BY <2>1 DEF Prompted
  <2>3. Trim(ms) = <<Head(ms)>> \o tail
    <3>1. Trim(ms) = <<Head(ms)>> \o SubSeq(ms, Len(ms) - (MaxMessages - Len(<<Head(ms)>>)) + 1, Len(ms))
      <4>1. Head(ms).role = "prompt" /\ ~(Len(ms) <= MaxMessages)
        BY <1>2, <2>1, <2>2
      <4> QED BY <4>1, Zenon DEF Trim
    <3> QED BY <2>2, <3>1
  <2>4. /\ tail \in Seq(Entry) /\ Len(tail) = keep
        /\ \A i \in 1 .. Len(tail) : tail[i] = ms[Len(ms) - keep + i]
    <3>1. \A i \in Len(ms) - keep + 1 .. Len(ms) : ms[i] \in Entry
      BY <2>1
    <3>2. /\ tail \in Seq(Entry) /\ Len(tail) = keep
          /\ \A i \in 1 .. keep : tail[i] = ms[Len(ms) - keep + 1 + i - 1]
      BY <2>1, <3>1, SubSeqProperties
    <3> QED BY <2>1, <3>2
  <2>5. Unprompted(tail)
    BY <2>1, <2>4 DEF Prompted, Unprompted
  <2>6. <<Head(ms)>> \in Seq(Entry) /\ <<Head(ms)>> # <<>> /\ Prompted(<<Head(ms)>>)
    BY <2>2 DEF Prompted
  <2> QED BY <2>3, <2>4, <2>5, <2>6, SaidAfterPrompt
<1> QED BY <1>1, <1>2

\* The messages a list of results is made of.
LEMMA ResultsUnprompted ==
    ASSUME NEW t \in Turns, frame[t].iter \in 0 .. Iterations, NEW i \in Nat \ {0}, NEW j \in Nat
    PROVE  Results(t, i, j) \in Seq(Entry) /\ Unprompted(Results(t, i, j))
<1> DEFINE n == j - i + 1
<1>1. CASE n \in Nat
  <2>1. /\ Len(Results(t, i, j)) = n
        /\ \A k \in 1 .. n : Results(t, i, j)[k] = ResultOf(t, frame[t].iter, i + k - 1)
    BY <1>1 DEF Results
  <2>2. ASSUME NEW k \in 1 .. n
        PROVE  /\ ResultOf(t, frame[t].iter, i + k - 1) \in Entry
               /\ ResultOf(t, frame[t].iter, i + k - 1).role # "prompt"
    <3>1. i + k - 1 \in Nat
      BY <1>1, <2>2
    <3> QED BY <3>1 DEF ResultOf, Message, Entry, Roles
  <2>3. Results(t, i, j) \in Seq(Entry)
    <3>1. Results(t, i, j) \in [1 .. n -> Entry]
      BY <2>2 DEF Results
    <3> QED BY <1>1, <3>1
  <2> QED BY <2>1, <2>2, <2>3 DEF Unprompted
<1>2. CASE n \notin Nat
  <2>1. 1 .. n = {}
    BY <1>2
  <2>2. Results(t, i, j) = [k \in {} |-> ResultOf(t, frame[t].iter, i + k - 1)]
    BY <2>1 DEF Results
  <2>3. Results(t, i, j) = <<>>
    BY <2>2
  <2> QED BY <2>3 DEF Unprompted
<1> QED BY <1>1, <1>2

LEMMA JoinUnprompted ==
    ASSUME NEW p \in Seq(Entry), NEW q \in Seq(Entry), Unprompted(p), Unprompted(q)
    PROVE  p \o q \in Seq(Entry) /\ Unprompted(p \o q)
<1>1. /\ p \o q \in Seq(Entry) /\ Len(p \o q) = Len(p) + Len(q) /\ Len(p) \in Nat /\ Len(q) \in Nat
      /\ \A i \in 1 .. Len(p) + Len(q) : (p \o q)[i] = IF i <= Len(p) THEN p[i] ELSE q[i - Len(p)]
  OBVIOUS
<1> QED BY <1>1 DEF Unprompted

----------------------------------------------------------------------------
(* The invariant is inductive *)

Places == Ended \cup {"budget", "begin", "upsert", "user", "llm", "tokens", "added", "tool", "finish"}
Frames == [used : Nat, iter : 0 .. Iterations, tokens : 0 .. MaxTokens,
           delta : 0 .. MaxDelta, calls : CallCounts \cup {0}, returned : Nat]

LEMMA FrameFields ==
    ASSUME NEW f \in Frames
    PROVE  /\ f.used \in Nat /\ f.iter \in 0 .. Iterations /\ f.tokens \in 0 .. MaxTokens
           /\ f.delta \in 0 .. MaxDelta /\ f.calls \in CallCounts \cup {0} /\ f.returned \in Nat
           /\ f.iter \in Nat /\ f.tokens \in Nat /\ f.delta \in Nat
<1>1. /\ f.used \in Nat /\ f.iter \in 0 .. Iterations /\ f.tokens \in 0 .. MaxTokens
      /\ f.delta \in 0 .. MaxDelta /\ f.calls \in CallCounts \cup {0} /\ f.returned \in Nat
  BY DEF Frames
<1> QED BY <1>1, CostGrows

\* A step of turn t, on the history of session s.
LEMMA OneTurn ==
    ASSUME AgentInv, NEW t \in Turns, NEW s \in Sessions, NEW ms \in Seq(Entry), NEW p \in Places, NEW f \in Frames,
           pc' = [pc EXCEPT ![t] = p], frame' = [frame EXCEPT ![t] = f],
           session' = [session EXCEPT ![t] = s], messages' = [messages EXCEPT ![s] = ms],
           Prompted(ms), messages[s] # <<>> => ms # <<>>,
           spent' \in Nat, torn' \in SUBSET Sessions, peak' \in Nat, Framed(t)'
    PROVE  AgentInv'
<1>1. TypeOK'
  <2>1. /\ messages' \in [Sessions -> Seq(Entry)] /\ pc' \in [Turns -> Places]
        /\ session' \in [Turns -> Sessions \cup {NoSession}] /\ frame' \in [Turns -> Frames]
    BY DEF AgentInv, TypeOK, Entry, Places, Frames
  <2> QED BY <2>1 DEF TypeOK, Entry, Places, Frames
<1>2. PromptFirst'
  <2>1. \A r \in Sessions : messages'[r] = IF r = s THEN ms ELSE messages[r]
    BY DEF AgentInv, TypeOK
  <2> QED BY <2>1 DEF AgentInv, PromptFirst, Prompted
<1>3. ASSUME NEW u \in Turns PROVE Framed(u)'
  <2>1. CASE u = t
    BY <2>1
  <2>2. CASE u # t
    <3>1. pc'[u] = pc[u] /\ frame'[u] = frame[u] /\ session'[u] = session[u]
      BY <2>2 DEF AgentInv, TypeOK
    <3>2. \A r \in Sessions : messages[r] # <<>> => messages'[r] # <<>>
      BY DEF AgentInv, TypeOK
    <3> QED BY <3>1, <3>2 DEF AgentInv, Framed
  <2> QED BY <2>1, <2>2
<1> QED BY <1>1, <1>2, <1>3 DEF AgentInv

\* The components of a turn.
LEMMA TurnTypes ==
    ASSUME AgentInv, NEW t \in Turns
    PROVE  /\ frame[t] \in Frames /\ pc[t] \in Places /\ Framed(t)
           /\ pc = [pc EXCEPT ![t] = pc[t]] /\ frame = [frame EXCEPT ![t] = frame[t]]
           /\ session = [session EXCEPT ![t] = session[t]]
           /\ \A s \in Sessions : /\ messages[s] \in Seq(Entry) /\ Prompted(messages[s])
                                  /\ messages = [messages EXCEPT ![s] = messages[s]]
           /\ spent \in Nat /\ torn \in SUBSET Sessions /\ peak \in Nat
  BY DEF AgentInv, TypeOK, PromptFirst, Prompted, Entry, Places, Frames

\* The end of an iteration, with the messages `more' of it.
LEMMA EndIterationInv ==
    ASSUME AgentInv, NEW t \in Turns, session[t] \in Sessions, messages[session[t]] # <<>>,
           frame[t].iter \in 1 .. Iterations, frame[t].tokens <= Cost(frame[t].iter),
           NEW more \in Seq(Entry), Unprompted(more), EndIteration(t, more),
           UNCHANGED <<spent, session, torn, peak>>
    PROVE  AgentInv'
<1> DEFINE s == session[t]
<1>0. /\ frame[t] \in Frames /\ pc[t] \in Places /\ messages[s] \in Seq(Entry) /\ Prompted(messages[s])
      /\ session = [session EXCEPT ![t] = s] /\ frame = [frame EXCEPT ![t] = frame[t]]
      /\ spent \in Nat /\ torn \in SUBSET Sessions /\ peak \in Nat
  BY TurnTypes
<1>1. CASE Finishes(t, more)
  <2> DEFINE ms == messages[s] \o (more \o <<Reply(t)>>)
  <2>1. <<Reply(t)>> \in Seq(Entry) /\ Unprompted(<<Reply(t)>>)
    BY DEF Reply, Message, Entry, Roles, Unprompted
  <2>2. ms \in Seq(Entry) /\ Prompted(ms) /\ ms # <<>>
    BY <1>0, <2>1, JoinUnprompted, SaidAfterPrompt
  <2>3. /\ messages' = [messages EXCEPT ![s] = ms] /\ pc' = [pc EXCEPT ![t] = "finish"]
        /\ frame' = [frame EXCEPT ![t] = frame[t]] /\ session' = [session EXCEPT ![t] = s]
    BY <1>0, <1>1 DEF Finishes, Said, Goes
  <2> HIDE DEF ms
  <2>4. Framed(t)'
    <3>1. pc'[t] = "finish" /\ frame'[t] = frame[t] /\ session'[t] = s /\ messages'[s] = ms
      BY <1>0, <2>3 DEF AgentInv, TypeOK
    <3> QED BY <2>2, <3>1 DEF Framed, Ended, Cost
  <2>5. "finish" \in Places
    BY DEF Places
  <2> QED BY <1>0, <2>2, <2>3, <2>4, <2>5, OneTurn
<1>2. CASE frame[t].iter < Iterations /\ AsksAgain(t, more)
  <2> DEFINE ms == messages[s] \o more
             f == [frame[t] EXCEPT !.iter = @ + 1]
  <2>2. ms \in Seq(Entry) /\ Prompted(ms) /\ ms # <<>>
    BY <1>0, SaidAfterPrompt
  <2>3. /\ messages' = [messages EXCEPT ![s] = ms] /\ pc' = [pc EXCEPT ![t] = "llm"]
        /\ frame' = [frame EXCEPT ![t] = f] /\ session' = [session EXCEPT ![t] = s]
    BY <1>0, <1>2 DEF AsksAgain, Said, Goes
  <2>4. /\ f \in Frames /\ f.iter >= 1 /\ f.iter - 1 = frame[t].iter /\ f.tokens = frame[t].tokens
    <3>1. frame[t].iter \in Nat /\ frame[t].iter + 1 \in 0 .. Iterations
      BY <1>2
    <3>2. f \in Frames /\ f.iter = frame[t].iter + 1 /\ f.tokens = frame[t].tokens
      BY <1>0, <3>1 DEF Frames
    <3> QED BY <3>1, <3>2
  <2> HIDE DEF ms, f
  <2>5. pc'[t] = "llm" /\ frame'[t] = f /\ session'[t] = s /\ messages'[s] = ms
    BY <1>0, <2>3 DEF AgentInv, TypeOK
  <2>6. Framed(t)'
    BY <2>2, <2>4, <2>5 DEF Framed, Ended, Cost
  <2>7. "llm" \in Places
    BY DEF Places
  <2> QED BY <1>0, <2>2, <2>3, <2>4, <2>6, <2>7, OneTurn
<1> QED BY <1>1, <1>2 DEF EndIteration

\* The calls of an iteration, from call `from' on, after the messages `more'.
LEMMA ProceedInv ==
    ASSUME AgentInv, NEW t \in Turns, session[t] \in Sessions, messages[session[t]] # <<>>,
           frame[t].iter \in 1 .. Iterations, frame[t].tokens <= Cost(frame[t].iter),
           NEW k \in CallCounts \cup {0}, NEW from \in Nat,
           NEW more \in Seq(Entry), Unprompted(more), Proceed(t, k, from, more),
           UNCHANGED <<spent, session, torn, peak>>
    PROVE  AgentInv'
<1> DEFINE s == session[t]
<1>0. /\ frame[t] \in Frames /\ pc[t] \in Places /\ messages[s] \in Seq(Entry) /\ Prompted(messages[s])
      /\ session = [session EXCEPT ![t] = s] /\ spent \in Nat /\ torn \in SUBSET Sessions /\ peak \in Nat
  BY TurnTypes
<1>a. frame[t].iter \in 0 .. Iterations /\ from + 1 \in Nat \ {0} /\ k \in Nat
  OBVIOUS
<1>1. CASE EndIteration(t, more \o Results(t, from + 1, k))
  <2>1. /\ more \o Results(t, from + 1, k) \in Seq(Entry)
        /\ Unprompted(more \o Results(t, from + 1, k))
    BY <1>a, ResultsUnprompted, JoinUnprompted
  <2> QED BY <1>1, <2>1, EndIterationInv
<1>2. ASSUME NEW n \in from .. k - 1, AwaitsTool(t, k, n, more \o Results(t, from + 1, n))
      PROVE  AgentInv'
  <2> DEFINE ms == messages[s] \o (more \o Results(t, from + 1, n))
             f == [frame[t] EXCEPT !.calls = k, !.returned = n]
  <2>1. n \in Nat
    BY <1>a
  <2>2. /\ more \o Results(t, from + 1, n) \in Seq(Entry)
        /\ Unprompted(more \o Results(t, from + 1, n))
    BY <1>a, <2>1, ResultsUnprompted, JoinUnprompted
  <2>3. ms \in Seq(Entry) /\ Prompted(ms) /\ ms # <<>>
    BY <1>0, <2>2, SaidAfterPrompt
  <2>4. /\ messages' = [messages EXCEPT ![s] = ms] /\ pc' = [pc EXCEPT ![t] = "tool"]
        /\ session' = [session EXCEPT ![t] = s]
    BY <1>0, <1>2 DEF AwaitsTool, Said, Goes
  <2>5. frame' = [frame EXCEPT ![t] = f]
    BY <1>2 DEF AwaitsTool, AgentInv, TypeOK
  <2>6. f \in Frames /\ f.iter = frame[t].iter /\ f.tokens = frame[t].tokens
    BY <1>0, <1>a, <2>1 DEF Frames
  <2> HIDE DEF ms, f
  <2>7. pc'[t] = "tool" /\ frame'[t] = f /\ session'[t] = s /\ messages'[s] = ms
    BY <1>0, <2>4, <2>5 DEF AgentInv, TypeOK
  <2>8. Framed(t)'
    BY <2>3, <2>6, <2>7 DEF Framed, Ended, Cost
  <2>9. "tool" \in Places
    BY DEF Places
  <2> QED BY <1>0, <1>2, <2>3, <2>4, <2>5, <2>6, <2>8, <2>9, OneTurn
<1> QED BY <1>1, <1>2 DEF Proceed

\* What the model answered is acted on.
LEMMA ActsInv ==
    ASSUME AgentInv, NEW t \in Turns, session[t] \in Sessions, messages[session[t]] # <<>>,
           frame[t].iter \in 1 .. Iterations, frame[t].tokens <= Cost(frame[t].iter),
           NEW k \in CallCounts \cup {0}, Acts(t, k), UNCHANGED <<spent, session, torn, peak>>
    PROVE  AgentInv'
<1>1. CASE k = 0
  <2>1. <<>> \in Seq(Entry) /\ Unprompted(<<>>) /\ Finishes(t, <<>>)
    BY <1>1 DEF Acts, Unprompted
  <2> QED BY <2>1, EndIterationInv DEF EndIteration
<1>2. CASE k # 0
  <2> DEFINE more == <<CallsOf(t, frame[t].iter, k)>>
  <2>1. k \in Nat /\ Proceed(t, k, 0, more)
    BY <1>2 DEF Acts
  <2>2. more \in Seq(Entry) /\ Unprompted(more)
    BY <2>1 DEF CallsOf, Message, Entry, Roles, Unprompted
  <2> QED BY <2>1, <2>2, ProceedInv
<1> QED BY <1>1, <1>2

\* run_turn() has returned and the handler trims.
LEMMA ReturnsInv ==
    ASSUME AgentInv, NEW t \in Turns, session[t] \in Sessions, Returns(t) PROVE AgentInv'
<1> DEFINE s == session[t]
           ms == Trim(messages[s])
<1>1. /\ messages[s] \in Seq(Entry) /\ Prompted(messages[s]) /\ session = [session EXCEPT ![t] = s]
      /\ spent \in Nat /\ torn \in SUBSET Sessions /\ peak \in Nat
  BY TurnTypes
<1>2. ms \in Seq(Entry) /\ Prompted(ms) /\ (messages[s] # <<>> => ms # <<>>)
  BY <1>1, TrimKeepsPrompt
<1>3. /\ messages' = [messages EXCEPT ![s] = ms] /\ pc' = [pc EXCEPT ![t] = "done"]
      /\ session' = [session EXCEPT ![t] = s] /\ frame' = [frame EXCEPT ![t] = NoFrame]
      /\ UNCHANGED <<spent, torn, peak>>
  BY <1>1 DEF Returns, Goes, AgentInv, TypeOK
<1>4. NoFrame \in Frames /\ NoFrame.iter = 0 /\ NoFrame.tokens = 0
  <2>1. 0 \in 0 .. MaxTokens
    BY CostGrows
  <2> QED BY <2>1 DEF NoFrame, Frames
<1> HIDE DEF ms
<1>5. Framed(t)'
  <2>1. pc'[t] = "done" /\ frame'[t] = NoFrame /\ session'[t] = s
    BY <1>3 DEF AgentInv, TypeOK
  <2> QED BY <1>4, <2>1 DEF Framed, Ended
<1>6. "done" \in Places
  BY DEF Places, Ended
<1> QED BY <1>1, <1>2, <1>3, <1>4, <1>5, <1>6, OneTurn

LEMMA ChatInv == ASSUME AgentInv, NEW t \in Turns, NEW s \in Sessions, Chat(t, s) PROVE AgentInv'
<1> DEFINE p == IF TokensPerDay = 0 THEN "begin" ELSE "budget"
<1>1. /\ messages[s] \in Seq(Entry) /\ Prompted(messages[s]) /\ messages = [messages EXCEPT ![s] = messages[s]]
      /\ frame[t] \in Frames /\ frame = [frame EXCEPT ![t] = frame[t]]
      /\ spent \in Nat /\ torn \in SUBSET Sessions /\ peak \in Nat
      /\ frame[t].iter = 0 /\ frame[t].tokens = 0
  BY TurnTypes DEF Chat, Framed, Ended
<1>2. /\ pc' = [pc EXCEPT ![t] = p] /\ session' = [session EXCEPT ![t] = s] /\ UNCHANGED <<messages, spent, frame>>
      /\ torn' \in SUBSET Sessions /\ peak' \in Nat
  BY <1>1 DEF Chat, Goes
<1>3. p \in {"begin", "budget"} /\ p \in Places
  BY DEF Places
<1> HIDE DEF p
<1>4. Framed(t)'
  <2>1. pc'[t] = p /\ frame'[t] = frame[t] /\ session'[t] = s
    BY <1>2 DEF AgentInv, TypeOK
  <2> QED BY <1>1, <1>3, <2>1 DEF Framed, Ended
<1> QED BY <1>1, <1>2, <1>3, <1>4, OneTurn

\* The question, and the note that may come before it.
LEMMA QuestionIs ==
    ASSUME NEW t \in Turns, NEW note \in {<<>>, <<Note(t)>>}
    PROVE  /\ note \in Seq(Entry) /\ <<User(t)>> \in Seq(Entry)
           /\ Unprompted(note) /\ Unprompted(<<User(t)>>)
<1>1. <<User(t)>> \in Seq(Entry) /\ Unprompted(<<User(t)>>)
  BY DEF User, Message, Entry, Roles, Unprompted
<1>2. <<Note(t)>> \in Seq(Entry) /\ Unprompted(<<Note(t)>>)
  BY DEF Note, Message, Entry, Roles, Unprompted
<1>3. <<>> \in Seq(Entry) /\ Unprompted(<<>>)
  BY DEF Unprompted
<1>4. CASE note = <<>>
  BY <1>1, <1>3, <1>4
<1>5. CASE note = <<Note(t)>>
  BY <1>1, <1>2, <1>5
<1> QED BY <1>4, <1>5

\* A turn up to its first iteration.
LEMMA BeginningInv ==
    ASSUME AgentInv, NEW t \in Turns, ReadBudget(t) \/ Begin(t) \/ Upserted(t) \/ Opens(t)
    PROVE  AgentInv'
<1> DEFINE s == session[t]
<1>1. s \in Sessions /\ frame[t].iter = 0 /\ frame[t].tokens = 0
  BY TurnTypes DEF ReadBudget, Begin, Upserted, Opens, Framed, Ended
<1>2. /\ messages[s] \in Seq(Entry) /\ Prompted(messages[s]) /\ messages = [messages EXCEPT ![s] = messages[s]]
      /\ frame[t] \in Frames /\ frame = [frame EXCEPT ![t] = frame[t]] /\ session = [session EXCEPT ![t] = s]
      /\ spent \in Nat /\ torn \in SUBSET Sessions /\ peak \in Nat
  BY <1>1, TurnTypes
<1>3. CASE ReadBudget(t)
  <2> DEFINE f == [frame[t] EXCEPT !.used = spent]
  <2>1. /\ pc' = [pc EXCEPT ![t] = "begin"] /\ frame' = [frame EXCEPT ![t] = f]
        /\ UNCHANGED <<messages, spent, session, torn, peak>>
    BY <1>3 DEF ReadBudget, Goes, AgentInv, TypeOK
  <2>2. f \in Frames /\ f.iter = 0 /\ f.tokens = 0 /\ "begin" \in Places
    BY <1>1, <1>2 DEF Frames, Places
  <2> HIDE DEF f
  <2>3. Framed(t)'
    <3>1. pc'[t] = "begin" /\ frame'[t] = f /\ session'[t] = s
      BY <2>1 DEF AgentInv, TypeOK
    <3> QED BY <1>1, <2>2, <3>1 DEF Framed, Ended
  <2> QED BY <1>1, <1>2, <2>1, <2>2, <2>3, OneTurn
<1>4. CASE Begin(t) /\ messages[s] = <<>>
  <2> DEFINE ms == <<Prompt(t)>>
  <2>1. /\ messages' = [messages EXCEPT ![s] = ms] /\ pc' = [pc EXCEPT ![t] = "upsert"]
        /\ UNCHANGED <<spent, session, frame, torn, peak>>
    BY <1>2, <1>4 DEF Begin, Said, Goes
  <2>2. ms \in Seq(Entry) /\ Prompted(ms) /\ ms # <<>> /\ "upsert" \in Places
    BY DEF Prompt, Message, Entry, Roles, Prompted, Places
  <2> HIDE DEF ms
  <2>3. Framed(t)'
    <3>1. pc'[t] = "upsert" /\ frame'[t] = frame[t] /\ session'[t] = s /\ messages'[s] = ms
      BY <1>1, <2>1 DEF AgentInv, TypeOK
    <3> QED BY <1>1, <2>2, <3>1 DEF Framed, Ended
  <2> QED BY <1>1, <1>2, <2>1, <2>2, <2>3, OneTurn
<1>5. CASE \/ Begin(t) /\ messages[s] # <<>>
           \/ Upserted(t)
  <2>1. /\ pc' = [pc EXCEPT ![t] = "user"] /\ UNCHANGED <<messages, spent, session, frame, torn, peak>>
        /\ messages[s] # <<>>
    <3>1. CASE Begin(t) /\ messages[s] # <<>>
      BY <3>1 DEF Begin, Goes
    <3>2. CASE Upserted(t)
      BY <3>2, TurnTypes DEF Upserted, Goes, Framed
    <3> QED BY <1>5, <3>1, <3>2
  <2>2. "user" \in Places
    BY DEF Places
  <2>3. Framed(t)'
    <3>1. pc'[t] = "user" /\ frame'[t] = frame[t] /\ session'[t] = s /\ messages'[s] = messages[s]
      BY <1>1, <2>1 DEF AgentInv, TypeOK
    <3> QED BY <1>1, <2>1, <3>1 DEF Framed, Ended
  <2> QED BY <1>1, <1>2, <2>1, <2>2, <2>3, OneTurn
<1>6. CASE Opens(t)
  <2>0. PICK note \in {<<>>, <<Note(t)>>} : messages' = Said(t, note \o <<User(t)>>)
    BY <1>6 DEF Opens
  <2> DEFINE ms == messages[s] \o (note \o <<User(t)>>)
             f == [frame[t] EXCEPT !.iter = 1]
  <2>1. /\ messages' = [messages EXCEPT ![s] = ms] /\ pc' = [pc EXCEPT ![t] = "llm"]
        /\ frame' = [frame EXCEPT ![t] = f] /\ UNCHANGED <<spent, session, torn, peak>>
    BY <1>6, <2>0 DEF Opens, Said, Goes, AgentInv, TypeOK
  <2>2. ms \in Seq(Entry) /\ Prompted(ms) /\ ms # <<>>
    <3>1. messages[s] # <<>>
      BY <1>6, TurnTypes DEF Opens, Framed
    <3>2. note \o <<User(t)>> \in Seq(Entry) /\ Unprompted(note \o <<User(t)>>)
      BY QuestionIs, JoinUnprompted
    <3> QED BY <1>2, <3>1, <3>2, SaidAfterPrompt
  <2>3. f \in Frames /\ f.iter = 1 /\ f.tokens = 0 /\ "llm" \in Places
    <3>1. 1 \in 0 .. Iterations
      OBVIOUS
    <3>2. f \in Frames /\ f.iter = 1 /\ f.tokens = 0
      BY <1>1, <1>2, <3>1 DEF Frames
    <3> QED BY <3>2 DEF Places
  <2> HIDE DEF ms, f
  <2>4. Framed(t)'
    <3>1. pc'[t] = "llm" /\ frame'[t] = f /\ session'[t] = s /\ messages'[s] = ms
      BY <1>1, <2>1 DEF AgentInv, TypeOK
    <3>2. 0 <= Cost(1 - 1)
      BY DEF Cost
    <3> QED BY <1>1, <2>2, <2>3, <3>1, <3>2 DEF Framed, Ended
  <2> QED BY <1>1, <1>2, <2>1, <2>2, <2>3, <2>4, OneTurn
<1> QED BY <1>3, <1>4, <1>5, <1>6 DEF Begin

\* The answer of the model, and what it cost.
LEMMA AnswerInv ==
    ASSUME AgentInv, NEW t \in Turns, NEW k \in CallCounts \cup {0},
           LlmFails(t) \/ LlmAnswers(t, k) \/ \E d \in 1 .. MaxDelta : LlmReports(t, k, d)
    PROVE  AgentInv'
<1> DEFINE s == session[t]
           i == frame[t].iter
<1>1. /\ s \in Sessions /\ messages[s] # <<>> /\ frame[t] \in Frames
      /\ i \in 1 .. Iterations /\ frame[t].tokens <= Cost(i - 1)
  <2>1. pc[t] = "llm"
    BY DEF LlmFails, LlmAnswers, LlmReports
  <2>2. Framed(t) /\ frame[t] \in Frames
    BY TurnTypes
  <2>3. s \in Sessions /\ messages[s] # <<>> /\ i >= 1 /\ frame[t].tokens <= Cost(i - 1)
    BY <2>1, <2>2 DEF Framed
  <2> QED BY <2>2, <2>3, FrameFields
<1>2. /\ frame[t].tokens \in Nat /\ frame[t].tokens <= Cost(i)
      /\ Cost(i) = Cost(i - 1) + MaxDelta /\ Cost(i) \in Nat /\ Cost(i - 1) \in Nat
      /\ Cost(i) <= MaxTokens /\ MaxTokens \in Nat
  <2>1. /\ Cost(i) \in Nat /\ Cost(i - 1) \in Nat /\ MaxTokens \in Nat
        /\ Cost(i) = Cost(i - 1) + MaxDelta /\ Cost(i) <= MaxTokens
    BY <1>1, CostGrows
  <2>2. frame[t].tokens \in Nat
    BY <1>1, FrameFields
  <2>3. frame[t].tokens <= Cost(i)
    BY <1>1, <2>1, <2>2
  <2> QED BY <2>1, <2>2, <2>3
<1>3. CASE LlmFails(t)
  <2>1. <<>> \in Seq(Entry) /\ Unprompted(<<>>)
    BY DEF Unprompted
  <2>2. EndIteration(t, <<>>) /\ UNCHANGED <<spent, session, torn, peak>>
    BY <1>3 DEF LlmFails, EndIteration
  <2> QED BY <1>1, <1>2, <2>1, <2>2, EndIterationInv
<1>4. CASE LlmAnswers(t, k)
  BY <1>1, <1>2, <1>4, ActsInv DEF LlmAnswers
<1>5. ASSUME NEW d \in 1 .. MaxDelta, LlmReports(t, k, d) PROVE AgentInv'
  <2> DEFINE f == [frame[t] EXCEPT !.tokens = @ + d, !.delta = d, !.calls = k]
  <2>1. /\ pc' = [pc EXCEPT ![t] = "tokens"] /\ frame' = [frame EXCEPT ![t] = f]
        /\ UNCHANGED <<messages, spent, session, torn, peak>>
    BY <1>5 DEF LlmReports, Goes, AgentInv, TypeOK
  <2>2. /\ frame[t].tokens + d \in 0 .. MaxTokens /\ frame[t].tokens + d <= Cost(i)
        /\ d \in 0 .. MaxDelta
    <3> HIDE DEF i, f
    <3>1. frame[t].tokens <= Cost(i - 1) /\ d \in Nat /\ d <= MaxDelta
      BY <1>1
    <3>2. frame[t].tokens + d \in Nat /\ frame[t].tokens + d <= Cost(i)
      BY <1>2, <3>1
    <3> QED BY <1>2, <3>1, <3>2
  <2>3. /\ f \in Frames /\ f.iter = i /\ f.tokens = frame[t].tokens + d
    <3>1. k \in CallCounts \cup {0}
      OBVIOUS
    <3>2. f \in Frames
      BY <1>1, <2>2, <3>1 DEF Frames
    <3>3. f.iter = i /\ f.tokens = frame[t].tokens + d
      BY <1>1 DEF Frames
    <3> QED BY <3>2, <3>3
  <2> HIDE DEF f
  <2>4. "tokens" \in Places
    BY DEF Places
  <2>5. Framed(t)'
    <3>1. pc'[t] = "tokens" /\ frame'[t] = f /\ session'[t] = s /\ messages'[s] = messages[s]
      BY <1>1, <2>1 DEF AgentInv, TypeOK
    <3> QED BY <1>1, <2>2, <2>3, <3>1 DEF Framed, Ended
  <2> QED BY <1>1, <2>1, <2>3, <2>4, <2>5, TurnTypes, OneTurn
<1> QED BY <1>3, <1>4, <1>5

\* A turn that has its answer.
LEMMA ActingInv ==
    ASSUME AgentInv, NEW t \in Turns, AddTokens(t) \/ TokensAdded(t) \/ ToolReturns(t)
    PROVE  AgentInv'
<1> DEFINE s == session[t]
<1>1. /\ s \in Sessions /\ messages[s] # <<>> /\ frame[t] \in Frames
      /\ frame[t].iter \in 1 .. Iterations /\ frame[t].tokens <= Cost(frame[t].iter)
  <2>1. pc[t] \in {"tokens", "added", "tool"}
    BY DEF AddTokens, TokensAdded, ToolReturns
  <2>2. Framed(t) /\ frame[t] \in Frames
    BY TurnTypes
  <2>3. s \in Sessions /\ messages[s] # <<>> /\ frame[t].iter >= 1 /\ frame[t].tokens <= Cost(frame[t].iter)
    BY <2>1, <2>2 DEF Framed
  <2> QED BY <2>2, <2>3, FrameFields
<1>2. CASE AddTokens(t)
  <2>1. /\ pc' = [pc EXCEPT ![t] = "added"] /\ spent' \in Nat
        /\ UNCHANGED <<messages, session, frame, torn, peak>>
    <3>1. spent \in Nat /\ frame[t].delta \in Nat
      BY <1>1, TurnTypes, FrameFields
    <3> QED BY <1>2, <3>1 DEF AddTokens, Goes
  <2>2. "added" \in Places
    BY DEF Places
  <2>3. Framed(t)'
    <3>1. pc'[t] = "added" /\ frame'[t] = frame[t] /\ session'[t] = s /\ messages'[s] = messages[s]
      BY <1>1, <2>1 DEF AgentInv, TypeOK
    <3> QED BY <1>1, <3>1 DEF Framed, Ended
  <2>4. /\ messages' = [messages EXCEPT ![s] = messages[s]] /\ frame' = [frame EXCEPT ![t] = frame[t]]
        /\ session' = [session EXCEPT ![t] = s] /\ torn' \in SUBSET Sessions /\ peak' \in Nat
        /\ messages[s] \in Seq(Entry) /\ Prompted(messages[s])
    BY <1>1, <2>1, TurnTypes
  <2> QED BY <1>1, <2>1, <2>2, <2>3, <2>4, OneTurn
<1>3. CASE TokensAdded(t)
  <2>1. frame[t].calls \in CallCounts \cup {0}
    BY <1>1 DEF Frames
  <2> QED BY <1>1, <1>3, <2>1, ActsInv DEF TokensAdded
<1>4. CASE ToolReturns(t)
  <2> DEFINE r == frame[t].returned
  <2>1. frame[t].calls \in CallCounts \cup {0} /\ r \in Nat /\ r + 1 \in Nat \ {0} /\ frame[t].iter \in 0 .. Iterations
    BY <1>1 DEF Frames
  <2>2. Results(t, r + 1, r + 1) \in Seq(Entry) /\ Unprompted(Results(t, r + 1, r + 1))
    BY <2>1, ResultsUnprompted
  <2>3. /\ Proceed(t, frame[t].calls, r + 1, Results(t, r + 1, r + 1))
        /\ UNCHANGED <<spent, session, torn, peak>>
    BY <1>4 DEF ToolReturns
  <2>4. r + 1 \in Nat
    BY <2>1
  <2> QED BY <1>1, <2>1, <2>2, <2>3, <2>4, ProceedInv
<1> QED BY <1>2, <1>3, <1>4

\* A statement of the store raises, or the usage is no number.
LEMMA RaisesInv == ASSUME AgentInv, NEW t \in Turns, Raises(t) PROVE AgentInv'
<1> DEFINE s == session[t]
<1>1. s \in Sessions /\ frame[t] \in Frames /\ spent \in Nat
  BY TurnTypes DEF Raises, Framed
<1>2. /\ pc' = [pc EXCEPT ![t] = "raised"] /\ frame' = [frame EXCEPT ![t] = NoFrame]
      /\ UNCHANGED <<messages, session, peak>> /\ torn' = torn \cup {s}
  BY DEF Raises, Goes
<1>3. spent' \in Nat
  <2>1. frame[t].delta \in Nat
    BY <1>1 DEF Frames
  <2> QED BY <1>1, <2>1 DEF Raises
<1>4. NoFrame \in Frames /\ NoFrame.iter = 0 /\ NoFrame.tokens = 0 /\ "raised" \in Places
  <2>1. 0 \in 0 .. MaxTokens
    BY CostGrows
  <2> QED BY <2>1 DEF NoFrame, Frames, Places, Ended
<1>5. Framed(t)'
  <2>1. pc'[t] = "raised" /\ frame'[t] = NoFrame /\ session'[t] = s
    BY <1>2 DEF AgentInv, TypeOK
  <2> QED BY <1>1, <1>4, <2>1 DEF Framed, Ended
<1>6. /\ messages[s] \in Seq(Entry) /\ Prompted(messages[s]) /\ messages' = [messages EXCEPT ![s] = messages[s]]
      /\ session' = [session EXCEPT ![t] = s] /\ torn' \in SUBSET Sessions /\ peak' \in Nat
  BY <1>1, <1>2, TurnTypes
<1> QED BY <1>1, <1>2, <1>3, <1>4, <1>5, <1>6, OneTurn

LEMMA InitAgent == Init => AgentInv
<1> SUFFICES ASSUME Init PROVE AgentInv
  OBVIOUS
<1>1. NoFrame \in Frames /\ NoFrame.iter = 0 /\ NoFrame.tokens = 0
  <2>1. 0 \in 0 .. MaxTokens
    BY CostGrows
  <2> QED BY <2>1 DEF NoFrame, Frames
<1>2. TypeOK
  <2>1. frame \in [Turns -> Frames]
    BY <1>1 DEF Init
  <2> QED BY <2>1 DEF Init, TypeOK, Frames, Ended
<1>3. PromptFirst
  BY DEF Init, PromptFirst
<1>4. ASSUME NEW t \in Turns PROVE Framed(t)
  BY <1>1 DEF Init, Framed, Ended
<1> QED BY <1>2, <1>3, <1>4 DEF AgentInv

LEMMA NextAgent == AgentInv /\ [Next]_vars => AgentInv'
<1> SUFFICES ASSUME AgentInv, [Next]_vars PROVE AgentInv'
  OBVIOUS
<1>1. CASE UNCHANGED vars
  BY <1>1 DEF vars, AgentInv, TypeOK, PromptFirst, Framed
<1>2. ASSUME NEW t \in Turns, OutOfBudget(t) \/ Finished(t) PROVE AgentInv'
  <2>1. session[t] \in Sessions /\ Returns(t)
    BY <1>2, TurnTypes DEF OutOfBudget, Finished, Framed
  <2> QED BY <2>1, ReturnsInv
<1>3. ASSUME NEW t \in Turns, LlmFails(t) PROVE AgentInv'
  <2>1. 0 \in CallCounts \cup {0}
    OBVIOUS
  <2> QED BY <1>3, <2>1, AnswerInv
<1>4. ASSUME NEW t \in Turns, TurnStep(t) PROVE AgentInv'
  BY <1>2, <1>3, <1>4, BeginningInv, AnswerInv, ActingInv DEF TurnStep
<1> QED BY <1>1, <1>4, RaisesInv, ChatInv DEF Next

\* What the turns and the histories they share agree on, with the bound on what
\* a turn can spend (loop.py:66-135).
THEOREM TurnsAgree == Spec => []AgentInv
  BY InitAgent, NextAgent, PTL DEF Spec

\* Every variable has its type; a turn asks the model at most
\* iterations_per_turn times (loop.py:97).
THEOREM TypeCorrect == Spec => []TypeOK
<1>1. AgentInv => TypeOK
  BY DEF AgentInv
<1> QED BY <1>1, TurnsAgree, PTL

\* The system prompt is the first message of every session and no other is,
\* however turns overlap, fail and trim (loop.py:77-80, session.py:33-41).
THEOREM PromptStaysFirst == Spec => []PromptFirst
<1>1. AgentInv => PromptFirst
  BY DEF AgentInv
<1> QED BY <1>1, TurnsAgree, PTL

----------------------------------------------------------------------------
(* The daily budget.  What the turns under way may still spend is counted   *)
(* as a set of pairs of a turn and a token of it: once the budget is spent, *)
(* no turn is added to those that may spend, and what they spend leaves the *)
(* set.                                                                     *)

\* What a turn has spent of the budget, its last answer once it is stored.
Stored(t) == frame[t].tokens - (IF pc[t] = "tokens" THEN frame[t].delta ELSE 0)

\* The turns that saw the budget when there was something left.
Entitled == {t \in Active : pc[t] # "budget" /\ (pc[t] = "begin" => frame[t].used < TokensPerDay)}

Owed == {p \in Entitled \X (1 .. TurnCost) : p[2] > Stored(p[1])}

Thrifty(t) ==
    /\ pc[t] = "llm" /\ TokensPerTurn # 0 => frame[t].tokens <= TokensPerTurn
    /\ frame[t].tokens <= TurnCost
    /\ pc[t] = "tokens" => frame[t].delta <= frame[t].tokens

\* Spending(n): the budget has not been spent, or it and what is owed are
\* within what n turns can spend.
Spending(n) == spent < TokensPerDay \/ spent + Cardinality(Owed) <= TokensPerDay - 1 + n * TurnCost

BudgetInv ==
    /\ IsFiniteSet(Active) /\ Cardinality(Active) <= peak
    /\ \A t \in Turns : Thrifty(t)
    /\ TokensPerDay # 0 => Spending(peak)

LEMMA TurnCostBounds ==
    /\ TurnCost \in Nat /\ TurnCost <= MaxTokens
    /\ \A n \in Nat : n <= MaxTokens /\ (TokensPerTurn # 0 => n <= TokensPerTurn + MaxDelta) => n <= TurnCost
<1>1. MaxTokens \in Nat
  BY CostGrows
<1> QED BY <1>1 DEF TurnCost

\* n turns owe what n turns cost.
LEMMA OwedBySet ==
    ASSUME NEW A, IsFiniteSet(A)
    PROVE  /\ IsFiniteSet(A \X (1 .. TurnCost))
           /\ Cardinality(A \X (1 .. TurnCost)) = Cardinality(A) * TurnCost
<1>1. IsFiniteSet(1 .. TurnCost) /\ Cardinality(1 .. TurnCost) = TurnCost
  BY TurnCostBounds, FS_Interval
<1> QED BY <1>1, FS_Product

\* The d tokens of turn t that follow the first a.
TokensAfter(t, a, d) == {t} \X (a + 1 .. a + d)

LEMMA TokensOfTurn ==
    ASSUME NEW t, NEW a \in Nat, NEW d \in Nat
    PROVE  IsFiniteSet(TokensAfter(t, a, d)) /\ Cardinality(TokensAfter(t, a, d)) = d
<1>1. IsFiniteSet(a + 1 .. a + d) /\ Cardinality(a + 1 .. a + d) = d
  BY FS_Interval
<1>2. IsFiniteSet({t}) /\ Cardinality({t}) = 1
  BY FS_Singleton
<1> DEFINE D == a + 1 .. a + d
<1> HIDE DEF D
<1>3. IsFiniteSet({t} \X D) /\ Cardinality({t} \X D) = Cardinality({t}) * Cardinality(D)
  BY <1>1, <1>2, FS_Product DEF D
<1> QED BY <1>1, <1>2, <1>3 DEF D, TokensAfter

\* A set that loses d elements of its own.
LEMMA LosesTokens ==
    ASSUME NEW S, IsFiniteSet(S), NEW R \in SUBSET S, NEW P \in SUBSET S, P \cap R = {}
    PROVE  IsFiniteSet(P) /\ Cardinality(P) + Cardinality(R) <= Cardinality(S)
<1>1. IsFiniteSet(P) /\ IsFiniteSet(R) /\ P \cup R \in SUBSET S
  BY FS_Subset
<1>2. Cardinality(P \cup R) = Cardinality(P) + Cardinality(R) - 0
  BY <1>1, FS_Union, FS_EmptySet
<1>3. Cardinality(P \cup R) <= Cardinality(S)
  BY <1>1, FS_Subset
<1>4. Cardinality(P) \in Nat /\ Cardinality(R) \in Nat
  BY <1>1, FS_CardinalityType
<1> QED BY <1>1, <1>2, <1>3, <1>4

LEMMA TimesMonotone == ASSUME NEW a \in Nat, NEW b \in Nat, NEW c \in Nat, a <= b PROVE a * c <= b * c
<1>1. b - a \in Nat /\ (b - a) * c \in Nat
  OBVIOUS
<1>2. b * c = a * c + (b - a) * c
  OBVIOUS
<1> QED BY <1>1, <1>2

LEMMA StoredType ==
    ASSUME AgentInv, BudgetInv, NEW t \in Turns PROVE Stored(t) \in Nat /\ Stored(t) <= frame[t].tokens
<1>1. frame[t].tokens \in Nat /\ frame[t].delta \in Nat /\ (pc[t] = "tokens" => frame[t].delta <= frame[t].tokens)
  BY TurnTypes DEF BudgetInv, Thrifty, Frames
<1> QED BY <1>1 DEF Stored

\* A step of turn t that spends d and lets nobody else spend.
LEMMA Spends ==
    ASSUME AgentInv, BudgetInv, NEW t \in Turns, NEW d \in Nat, spent' = spent + d,
           d # 0 => /\ t \in Entitled /\ Stored(t) + d <= TurnCost
                    /\ t \in Entitled' => Stored(t)' >= Stored(t) + d,
           Entitled' \subseteq Entitled, \A u \in Entitled' : Stored(u)' >= Stored(u) /\ Stored(u)' \in Nat,
           Active' \subseteq Active, peak' = peak, \A u \in Turns : Thrifty(u)'
    PROVE  BudgetInv'
<1>1. IsFiniteSet(Active') /\ Cardinality(Active') <= Cardinality(Active)
  BY FS_Subset DEF BudgetInv
<1>2. Cardinality(Active) \in Nat /\ Cardinality(Active') \in Nat /\ Cardinality(Active) <= peak
      /\ peak \in Nat /\ spent \in Nat /\ TurnCost \in Nat
  BY <1>1, FS_CardinalityType, TurnCostBounds DEF BudgetInv, AgentInv, TypeOK
<1>3. ASSUME TokensPerDay # 0 PROVE Spending(peak)'
  <2> DEFINE All == Active \X (1 .. TurnCost)
             R == TokensAfter(t, Stored(t), d)
             Left == Owed'
  <2>1. Stored(t) \in Nat
    BY StoredType
  <2>2. IsFiniteSet(R) /\ Cardinality(R) = d
    BY <2>1, TokensOfTurn
  <2>3. IsFiniteSet(All) /\ Cardinality(All) = Cardinality(Active) * TurnCost
    BY OwedBySet DEF BudgetInv
  <2>4. Owed \in SUBSET All
    BY DEF Owed, Entitled
  <2>5. Left \in SUBSET Owed
    <3>1. ASSUME NEW q \in Left PROVE q \in Owed
      <4>1. /\ q \in Entitled' \X (1 .. TurnCost) /\ q[2] > Stored(q[1])'
        BY <3>1 DEF Owed
      <4>2. q[1] \in Entitled' /\ q[1] \in Entitled /\ q[2] \in 1 .. TurnCost /\ q \in Entitled \X (1 .. TurnCost)
        BY <4>1
      <4>3. Stored(q[1]) \in Nat
        BY <4>2, StoredType DEF Entitled, Active
      <4> QED BY <4>1, <4>2, <4>3, <1>2 DEF Owed
    <3> QED BY <3>1
  <2>6. ASSUME d # 0 PROVE R \in SUBSET Owed /\ Left \cap R = {}
    <3>1. t \in Entitled /\ Stored(t) + d <= TurnCost /\ (t \in Entitled' => Stored(t)' >= Stored(t) + d)
      BY <2>6
    <3>2. ASSUME NEW q \in R PROVE q \in Owed /\ q \notin Left
      <4>1. q \in {t} \X (Stored(t) + 1 .. Stored(t) + d)
        BY <3>2 DEF TokensAfter
      <4>2. q[1] = t /\ q[2] \in Stored(t) + 1 .. Stored(t) + d /\ q = <<q[1], q[2]>>
        BY <4>1
      <4>3. q[2] \in 1 .. TurnCost /\ q[2] > Stored(t)
        BY <1>2, <2>1, <3>1, <4>2
      <4>4. q \in Owed
        BY <3>1, <4>2, <4>3 DEF Owed
      <4>5. ASSUME q \in Left PROVE FALSE
        <5>1. q \in Entitled' \X (1 .. TurnCost) /\ q[2] > Stored(q[1])'
          BY <4>5 DEF Owed
        <5>2. t \in Entitled' /\ q[2] > Stored(t)' /\ Stored(t)' \in Nat
          BY <4>2, <5>1
        <5> QED BY <2>1, <3>1, <4>2, <5>2
      <4> QED BY <4>4, <4>5
    <3> QED BY <3>2
  <2>7. Cardinality(All) <= peak * TurnCost /\ peak * TurnCost \in Nat
    BY <1>2, <2>3, TimesMonotone
  <2>8. /\ IsFiniteSet(Owed) /\ Cardinality(Owed) \in Nat /\ Cardinality(Owed) <= Cardinality(All)
        /\ IsFiniteSet(Left) /\ Cardinality(Left) \in Nat /\ Cardinality(Left) <= Cardinality(Owed)
    BY <2>3, <2>4, <2>5, FS_Subset, FS_CardinalityType
  <2>9. ASSUME d # 0 PROVE Cardinality(Left) + d <= Cardinality(Owed)
    BY <2>2, <2>5, <2>6, <2>8, <2>9, LosesTokens
  <2>10. Cardinality(Left) + d <= Cardinality(Owed)
    BY <2>8, <2>9
  <2>11. Cardinality(All) \in Nat
    BY <2>3, FS_CardinalityType
  <2> HIDE DEF All, R, Left
  <2>12. spent' + Cardinality(Left) <= spent + Cardinality(Owed)
    BY <1>2, <2>8, <2>10
  <2>13. CASE spent < TokensPerDay
    BY <1>2, <2>7, <2>8, <2>11, <2>12, <2>13 DEF Spending, Left
  <2>14. CASE spent + Cardinality(Owed) <= TokensPerDay - 1 + peak * TurnCost
    BY <1>2, <2>7, <2>8, <2>12, <2>14 DEF Spending, Left
  <2> QED BY <1>3, <2>13, <2>14 DEF BudgetInv, Spending
<1> QED BY <1>1, <1>2, <1>3 DEF BudgetInv

----------------------------------------------------------------------------
(* Every step keeps the budget *)

\* A step of turn t alone.
LEMMA OneSpends ==
    ASSUME AgentInv, AgentInv', BudgetInv, NEW t \in Turns, NEW d \in Nat, spent' = spent + d,
           \A u \in Turns \ {t} : pc'[u] = pc[u] /\ frame'[u] = frame[u],
           d # 0 => t \in Entitled /\ Stored(t) + d <= TurnCost,
           t \in Entitled' => t \in Entitled /\ Stored(t)' >= Stored(t) + d,
           t \in Active' => t \in Active, peak' = peak, Thrifty(t)'
    PROVE  BudgetInv'
<1>1. ASSUME NEW u \in Turns \ {t}
      PROVE  Thrifty(u)' /\ (u \in Entitled' => u \in Entitled) /\ (u \in Active' => u \in Active)
             /\ Stored(u)' = Stored(u)
  BY DEF BudgetInv, Thrifty, Entitled, Active, Stored
<1>2. Entitled' \subseteq Turns /\ Active' \subseteq Turns
  BY DEF Entitled, Active
<1>3. Entitled' \subseteq Entitled /\ Active' \subseteq Active
  BY <1>1, <1>2
<1>4. ASSUME NEW u \in Entitled' PROVE Stored(u)' >= Stored(u) /\ Stored(u)' \in Nat
  <2>1. Stored(u) \in Nat /\ u \in Turns
    BY <1>2, StoredType
  <2>2. CASE u = t
    <3>1. frame'[t].tokens \in Nat /\ frame'[t].delta \in Nat /\ frame'[t].iter \in Nat
      BY DEF AgentInv, TypeOK
    <3>2. Stored(t)' \in Nat
      BY <3>1 DEF Thrifty, Stored
    <3> QED BY <1>4, <2>1, <2>2, <3>2
  <2>3. CASE u # t
    BY <1>1, <2>1, <2>3
  <2> QED BY <2>2, <2>3
<1>5. \A u \in Turns : Thrifty(u)'
  BY <1>1
<1> QED BY <1>3, <1>4, <1>5, Spends

\* The components of a step that changes the place and the frame of t.
LEMMA OthersStay ==
    ASSUME AgentInv, NEW t \in Turns, NEW p, NEW f,
           pc' = [pc EXCEPT ![t] = p], frame' = [frame EXCEPT ![t] = f]
    PROVE  /\ pc'[t] = p /\ frame'[t] = f
           /\ \A u \in Turns \ {t} : pc'[u] = pc[u] /\ frame'[u] = frame[u]
  BY DEF AgentInv, TypeOK

\* A turn that ends spends at most what it has not stored.
LEMMA EndsInBudget ==
    ASSUME AgentInv, AgentInv', BudgetInv, NEW t \in Turns, pc' = [pc EXCEPT ![t] = "done"] \/ pc' = [pc EXCEPT ![t] = "raised"],
           frame' = [frame EXCEPT ![t] = NoFrame], peak' = peak,
           spent' = spent \/ (pc[t] = "tokens" /\ spent' = spent + frame[t].delta)
    PROVE  BudgetInv'
<1> PICK p \in {"done", "raised"} : pc' = [pc EXCEPT ![t] = p]
  OBVIOUS
<1>1. /\ pc'[t] = p /\ frame'[t] = NoFrame
      /\ \A u \in Turns \ {t} : pc'[u] = pc[u] /\ frame'[u] = frame[u]
  BY OthersStay
<1>2. t \notin Active' /\ t \notin Entitled'
  BY <1>1 DEF Active, Entitled, Ended
<1>3. Thrifty(t)'
  BY <1>1, TurnCostBounds DEF Thrifty, NoFrame
<1>4. frame[t].tokens \in Nat /\ frame[t].delta \in Nat /\ spent \in Nat
  BY DEF AgentInv, TypeOK
<1>5. CASE spent' = spent
  <2>1. spent' = spent + 0 /\ 0 \in Nat
    BY <1>4, <1>5
  <2> QED BY <1>1, <1>2, <1>3, <2>1, OneSpends
<1>6. CASE pc[t] = "tokens" /\ spent' = spent + frame[t].delta
  <2>1. t \in Entitled
    BY <1>6 DEF Entitled, Active, Ended
  <2>2. Stored(t) + frame[t].delta <= TurnCost
    BY <1>4, <1>6 DEF BudgetInv, Thrifty, Stored
  <2> QED BY <1>1, <1>2, <1>3, <1>4, <1>6, <2>1, <2>2, OneSpends
<1> QED BY <1>5, <1>6

\* A turn in an iteration may spend, and has stored what it spent.
LEMMA IterationFacts ==
    ASSUME AgentInv, BudgetInv, NEW t \in Turns, pc[t] \in {"llm", "added", "tool"}
    PROVE  /\ t \in Active /\ t \in Entitled /\ frame[t] \in Frames
           /\ Stored(t) = frame[t].tokens /\ frame[t].tokens <= TurnCost /\ frame[t].tokens \in Nat
<1>1. frame[t] \in Frames /\ frame[t].tokens \in Nat
  BY TurnTypes DEF Frames
<1>2. t \in Active /\ t \in Entitled
  BY DEF Active, Entitled, Ended
<1>3. Stored(t) = frame[t].tokens /\ frame[t].tokens <= TurnCost
  BY <1>1 DEF Stored, BudgetInv, Thrifty
<1> QED BY <1>1, <1>2, <1>3

\* A step of turn t that spends nothing: its tokens stay, its place changes.
LEMMA MovesInBudget ==
    ASSUME AgentInv, AgentInv', BudgetInv, NEW t \in Turns, pc[t] \in {"llm", "added", "tool"},
           NEW p \in {"llm", "tool", "finish"}, NEW f,
           pc' = [pc EXCEPT ![t] = p], frame' = [frame EXCEPT ![t] = f], f.tokens = frame[t].tokens,
           p = "llm" => ~OverTurnBudget(t), UNCHANGED <<spent, session, torn, peak>>
    PROVE  BudgetInv'
<1>1. /\ t \in Active /\ t \in Entitled /\ spent' = spent + 0 /\ 0 \in Nat /\ peak' = peak
      /\ Stored(t) = frame[t].tokens /\ frame[t].tokens <= TurnCost /\ frame[t].tokens \in Nat
  BY IterationFacts, TurnTypes
<1>2. /\ pc'[t] = p /\ frame'[t] = f
      /\ \A u \in Turns \ {t} : pc'[u] = pc[u] /\ frame'[u] = frame[u]
  BY OthersStay
<1>3. Thrifty(t)' /\ Stored(t)' = frame[t].tokens
  BY <1>1, <1>2, TurnCostBounds DEF Thrifty, Stored, OverTurnBudget
<1> QED BY <1>1, <1>2, <1>3, OneSpends

LEMMA EndIterationInBudget ==
    ASSUME AgentInv, AgentInv', BudgetInv, NEW t \in Turns, pc[t] \in {"llm", "added", "tool"},
           NEW ms, EndIteration(t, ms), UNCHANGED <<spent, session, torn, peak>>
    PROVE  BudgetInv'
<1>1. CASE Finishes(t, ms)
  <2>1. pc' = [pc EXCEPT ![t] = "finish"] /\ frame' = [frame EXCEPT ![t] = frame[t]]
    BY <1>1, TurnTypes DEF Finishes, Goes
  <2> QED BY <2>1, MovesInBudget
<1>2. CASE ~OverTurnBudget(t) /\ AsksAgain(t, ms)
  <2> DEFINE f == [frame[t] EXCEPT !.iter = @ + 1]
  <2>1. pc' = [pc EXCEPT ![t] = "llm"] /\ frame' = [frame EXCEPT ![t] = f]
    BY <1>2 DEF AsksAgain, Goes, AgentInv, TypeOK
  <2>2. f.tokens = frame[t].tokens
    BY IterationFacts DEF Frames
  <2> HIDE DEF f
  <2> QED BY <1>2, <2>1, <2>2, MovesInBudget
<1> QED BY <1>1, <1>2 DEF EndIteration

LEMMA ProceedInBudget ==
    ASSUME AgentInv, AgentInv', BudgetInv, NEW t \in Turns, pc[t] \in {"llm", "added", "tool"},
           NEW k, NEW from, NEW more, Proceed(t, k, from, more), UNCHANGED <<spent, session, torn, peak>>
    PROVE  BudgetInv'
<1>1. ASSUME NEW n, NEW ms, AwaitsTool(t, k, n, ms) PROVE BudgetInv'
  <2> DEFINE f == [frame[t] EXCEPT !.calls = k, !.returned = n]
  <2>1. pc' = [pc EXCEPT ![t] = "tool"] /\ frame' = [frame EXCEPT ![t] = f]
    BY <1>1 DEF AwaitsTool, Goes, AgentInv, TypeOK
  <2>2. f.tokens = frame[t].tokens
    BY IterationFacts DEF Frames
  <2> HIDE DEF f
  <2> QED BY <2>1, <2>2, MovesInBudget
<1> QED BY <1>1, EndIterationInBudget DEF Proceed

LEMMA ActsInBudget ==
    ASSUME AgentInv, AgentInv', BudgetInv, NEW t \in Turns, NEW k,
           Acts(t, k), pc[t] \in {"llm", "added"}, UNCHANGED <<spent, session, torn, peak>>
    PROVE  BudgetInv'
<1>1. CASE k = 0
  <2>1. EndIteration(t, <<>>)
    BY <1>1 DEF Acts, EndIteration
  <2> QED BY <2>1, EndIterationInBudget
<1>2. CASE k # 0
  BY <1>2, ProceedInBudget DEF Acts
<1> QED BY <1>1, <1>2

\* A turn up to its first iteration: past the budget, nobody is let in.
LEMMA BeginningInBudget ==
    ASSUME AgentInv, AgentInv', BudgetInv, NEW t \in Turns, ReadBudget(t) \/ Begin(t) \/ Upserted(t) \/ Opens(t)
    PROVE  BudgetInv'
<1>1. /\ t \in Active /\ spent' = spent + 0 /\ 0 \in Nat /\ peak' = peak /\ spent \in Nat /\ frame[t] \in Frames
      /\ frame[t].tokens = 0 /\ Stored(t) = 0
  BY TurnTypes DEF ReadBudget, Begin, Upserted, Opens, Active, Ended, Framed, Stored
<1>2. CASE ReadBudget(t)
  <2> DEFINE f == [frame[t] EXCEPT !.used = spent]
  <2>1. pc' = [pc EXCEPT ![t] = "begin"] /\ frame' = [frame EXCEPT ![t] = f] /\ pc[t] = "budget"
    BY <1>2 DEF ReadBudget, Goes, AgentInv, TypeOK
  <2>2. f.tokens = 0 /\ f.used = spent
    BY <1>1 DEF Frames
  <2> HIDE DEF f
  <2>3. /\ pc'[t] = "begin" /\ frame'[t] = f
        /\ \A u \in Turns \ {t} : pc'[u] = pc[u] /\ frame'[u] = frame[u]
    BY <2>1, OthersStay
  <2>4. Thrifty(t)' /\ Stored(t)' = 0
    BY <2>2, <2>3, TurnCostBounds DEF Thrifty, Stored
  <2>5. CASE spent < TokensPerDay
    <3>1. Active' = Active /\ peak' = peak /\ spent' = spent
      BY <1>1, <1>2, <2>1, <2>3 DEF ReadBudget, Active, Ended
    <3>2. ASSUME NEW u \in Turns PROVE Thrifty(u)'
      BY <2>3, <2>4 DEF BudgetInv, Thrifty
    <3>3. Spending(peak)'
      BY <2>5, <3>1 DEF Spending
    <3> QED BY <3>1, <3>2, <3>3 DEF BudgetInv
  <2>6. CASE ~(spent < TokensPerDay)
    <3>1. t \notin Entitled'
      BY <2>2, <2>3, <2>6 DEF Entitled
    <3> QED BY <1>1, <2>3, <2>4, <3>1, OneSpends
  <2> QED BY <2>5, <2>6
<1>3. CASE Begin(t) \/ Upserted(t)
  <2>1. PICK p \in {"upsert", "user"} : pc' = [pc EXCEPT ![t] = p]
    BY <1>3 DEF Begin, Upserted, Goes
  <2>2. /\ pc'[t] = p /\ frame'[t] = frame[t]
        /\ \A u \in Turns \ {t} : pc'[u] = pc[u] /\ frame'[u] = frame[u]
    BY <1>3, <2>1 DEF Begin, Upserted, AgentInv, TypeOK
  <2>3. Thrifty(t)' /\ Stored(t)' = 0
    BY <1>1, <2>2, TurnCostBounds DEF Thrifty, Stored
  <2>4. TokensPerDay # 0 => t \in Entitled
    <3>1. frame[t].used \in Nat /\ TokensPerDay \in Nat
      BY <1>1 DEF Frames
    <3> QED BY <1>1, <1>3, <3>1 DEF Begin, Upserted, Entitled, Exhausted
  <2>5. CASE TokensPerDay # 0
    BY <1>1, <2>2, <2>3, <2>4, <2>5, OneSpends
  <2>6. CASE TokensPerDay = 0
    <3>1. Active' = Active
      BY <1>1, <2>2 DEF Active, Ended
    <3>2. ASSUME NEW u \in Turns PROVE Thrifty(u)'
      BY <2>2, <2>3 DEF BudgetInv, Thrifty
    <3> QED BY <1>1, <2>6, <3>1, <3>2 DEF BudgetInv
  <2> QED BY <2>5, <2>6
<1>4. CASE Opens(t)
  <2> DEFINE f == [frame[t] EXCEPT !.iter = 1]
  <2>1. pc' = [pc EXCEPT ![t] = "llm"] /\ frame' = [frame EXCEPT ![t] = f]
    BY <1>4 DEF Opens, Goes, AgentInv, TypeOK
  <2>2. f.tokens = 0
    BY <1>1 DEF Frames
  <2> HIDE DEF f
  <2>3. /\ pc'[t] = "llm" /\ frame'[t] = f
        /\ \A u \in Turns \ {t} : pc'[u] = pc[u] /\ frame'[u] = frame[u]
    BY <2>1, OthersStay
  <2>4. Thrifty(t)' /\ Stored(t)' = 0
    BY <2>2, <2>3, TurnCostBounds DEF Thrifty, Stored
  <2>5. t \in Entitled
    BY <1>1, <1>4 DEF Opens, Entitled
  <2> QED BY <1>1, <2>3, <2>4, <2>5, OneSpends
<1> QED BY <1>2, <1>3, <1>4

\* A new turn raises the peak when it is one more than ever.
LEMMA ChatInBudget ==
    ASSUME AgentInv, AgentInv', BudgetInv, NEW t \in Turns, NEW s \in Sessions, Chat(t, s) PROVE BudgetInv'
<1>1. /\ pc[t] = "idle" /\ pc' = [pc EXCEPT ![t] = IF TokensPerDay = 0 THEN "begin" ELSE "budget"]
      /\ UNCHANGED <<messages, spent, frame>>
      /\ peak' = IF Cardinality(Active) = peak THEN peak + 1 ELSE peak
  BY DEF Chat, Goes
<1>2. /\ pc'[t] \in {"begin", "budget"} /\ (TokensPerDay # 0 => pc'[t] = "budget")
      /\ \A u \in Turns \ {t} : pc'[u] = pc[u]
  BY <1>1 DEF AgentInv, TypeOK
<1>3. Active' = Active \cup {t} /\ t \notin Active
  BY <1>1, <1>2 DEF Active, Ended
<1>4. Cardinality(Active) \in Nat /\ Cardinality(Active') = Cardinality(Active) + 1 /\ IsFiniteSet(Active')
  BY <1>3, FS_AddElement, FS_CardinalityType DEF BudgetInv
<1>5. peak \in Nat /\ peak' \in Nat /\ Cardinality(Active') <= peak' /\ peak <= peak'
  BY <1>1, <1>4 DEF BudgetInv, AgentInv, TypeOK
<1>6. ASSUME NEW u \in Turns PROVE Thrifty(u)'
  BY <1>1, <1>2 DEF BudgetInv, Thrifty
<1>7. ASSUME TokensPerDay # 0 PROVE Spending(peak)'
  <2>1. Entitled' = Entitled
    BY <1>1, <1>2, <1>3, <1>7 DEF Entitled
  <2>2. \A u \in Entitled : Stored(u)' = Stored(u)
    BY <1>1, <1>2, <1>3 DEF Entitled, Stored, Active
  <2>3. Owed' = Owed
    BY <2>1, <2>2 DEF Owed
  <2>4. IsFiniteSet(Owed) /\ Cardinality(Owed) \in Nat
    <3>1. IsFiniteSet(Active \X (1 .. TurnCost)) /\ Owed \in SUBSET (Active \X (1 .. TurnCost))
      BY OwedBySet DEF BudgetInv, Owed, Entitled
    <3> QED BY <3>1, FS_Subset, FS_CardinalityType
  <2>5. /\ peak * TurnCost <= peak' * TurnCost /\ peak * TurnCost \in Nat /\ peak' * TurnCost \in Nat
        /\ spent \in Nat
    <3>1. TurnCost \in Nat /\ spent \in Nat
      BY TurnCostBounds DEF AgentInv, TypeOK
    <3>2. PICK n \in Nat, m \in Nat, c \in Nat : n = peak /\ m = peak' /\ c = TurnCost
      BY <1>5, <3>1
    <3>3. n * c <= m * c /\ n * c \in Nat /\ m * c \in Nat
      <4>1. n <= m
        BY <1>5, <3>2
      <4>2. n * c <= m * c
        BY <4>1, TimesMonotone
      <4> QED BY <4>2
    <3> QED BY <3>1, <3>2, <3>3
  <2> QED BY <1>1, <1>7, <2>3, <2>4, <2>5 DEF BudgetInv, Spending
<1> QED BY <1>4, <1>5, <1>6, <1>7 DEF BudgetInv

\* An answer of the model costs, and its cost is stored before it is acted on.
LEMMA ReportInBudget ==
    ASSUME AgentInv, AgentInv', BudgetInv, NEW t \in Turns, NEW k, NEW d \in 1 .. MaxDelta, LlmReports(t, k, d)
    PROVE  BudgetInv'
<1> DEFINE f == [frame[t] EXCEPT !.tokens = @ + d, !.delta = d, !.calls = k]
<1>1. /\ t \in Active /\ t \in Entitled /\ frame[t] \in Frames /\ Stored(t) = frame[t].tokens
      /\ frame[t].tokens \in Nat
  BY IterationFacts DEF LlmReports
<1>2. /\ pc[t] = "llm" /\ pc' = [pc EXCEPT ![t] = "tokens"] /\ frame' = [frame EXCEPT ![t] = f]
      /\ spent' = spent + 0 /\ 0 \in Nat /\ peak' = peak
  <2>1. spent \in Nat /\ frame = [frame EXCEPT ![t] = frame[t]]
    BY TurnTypes
  <2>2. frame' = [frame EXCEPT ![t] = f]
    BY DEF LlmReports, AgentInv, TypeOK
  <2>3. /\ pc[t] = "llm" /\ pc' = [pc EXCEPT ![t] = "tokens"] /\ spent' = spent /\ peak' = peak
    BY DEF LlmReports, Goes
  <2> HIDE DEF f
  <2> QED BY <2>1, <2>2, <2>3
<1>3. f.tokens = frame[t].tokens + d /\ f.delta = d
  BY <1>1 DEF Frames
<1> HIDE DEF f
<1>4. /\ pc'[t] = "tokens" /\ frame'[t] = f
      /\ \A u \in Turns \ {t} : pc'[u] = pc[u] /\ frame'[u] = frame[u]
  BY <1>2, OthersStay
<1>5. f.tokens <= MaxTokens /\ f.tokens \in Nat
  BY <1>4, CostGrows DEF AgentInv, TypeOK
<1>6. f.tokens <= TurnCost
  BY <1>1, <1>2, <1>3, <1>5, TurnCostBounds DEF BudgetInv, Thrifty
<1>7. Thrifty(t)' /\ Stored(t)' = Stored(t) + 0 /\ Stored(t)' = Stored(t)
  BY <1>1, <1>3, <1>4, <1>6 DEF Thrifty, Stored
<1> QED BY <1>1, <1>2, <1>4, <1>7, OneSpends

LEMMA AddInBudget == ASSUME AgentInv, AgentInv', BudgetInv, NEW t \in Turns, AddTokens(t) PROVE BudgetInv'
<1>1. /\ t \in Active /\ t \in Entitled /\ frame[t] \in Frames /\ frame[t].delta \in Nat /\ frame[t].tokens \in Nat
      /\ Stored(t) = frame[t].tokens - frame[t].delta /\ frame[t].tokens <= TurnCost
  <2>1. frame[t] \in Frames /\ frame[t].delta \in Nat /\ frame[t].tokens \in Nat
    BY TurnTypes DEF Frames
  <2>2. t \in Active /\ t \in Entitled
    BY DEF AddTokens, Active, Entitled, Ended
  <2>3. Stored(t) = frame[t].tokens - frame[t].delta /\ frame[t].tokens <= TurnCost
    BY DEF AddTokens, Stored, BudgetInv, Thrifty
  <2> QED BY <2>1, <2>2, <2>3
<1>2. /\ pc' = [pc EXCEPT ![t] = "added"] /\ frame' = [frame EXCEPT ![t] = frame[t]]
      /\ spent' = spent + frame[t].delta /\ peak' = peak
  BY TurnTypes DEF AddTokens, Goes
<1>3. /\ pc'[t] = "added" /\ frame'[t] = frame[t]
      /\ \A u \in Turns \ {t} : pc'[u] = pc[u] /\ frame'[u] = frame[u]
  BY <1>2, OthersStay
<1>4. Thrifty(t)' /\ Stored(t)' = frame[t].tokens /\ Stored(t) + frame[t].delta = frame[t].tokens
  BY <1>1, <1>3 DEF Thrifty, Stored
<1> QED BY <1>1, <1>2, <1>3, <1>4, OneSpends

LEMMA InitBudget == Init => BudgetInv
<1> SUFFICES ASSUME Init PROVE BudgetInv
  OBVIOUS
<1>1. Active = {} /\ peak = 0 /\ spent = 0
  BY DEF Init, Active, Ended
<1>2. \A t \in Turns : Thrifty(t)
  BY TurnCostBounds DEF Init, Thrifty, NoFrame
<1>3. TokensPerDay # 0 => Spending(peak)
  BY <1>1 DEF Spending
<1> QED BY <1>1, <1>2, <1>3, FS_EmptySet DEF BudgetInv

LEMMA NextBudget == AgentInv /\ AgentInv' /\ BudgetInv /\ [Next]_vars => BudgetInv'
<1> SUFFICES ASSUME AgentInv, AgentInv', BudgetInv, [Next]_vars PROVE BudgetInv'
  OBVIOUS
<1>1. CASE UNCHANGED vars
  BY <1>1 DEF vars, BudgetInv, Active, Thrifty, Spending, Owed, Entitled, Stored
<1>2. ASSUME NEW t \in Turns, Returns(t) \/ Raises(t) PROVE BudgetInv'
  <2>1. /\ pc' = [pc EXCEPT ![t] = "done"] \/ pc' = [pc EXCEPT ![t] = "raised"]
        /\ frame' = [frame EXCEPT ![t] = NoFrame] /\ peak' = peak
        /\ spent' = spent \/ (pc[t] = "tokens" /\ spent' = spent + frame[t].delta)
    BY <1>2, TurnTypes DEF Returns, Raises, Goes
  <2> QED BY <2>1, EndsInBudget
<1>3. ASSUME NEW t \in Turns, NEW k \in CallCounts, LlmAnswers(t, k) PROVE BudgetInv'
  BY <1>3, ActsInBudget DEF LlmAnswers
<1>4. ASSUME NEW t \in Turns, LlmFails(t) \/ TokensAdded(t) \/ ToolReturns(t) PROVE BudgetInv'
  <2>1. CASE LlmFails(t)
    BY <2>1, EndIterationInBudget DEF LlmFails, EndIteration
  <2>2. CASE TokensAdded(t)
    BY <2>2, ActsInBudget DEF TokensAdded
  <2>3. CASE ToolReturns(t)
    BY <2>3, ProceedInBudget DEF ToolReturns
  <2> QED BY <1>4, <2>1, <2>2, <2>3
<1>5. ASSUME NEW t \in Turns, TurnStep(t) PROVE BudgetInv'
  BY <1>2, <1>3, <1>4, <1>5, BeginningInBudget, ReportInBudget, AddInBudget
     DEF TurnStep, OutOfBudget, Finished
<1> QED BY <1>1, <1>2, <1>5, ChatInBudget DEF Next

\* Once the day's tokens are spent the agent is off: the budget is overshot at
\* most by what the turns under way at one time can spend (loop.py:66-75).
THEOREM OffOnceSpent == Spec => []OffForTheDay
<1>1. AgentInv /\ BudgetInv => OffForTheDay
  <2> SUFFICES ASSUME AgentInv, BudgetInv, TokensPerDay # 0
               PROVE  spent <= TokensPerDay - 1 + peak * TurnCost
    BY DEF OffForTheDay
  <2>1. IsFiniteSet(Owed) /\ Cardinality(Owed) \in Nat
    <3>1. IsFiniteSet(Active \X (1 .. TurnCost)) /\ Owed \in SUBSET (Active \X (1 .. TurnCost))
      BY OwedBySet DEF BudgetInv, Owed, Entitled
    <3> QED BY <3>1, FS_Subset, FS_CardinalityType
  <2>2. peak * TurnCost \in Nat /\ spent \in Nat
    BY TurnCostBounds DEF AgentInv, TypeOK
  <2> QED BY <2>1, <2>2 DEF BudgetInv, Spending
<1>2. Spec => []BudgetInv
  BY TurnsAgree, InitBudget, NextBudget, PTL DEF Spec
<1> QED BY <1>1, <1>2, TurnsAgree, PTL

----------------------------------------------------------------------------
(* The history the model is shown *)

\* Each call but the one at c is followed by all its results, and each result
\* behind the cut follows a call or another result.
Whole(ms, c) ==
    /\ \A i \in 1 .. Len(ms) : ms[i].role = "calls" /\ i # c =>
          \A k \in 1 .. ms[i].n :
              i + k <= Len(ms) /\ ms[i + k] = ResultOf(ms[i].turn, ms[i].iter, k)
    /\ \A i \in 3 .. Len(ms) : ms[i].role = "tool" => ms[i - 1].role \in {"calls", "tool"}

\* The n calls of turn t in iteration i are at the end, with r results so far.
Half(ms, t, i, n, r) ==
    LET c == Len(ms) - r
    IN  /\ c \in 1 .. Len(ms) /\ ms[c] = CallsOf(t, i, n) /\ r \in 0 .. n
        /\ \A k \in 1 .. r : ms[c + k] = ResultOf(t, i, k)
        /\ Whole(ms, c)

\* Behind the question of t there is only what t did.
Mine(ms, t) ==
    \E i \in 1 .. Len(ms) :
        /\ ms[i] = User(t)
        /\ \A j \in i + 1 .. Len(ms) : ms[j].turn = t /\ ms[j].role \in {"calls", "tool"}

\* What the history h of turn t is at p, with the locals f.
FitAs(h, t, p, f) ==
    /\ p \in {"llm", "tokens", "added", "tool"} => Mine(h, t)
    /\ IF p = "tool" THEN Half(h, t, f.iter, f.calls, f.returned) ELSE Whole(h, 0)

Fit(t) ==
    /\ t \in Active /\ session[t] \notin torn => FitAs(messages[session[t]], t, pc[t], frame[t])
    /\ pc[t] = "tool" => frame[t].returned < frame[t].calls

\* Nobody else is on an untorn session, and one at rest is whole.
Alone == \A t, u \in Active : session[t] = session[u] /\ session[t] \notin torn => t = u
Rest(s) == s \notin torn /\ (\A t \in Active : session[t] # s) => Whole(messages[s], 0)

FitInv == Alone /\ (\A t \in Turns : Fit(t)) /\ \A s \in Sessions : Rest(s)

LEMMA JoinIs ==
    ASSUME NEW p \in Seq(Entry), NEW q \in Seq(Entry)
    PROVE  /\ p \o q \in Seq(Entry) /\ Len(p \o q) = Len(p) + Len(q) /\ Len(p) \in Nat /\ Len(q) \in Nat
           /\ \A i \in 1 .. Len(p) : (p \o q)[i] = p[i]
           /\ \A k \in 1 .. Len(q) : (p \o q)[Len(p) + k] = q[k]
OBVIOUS

LEMMA JoinAssociative ==
    ASSUME NEW p \in Seq(Entry), NEW q \in Seq(Entry), NEW r \in Seq(Entry)
    PROVE  (p \o q) \o r = p \o (q \o r)
BY ConcatAssociative

LEMMA ResultIs == ASSUME NEW t, NEW i, NEW k PROVE ResultOf(t, i, k).turn = t /\ ResultOf(t, i, k).role = "tool"
BY DEF ResultOf, Message

\* More results of the calls at the end.
LEMMA HalfGrows ==
    ASSUME NEW h \in Seq(Entry), NEW q \in Seq(Entry), NEW t \in Turns, NEW i, NEW n \in Nat,
           NEW r \in Nat, NEW m \in Nat, r <= m, m <= n, Half(h, t, i, n, r),
           Len(q) = m - r, \A k \in 1 .. m - r : q[k] = ResultOf(t, i, r + k)
    PROVE  Half(h \o q, t, i, n, m)
<1> DEFINE ms == h \o q
           c == Len(h) - r
<1>1. /\ ms \in Seq(Entry) /\ Len(ms) = Len(h) + Len(q) /\ Len(h) \in Nat /\ Len(q) \in Nat
      /\ \A j \in 1 .. Len(h) : ms[j] = h[j]
      /\ \A k \in 1 .. Len(q) : ms[Len(h) + k] = q[k]
  BY JoinIs
<1>2. /\ c \in 1 .. Len(h) /\ h[c] = CallsOf(t, i, n) /\ Whole(h, c)
      /\ \A k \in 1 .. r : h[c + k] = ResultOf(t, i, k)
  BY DEF Half
<1> HIDE DEF ms
<1>3. Len(ms) - m = c /\ Len(ms) = c + m /\ c \in Nat
  BY <1>1, <1>2
<1>4. c \in 1 .. Len(ms) /\ ms[c] = CallsOf(t, i, n)
  <2> HIDE DEF c
  <2>1. c \in 1 .. Len(ms)
    BY <1>1, <1>2
  <2> QED BY <1>1, <1>2, <2>1
<1>5. ASSUME NEW k \in 1 .. m PROVE ms[c + k] = ResultOf(t, i, k)
  <2>1. CASE k <= r
    <3>1. k \in 1 .. r /\ c + k \in 1 .. Len(h)
      BY <1>2, <2>1
    <3> QED BY <1>1, <1>2, <3>1
  <2>2. CASE k > r
    <3>1. k - r \in 1 .. m - r /\ k - r \in 1 .. Len(q) /\ Len(h) + (k - r) = c + k /\ r + (k - r) = k
      BY <1>1, <2>2
    <3> HIDE DEF c
    <3>2. ms[c + k] = q[k - r] /\ q[k - r] = ResultOf(t, i, k)
      BY <1>1, <3>1
    <3> QED BY <3>2
  <2> QED BY <2>1, <2>2
<1>6. Whole(ms, c)
  <2>1. ASSUME NEW j \in 1 .. Len(ms), ms[j].role = "calls", j # c, NEW k \in 1 .. ms[j].n
        PROVE  j + k <= Len(ms) /\ ms[j + k] = ResultOf(ms[j].turn, ms[j].iter, k)
    <3>1. j \in 1 .. Len(h)
      <4> SUFFICES ASSUME j > Len(h) PROVE FALSE
        BY <1>1
      <4>1. j - c \in 1 .. m /\ c + (j - c) = j
        BY <1>1, <1>2, <1>3
      <4>2. ms[j] = ResultOf(t, i, j - c)
        BY <1>5, <4>1
      <4> QED BY <2>1, <4>2 DEF ResultOf, Message
    <3>2. h[j].role = "calls" /\ k \in 1 .. h[j].n /\ ms[j] = h[j]
      BY <1>1, <2>1, <3>1
    <3>3. j + k <= Len(h) /\ h[j + k] = ResultOf(h[j].turn, h[j].iter, k)
      BY <1>2, <2>1, <3>1, <3>2 DEF Whole
    <3>4. j + k \in 1 .. Len(h)
      <4>1. h[j] \in Entry
        BY <3>1
      <4>2. k \in Nat /\ k >= 1
        BY <3>2, <4>1 DEF Entry
      <4>3. j + k \in Nat /\ j + k >= 1
        BY <3>1, <4>2
      <4> HIDE DEF c
      <4> QED BY <1>1, <3>3, <4>3
    <3> HIDE DEF c
    <3> QED BY <1>1, <3>2, <3>3, <3>4
  <2>2. ASSUME NEW j \in 3 .. Len(ms), ms[j].role = "tool"
        PROVE  ms[j - 1].role \in {"calls", "tool"}
    <3>1. CASE j <= Len(h)
      <4>1. j \in 3 .. Len(h) /\ j \in 1 .. Len(h) /\ j - 1 \in 1 .. Len(h)
        BY <1>1, <3>1
      <4>2. ms[j] = h[j] /\ ms[j - 1] = h[j - 1]
        BY <1>1, <4>1
      <4> QED BY <1>2, <2>2, <4>1, <4>2 DEF Whole
    <3>2. CASE j > Len(h)
      <4>1. j - 1 = c \/ j - 1 - c \in 1 .. m
        <5> HIDE DEF c
        <5>1. j \in Nat /\ j <= c + m /\ c <= j - 1 /\ c \in Nat /\ j - 1 - c \in Int
          BY <1>1, <1>2, <1>3, <3>2
        <5> QED BY <5>1
      <4>2. CASE j - 1 = c
        BY <1>4, <4>2 DEF CallsOf, Message
      <4>3. CASE j - 1 - c \in 1 .. m
        <5>1. c + (j - 1 - c) = j - 1
          BY <1>3
        <5>2. ms[j - 1] = ResultOf(t, i, j - 1 - c)
          BY <1>5, <4>3, <5>1
        <5> QED BY <5>2 DEF ResultOf, Message
      <4> QED BY <4>1, <4>2, <4>3
    <3> QED BY <1>1, <3>1, <3>2
  <2> QED BY <2>1, <2>2 DEF Whole
<1> HIDE DEF c
<1>7. Half(ms, t, i, n, m)
  <2>1. m \in 0 .. n
    OBVIOUS
  <2> QED BY <1>3, <1>4, <1>5, <1>6, <2>1 DEF Half
<1> QED BY <1>7 DEF ms

\* All results are there.
LEMMA HalfDone ==
    ASSUME NEW h \in Seq(Entry), NEW t \in Turns, NEW i, NEW n \in Nat, Half(h, t, i, n, n)
    PROVE  Whole(h, 0)
<1> DEFINE c == Len(h) - n
<1>1. /\ c \in 1 .. Len(h) /\ h[c] = CallsOf(t, i, n) /\ Whole(h, c) /\ Len(h) \in Nat
      /\ \A k \in 1 .. n : h[c + k] = ResultOf(t, i, k)
  BY DEF Half
<1>2. h[c].n = n /\ h[c].turn = t /\ h[c].iter = i /\ c + n = Len(h) /\ c \in Nat
  BY <1>1 DEF CallsOf, Message
<1> HIDE DEF c
<1>3. ASSUME NEW j \in 1 .. Len(h), h[j].role = "calls", NEW k \in 1 .. h[j].n
      PROVE  j + k <= Len(h) /\ h[j + k] = ResultOf(h[j].turn, h[j].iter, k)
  <2>1. CASE j = c
    <3>1. k \in 1 .. n /\ c + k <= Len(h)
      BY <1>2, <2>1
    <3> QED BY <1>1, <1>2, <2>1, <3>1
  <2>2. CASE j # c
    BY <1>1, <1>3, <2>2 DEF Whole
  <2> QED BY <2>1, <2>2
<1> QED BY <1>1, <1>3 DEF Whole

\* A message that is no result is appended.
LEMMA WholeGrows ==
    ASSUME NEW h \in Seq(Entry), Whole(h, 0), NEW e \in Entry, e.role # "tool",
           NEW c \in {0, Len(h) + 1}, e.role = "calls" => c = Len(h) + 1
    PROVE  Whole(h \o <<e>>, c)
<1> DEFINE ms == h \o <<e>>
<1>1. /\ Len(ms) = Len(h) + 1 /\ Len(h) \in Nat /\ ms[Len(h) + 1] = e
      /\ \A j \in 1 .. Len(h) : ms[j] = h[j]
  OBVIOUS
<1> HIDE DEF ms
<1>2. ASSUME NEW j \in 1 .. Len(ms), ms[j].role = "calls", j # c, NEW k \in 1 .. ms[j].n
      PROVE  j + k <= Len(ms) /\ ms[j + k] = ResultOf(ms[j].turn, ms[j].iter, k)
  <2>1. j \in 1 .. Len(h)
    <3>1. j # Len(h) + 1
      BY <1>1, <1>2
    <3> QED BY <1>1, <3>1
  <2>2. ms[j] = h[j] /\ j # 0
    BY <1>1, <2>1
  <2>3. j + k <= Len(h) /\ h[j + k] = ResultOf(h[j].turn, h[j].iter, k)
    BY <1>2, <2>1, <2>2 DEF Whole
  <2>4. j + k \in 1 .. Len(h)
    <3>1. h[j] \in Entry
      BY <2>1
    <3>2. k \in Nat /\ k >= 1
      BY <1>2, <2>2, <3>1 DEF Entry
    <3> QED BY <1>1, <2>1, <2>3, <3>2
  <2> QED BY <1>1, <2>2, <2>3, <2>4
<1>3. ASSUME NEW j \in 3 .. Len(ms), ms[j].role = "tool"
      PROVE  ms[j - 1].role \in {"calls", "tool"}
  <2>1. j # Len(h) + 1
    BY <1>1, <1>3
  <2>2. j \in 3 .. Len(h) /\ j \in 1 .. Len(h) /\ j - 1 \in 1 .. Len(h)
    BY <1>1, <2>1
  <2>3. ms[j] = h[j] /\ ms[j - 1] = h[j - 1]
    BY <1>1, <2>2
  <2> QED BY <1>3, <2>2, <2>3 DEF Whole
<1> QED BY <1>2, <1>3 DEF Whole, ms

\* Calls are recorded.
LEMMA CallsHalf ==
    ASSUME NEW h \in Seq(Entry), Whole(h, 0), NEW t \in Turns, NEW i \in 0 .. Iterations, NEW n \in Nat
    PROVE  Half(h \o <<CallsOf(t, i, n)>>, t, i, n, 0)
<1> DEFINE e == CallsOf(t, i, n)
           ms == h \o <<e>>
<1>1. e \in Entry /\ e.role = "calls"
  BY DEF CallsOf, Message, Entry, Roles
<1>2. Len(ms) = Len(h) + 1 /\ Len(h) \in Nat /\ ms[Len(h) + 1] = e
  <2> HIDE DEF e
  <2> QED BY <1>1
<1>3. Whole(ms, Len(h) + 1)
  <2> HIDE DEF e
  <2>1. Len(h) + 1 \in {0, Len(h) + 1}
    OBVIOUS
  <2> QED BY <1>1, <2>1, WholeGrows
<1> HIDE DEF ms
<1>4. Len(ms) - 0 = Len(h) + 1 /\ Len(h) + 1 \in 1 .. Len(ms) /\ 0 \in 0 .. n
  BY <1>2
<1> QED BY <1>2, <1>3, <1>4 DEF Half, ms

LEMMA MineStarts == ASSUME NEW h \in Seq(Entry), NEW t \in Turns PROVE Mine(h \o <<User(t)>>, t)
<1> DEFINE ms == h \o <<User(t)>>
<1>1. Len(ms) = Len(h) + 1 /\ Len(h) \in Nat /\ ms[Len(h) + 1] = User(t)
  <2> DEFINE e == User(t)
  <2>1. e \in Entry
    BY DEF User, Message, Entry, Roles
  <2> HIDE DEF e
  <2>2. Len(h \o <<e>>) = Len(h) + 1 /\ Len(h) \in Nat /\ (h \o <<e>>)[Len(h) + 1] = e
    BY <2>1
  <2> QED BY <2>2 DEF e
<1> HIDE DEF ms
<1>2. Len(h) + 1 \in 1 .. Len(ms) /\ \A j \in Len(h) + 1 + 1 .. Len(ms) : FALSE
  BY <1>1
<1> QED BY <1>1, <1>2 DEF Mine, ms

LEMMA MineGrows ==
    ASSUME NEW h \in Seq(Entry), NEW q \in Seq(Entry), NEW t \in Turns, Mine(h, t),
           \A k \in 1 .. Len(q) : q[k].turn = t /\ q[k].role \in {"calls", "tool"}
    PROVE  Mine(h \o q, t)
<1> DEFINE ms == h \o q
<1>1. /\ Len(ms) = Len(h) + Len(q) /\ Len(h) \in Nat /\ Len(q) \in Nat
      /\ \A j \in 1 .. Len(h) : ms[j] = h[j]
      /\ \A k \in 1 .. Len(q) : ms[Len(h) + k] = q[k]
  BY JoinIs
<1> HIDE DEF ms
<1>2. PICK i \in 1 .. Len(h) :
         /\ h[i] = User(t)
         /\ \A j \in i + 1 .. Len(h) : h[j].turn = t /\ h[j].role \in {"calls", "tool"}
  BY DEF Mine
<1>3. i \in 1 .. Len(ms) /\ ms[i] = User(t)
  BY <1>1, <1>2
<1>4. ASSUME NEW j \in i + 1 .. Len(ms) PROVE ms[j].turn = t /\ ms[j].role \in {"calls", "tool"}
  <2>1. CASE j <= Len(h)
    <3>1. j \in i + 1 .. Len(h) /\ j \in 1 .. Len(h)
      BY <1>1, <2>1
    <3> QED BY <1>1, <1>2, <3>1
  <2>2. CASE j > Len(h)
    <3>1. j - Len(h) \in 1 .. Len(q) /\ Len(h) + (j - Len(h)) = j
      BY <1>1, <2>2
    <3> QED BY <1>1, <3>1
  <2> QED BY <1>1, <2>1, <2>2
<1> QED BY <1>3, <1>4 DEF Mine, ms

\* trim() cuts no call from its results, and results at most behind the prompt.
LEMMA TrimWhole ==
    ASSUME NEW h \in Seq(Entry), Prompted(h), Whole(h, 0)
    PROVE  Whole(Trim(h), 0)
<1>1. CASE Len(h) <= MaxMessages
  BY <1>1 DEF Trim
<1>2. CASE Len(h) > MaxMessages
  <2> DEFINE ms == Trim(h)
             d == Len(h) - MaxMessages
  <2>1. Len(h) \in Nat /\ MaxMessages \in Nat \ {0, 1} /\ d \in Nat \ {0}
    BY <1>2
  <2>2. /\ Len(ms) = MaxMessages /\ Len(h) = Len(ms) + d
        /\ ms[1] = h[1] /\ \A j \in 2 .. Len(ms) : ms[j] = h[j + d]
    <3> DEFINE tail == SubSeq(h, d + 2, Len(h))
    <3>1. Head(h) = h[1] /\ h[1] \in Entry /\ h[1].role = "prompt" /\ Len(<<Head(h)>>) = 1
      BY <2>1 DEF Prompted
    <3>2. Trim(h) = <<Head(h)>> \o tail
      <4>1. Head(h).role = "prompt" /\ ~(Len(h) <= MaxMessages)
        BY <1>2, <2>1, <3>1
      <4>2. Trim(h) = <<Head(h)>> \o SubSeq(h, Len(h) - (MaxMessages - Len(<<Head(h)>>)) + 1, Len(h))
        BY <4>1, Zenon DEF Trim
      <4>3. Len(h) - (MaxMessages - 1) + 1 = d + 2
        BY <2>1
      <4> QED BY <3>1, <4>2, <4>3
    <3>3. /\ tail \in Seq(Entry) /\ Len(tail) = MaxMessages - 1
          /\ \A i \in 1 .. MaxMessages - 1 : tail[i] = h[d + 2 + i - 1]
      <4> DEFINE a == d + 2
                 n == Len(h)
      <4>1. a \in Int /\ n \in Int /\ a <= n /\ n - a + 1 = MaxMessages - 1 /\ a >= 1
        BY <2>1
      <4>2. \A i \in a .. n : h[i] \in Entry
        BY <4>1
      <4> HIDE DEF a, n
      <4>3. /\ SubSeq(h, a, n) \in Seq(Entry) /\ Len(SubSeq(h, a, n)) = n - a + 1
            /\ \A i \in 1 .. n - a + 1 : SubSeq(h, a, n)[i] = h[a + i - 1]
        BY <4>1, <4>2, SubSeqProperties
      <4> QED BY <4>1, <4>3 DEF a, n
    <3> DEFINE p == <<Head(h)>>
    <3>4. p \in Seq(Entry) /\ Len(p) = 1 /\ p[1] = h[1]
      BY <3>1
    <3> HIDE DEF tail, p, d
    <3>5. /\ Len(p \o tail) = 1 + (MaxMessages - 1) /\ (p \o tail)[1] = h[1]
          /\ \A k \in 1 .. MaxMessages - 1 : (p \o tail)[1 + k] = tail[k]
      <4>1. 1 \in 1 .. Len(p)
        BY <3>4
      <4>2. /\ Len(p \o tail) = Len(p) + Len(tail)
            /\ \A i \in 1 .. Len(p) : (p \o tail)[i] = p[i]
            /\ \A k \in 1 .. Len(tail) : (p \o tail)[Len(p) + k] = tail[k]
        BY <3>3, <3>4, JoinIs
      <4> QED BY <3>3, <3>4, <4>1, <4>2
    <3>6. ms = p \o tail
      BY <3>2 DEF p
    <3>7. Len(ms) = MaxMessages /\ Len(h) = MaxMessages + d
      BY <2>1, <3>5, <3>6 DEF d
    <3>8. ASSUME NEW j \in 2 .. Len(ms) PROVE ms[j] = h[j + d]
      <4>1. j - 1 \in 1 .. MaxMessages - 1 /\ 1 + (j - 1) = j /\ d + 2 + (j - 1) - 1 = j + d
        BY <2>1, <3>7
      <4>2. (p \o tail)[1 + (j - 1)] = tail[j - 1] /\ tail[j - 1] = h[d + 2 + (j - 1) - 1]
        BY <3>3, <3>5, <4>1
      <4> QED BY <3>6, <4>1, <4>2
    <3> QED BY <3>5, <3>6, <3>7, <3>8
  <2> HIDE DEF ms, d
  <2>3. ASSUME NEW j \in 1 .. Len(ms), ms[j].role = "calls", NEW k \in 1 .. ms[j].n
        PROVE  j + k <= Len(ms) /\ ms[j + k] = ResultOf(ms[j].turn, ms[j].iter, k)
    <3>1. j # 1
      <4>1. h[1].role = "prompt"
        BY <2>1, <2>2 DEF Prompted
      <4> QED BY <2>2, <2>3, <4>1
    <3>2. j \in 2 .. Len(ms) /\ ms[j] = h[j + d] /\ j + d \in 1 .. Len(h) /\ j + d # 0
      BY <2>1, <2>2, <3>1
    <3>3. (j + d) + k <= Len(h) /\ h[(j + d) + k] = ResultOf(ms[j].turn, ms[j].iter, k)
      BY <2>3, <3>2 DEF Whole
    <3>4. k \in Nat /\ k >= 1
      <4>1. h[j + d] \in Entry
        BY <3>2
      <4> QED BY <2>3, <3>2, <4>1 DEF Entry
    <3>5. j + k \in 2 .. Len(ms) /\ (j + d) + k = (j + k) + d
      BY <2>1, <2>2, <3>2, <3>3, <3>4
    <3> QED BY <2>2, <3>3, <3>5
  <2>4. ASSUME NEW j \in 3 .. Len(ms), ms[j].role = "tool"
        PROVE  ms[j - 1].role \in {"calls", "tool"}
    <3>1. j \in 2 .. Len(ms) /\ j - 1 \in 2 .. Len(ms) /\ j + d \in 3 .. Len(h) /\ (j - 1) + d = (j + d) - 1
      BY <2>1, <2>2
    <3>2. ms[j] = h[j + d] /\ ms[j - 1] = h[(j + d) - 1]
      BY <2>2, <3>1
    <3> QED BY <2>4, <3>1, <3>2 DEF Whole
  <2> QED BY <2>3, <2>4 DEF Whole, ms
<1> QED BY <1>1, <1>2

----------------------------------------------------------------------------
(* What a step does to the histories *)

\* A step of turn t within its session.
LEMMA TurnFits ==
    ASSUME AgentInv, FitInv, NEW t \in Active, NEW ms \in Seq(Entry), NEW p \in Places, NEW f \in Frames,
           pc' = [pc EXCEPT ![t] = p], frame' = [frame EXCEPT ![t] = f], UNCHANGED <<session, torn>>,
           messages' = [messages EXCEPT ![session[t]] = ms],
           session[t] \notin torn => FitAs(ms, t, p, f), p = "tool" => f.returned < f.calls
    PROVE  FitInv'
<1> DEFINE s == session[t]
<1>1. t \in Turns /\ s \in Sessions
  BY TurnTypes DEF Active, Framed, Ended
<1>2. /\ pc'[t] = p /\ frame'[t] = f /\ messages'[s] = ms
      /\ \A u \in Turns \ {t} : pc'[u] = pc[u] /\ frame'[u] = frame[u]
      /\ \A r \in Sessions \ {s} : messages'[r] = messages[r]
  BY <1>1 DEF AgentInv, TypeOK
<1>3. Active' \subseteq Active /\ \A u \in Turns \ {t} : u \in Active <=> u \in Active'
  BY <1>1, <1>2 DEF Active
<1>4. Alone'
  BY <1>3 DEF FitInv, Alone
<1>5. ASSUME NEW u \in Turns PROVE Fit(u)'
  <2>1. CASE u = t
    BY <1>2, <2>1 DEF Fit
  <2>2. CASE u # t /\ u \in Active /\ session[u] \notin torn
    <3>1. session[u] # s
      BY <2>2 DEF FitInv, Alone
    <3>2. session[u] \in Sessions
      BY <2>2, TurnTypes DEF Active, Framed, Ended
    <3>3. Fit(u) /\ messages'[session[u]] = messages[session[u]]
      BY <1>2, <3>1, <3>2 DEF FitInv
    <3> QED BY <1>2, <1>3, <2>2, <3>3 DEF Fit
  <2>3. CASE u # t /\ ~(u \in Active /\ session[u] \notin torn)
    BY <1>2, <1>3, <2>3 DEF FitInv, Fit
  <2> QED BY <2>1, <2>2, <2>3
<1>6. ASSUME NEW r \in Sessions PROVE Rest(r)'
  <2>1. CASE r # s
    <3>1. (\A u \in Active' : session[u] # r) => \A u \in Active : session[u] # r
      BY <1>1, <1>3, <2>1 DEF Active
    <3> QED BY <1>2, <2>1, <3>1 DEF FitInv, Rest
  <2>2. CASE r = s
    <3>1. SUFFICES ASSUME t \notin Active', s \notin torn PROVE Whole(ms, 0)
      BY <1>2, <2>2 DEF Rest
    <3>2. p \in Ended
      BY <1>1, <1>2, <3>1 DEF Active
    <3> QED BY <3>1, <3>2 DEF FitAs, Ended
  <2> QED BY <2>1, <2>2
<1> QED BY <1>4, <1>5, <1>6 DEF FitInv

LEMMA ResultsAre ==
    ASSUME NEW t \in Turns, NEW i \in 0 .. Iterations, frame[t].iter = i,
           NEW from \in Nat, NEW n \in Nat, from <= n
    PROVE  /\ Results(t, from + 1, n) \in Seq(Entry) /\ Len(Results(t, from + 1, n)) = n - from
           /\ \A k \in 1 .. n - from : Results(t, from + 1, n)[k] = ResultOf(t, i, from + k)
<1>1. n - (from + 1) + 1 = n - from /\ n - from \in Nat
  OBVIOUS
<1>2. ASSUME NEW k \in 1 .. n - from
      PROVE  ResultOf(t, i, from + 1 + k - 1) = ResultOf(t, i, from + k) /\ ResultOf(t, i, from + k) \in Entry
  <2>1. from + 1 + k - 1 = from + k /\ from + k \in Nat
    BY <1>1
  <2> QED BY <2>1 DEF ResultOf, Message, Entry, Roles
<1>3. Results(t, from + 1, n) = [k \in 1 .. n - from |-> ResultOf(t, i, from + k)]
  BY <1>1, <1>2 DEF Results
<1>4. [k \in 1 .. n - from |-> ResultOf(t, i, from + k)] \in [1 .. n - from -> Entry]
  BY <1>2
<1> DEFINE m == n - from
           q == [k \in 1 .. m |-> ResultOf(t, i, from + k)]
<1>5. q \in Seq(Entry) /\ Len(q) = m /\ \A k \in 1 .. m : q[k] = ResultOf(t, i, from + k)
  <2>1. m \in Nat /\ q \in [1 .. m -> Entry] /\ \A k \in 1 .. m : q[k] = ResultOf(t, i, from + k)
    BY <1>1, <1>4
  <2> HIDE DEF q, m
  <2> QED BY <2>1
<1> QED BY <1>3, <1>5

\* The turn has its reply.
LEMMA FinishesFits ==
    ASSUME AgentInv, FitInv, NEW t \in Active, NEW more \in Seq(Entry),
           session[t] \notin torn => Whole(messages[session[t]] \o more, 0),
           Finishes(t, more), UNCHANGED <<session, torn>>
    PROVE  FitInv'
<1> DEFINE s == session[t]
           h == messages[s] \o more
           e == Reply(t)
<1>1. t \in Turns /\ s \in Sessions /\ messages[s] \in Seq(Entry) /\ frame[t] \in Frames
      /\ frame = [frame EXCEPT ![t] = frame[t]]
  BY TurnTypes DEF Active, Framed, Ended
<1>2. e \in Entry /\ e.role # "tool" /\ e.role # "calls"
  BY <1>1 DEF Reply, Message, Entry, Roles
<1>3. /\ pc' = [pc EXCEPT ![t] = "finish"] /\ frame' = [frame EXCEPT ![t] = frame[t]]
      /\ messages' = [messages EXCEPT ![s] = messages[s] \o (more \o <<e>>)]
  BY <1>1 DEF Finishes, Goes, Said
<1> HIDE DEF e
<1>4. h \in Seq(Entry) /\ <<e>> \in Seq(Entry) /\ messages[s] \o (more \o <<e>>) = h \o <<e>>
  <2>1. h \in Seq(Entry)
    BY <1>1, JoinIs
  <2>2. <<e>> \in Seq(Entry)
    BY <1>2
  <2>4. (messages[s] \o more) \o <<e>> = messages[s] \o (more \o <<e>>)
    <3>1. messages[s] \in Seq(Entry) /\ more \in Seq(Entry) /\ <<e>> \in Seq(Entry)
      BY <1>1, <2>2
    <3> DEFINE old == messages[s]
               last == <<e>>
    <3> HIDE DEF old, last
    <3>2. old \in Seq(Entry) /\ more \in Seq(Entry) /\ last \in Seq(Entry)
      BY <3>1 DEF old, last
    <3>3. (old \o more) \o last = old \o (more \o last)
      BY <3>2, JoinAssociative
    <3> QED BY <3>3, Zenon DEF old, last
  <2> HIDE DEF h
  <2>5. messages[s] \o (more \o <<e>>) = h \o <<e>>
    BY <2>4, Zenon DEF h
  <2> QED BY <2>1, <2>2, <2>5
<1>5. h \o <<e>> \in Seq(Entry)
  BY <1>4, JoinIs
<1>6. s \notin torn => Whole(h \o <<e>>, 0)
  <2>1. 0 \in {0, Len(h) + 1}
    OBVIOUS
  <2> HIDE DEF h
  <2> QED BY <1>2, <1>4, <2>1, WholeGrows DEF h
<1> HIDE DEF h
<1>7. s \notin torn => FitAs(h \o <<e>>, t, "finish", frame[t])
  BY <1>6 DEF FitAs
<1>8. "finish" \in Places
  BY DEF Places
<1> QED BY <1>1, <1>3, <1>4, <1>5, <1>7, <1>8, TurnFits

\* The calls of an iteration, from call `from' on, after the messages `more'.
LEMMA ProceedFits ==
    ASSUME AgentInv, FitInv, NEW t \in Active, NEW i \in 1 .. Iterations, frame[t].iter = i,
           NEW k \in CallCounts, NEW from \in 0 .. k, NEW more \in Seq(Entry),
           session[t] \notin torn => /\ Mine(messages[session[t]] \o more, t)
                                     /\ Half(messages[session[t]] \o more, t, i, k, from),
           Proceed(t, k, from, more), UNCHANGED <<session, torn>>
    PROVE  FitInv'
<1> DEFINE s == session[t]
           h == messages[s] \o more
           R(n) == Results(t, from + 1, n)
<1>1. t \in Turns /\ s \in Sessions /\ messages[s] \in Seq(Entry) /\ frame[t] \in Frames /\ k \in Nat /\ from \in Nat
  BY TurnTypes DEF Active, Framed, Ended
<1>2. h \in Seq(Entry)
  BY <1>1, JoinIs
<1>3. ASSUME NEW n \in Nat, from <= n, n <= k
      PROVE  /\ more \o R(n) \in Seq(Entry) /\ messages[s] \o (more \o R(n)) = h \o R(n) /\ h \o R(n) \in Seq(Entry)
             /\ s \notin torn => Mine(h \o R(n), t) /\ Half(h \o R(n), t, i, k, n)
  <2>1. i \in 0 .. Iterations
    OBVIOUS
  <2>2. /\ R(n) \in Seq(Entry) /\ Len(R(n)) = n - from
        /\ \A j \in 1 .. n - from : R(n)[j] = ResultOf(t, i, from + j)
    BY <1>1, <1>3, <2>1, ResultsAre
  <2> DEFINE q == R(n)
  <2> HIDE DEF q, R
  <2>3. more \o q \in Seq(Entry) /\ messages[s] \o (more \o q) = h \o q
    <3>1. q \in Seq(Entry)
      BY <2>2 DEF q
    <3>2. more \o q \in Seq(Entry)
      BY <3>1, JoinIs
    <3>4. (messages[s] \o more) \o q = messages[s] \o (more \o q)
      <4>1. messages[s] \in Seq(Entry) /\ more \in Seq(Entry) /\ q \in Seq(Entry)
        BY <1>1, <3>1
      <4> DEFINE old == messages[s]
      <4> HIDE DEF old
      <4>2. old \in Seq(Entry) /\ more \in Seq(Entry) /\ q \in Seq(Entry)
        BY <4>1, Zenon DEF old
      <4>3. \A x, z \in Seq(Entry) : (x \o more) \o z = x \o (more \o z)
        BY JoinAssociative
      <4>4. (old \o more) \o q = old \o (more \o q)
        BY <4>2, <4>3, Zenon
      <4> QED BY <4>4, Zenon DEF old
    <3> QED BY <3>2, <3>4, Zenon
  <2>4. h \o q \in Seq(Entry)
    BY <1>2, <2>2, JoinIs DEF q
  <2> HIDE DEF h
  <2>5. ASSUME s \notin torn PROVE Half(h \o q, t, i, k, n)
    <3>1. Half(h, t, i, k, from)
      BY <2>5 DEF h
    <3>2. q \in Seq(Entry) /\ Len(q) = n - from /\ \A j \in 1 .. n - from : q[j] = ResultOf(t, i, from + j)
      BY <2>2 DEF q
    <3> QED BY <1>1, <1>2, <1>3, <3>1, <3>2, HalfGrows
  <2>6. ASSUME s \notin torn PROVE Mine(h \o q, t)
    <3>1. Mine(h, t)
      BY <2>6 DEF h
    <3>2. \A j \in 1 .. Len(q) : q[j].turn = t /\ q[j].role \in {"calls", "tool"}
      <4>1. Len(q) = n - from /\ \A j \in 1 .. n - from : q[j] = ResultOf(t, i, from + j)
        BY <2>2 DEF q
      <4> QED BY <4>1, ResultIs
    <3> QED BY <1>1, <1>2, <2>2, <3>1, <3>2, MineGrows DEF q
  <2> QED BY <2>3, <2>4, <2>5, <2>6 DEF q
<1>4. CASE EndIteration(t, more \o R(k))
  <2>1. /\ more \o R(k) \in Seq(Entry) /\ messages[s] \o (more \o R(k)) = h \o R(k) /\ h \o R(k) \in Seq(Entry)
        /\ s \notin torn => Mine(h \o R(k), t) /\ Half(h \o R(k), t, i, k, k)
    <3>1. from <= k /\ k <= k
      BY <1>1
    <3> HIDE DEF h, R
    <3> QED BY <1>1, <1>3, <3>1
  <2> DEFINE ms == h \o R(k)
             me == more \o R(k)
  <2> HIDE DEF R, ms, me
  <2>2. s \notin torn => Whole(ms, 0)
    BY <1>1, <2>1, HalfDone DEF ms
  <2>3. CASE Finishes(t, me)
    <3>1. me \in Seq(Entry) /\ (s \notin torn => Whole(messages[s] \o me, 0))
      BY <2>1, <2>2 DEF ms, me
    <3> QED BY <2>3, <3>1, FinishesFits
  <2>4. CASE frame[t].iter < Iterations /\ AsksAgain(t, me)
    <3> DEFINE f == [frame[t] EXCEPT !.iter = @ + 1]
    <3>1. f \in Frames
      <4>1. i + 1 \in 0 .. Iterations
        BY <2>4
      <4> QED BY <1>1, <4>1 DEF Frames
    <3>2. /\ messages' = [messages EXCEPT ![s] = ms] /\ pc' = [pc EXCEPT ![t] = "llm"]
          /\ frame' = [frame EXCEPT ![t] = f]
      BY <2>1, <2>4 DEF AsksAgain, Said, Goes, ms, me
    <3> HIDE DEF f
    <3>3. s \notin torn => FitAs(ms, t, "llm", f)
      BY <2>1, <2>2 DEF FitAs, ms
    <3>4. "llm" \in Places /\ ms \in Seq(Entry)
      BY <2>1 DEF Places, ms
    <3> QED BY <3>1, <3>2, <3>3, <3>4, TurnFits
  <2> QED BY <1>4, <2>3, <2>4 DEF EndIteration, me
<1>5. ASSUME NEW n \in from .. k - 1, AwaitsTool(t, k, n, more \o R(n)) PROVE FitInv'
  <2> DEFINE f == [frame[t] EXCEPT !.calls = k, !.returned = n]
             ms == h \o R(n)
  <2>1. n \in Nat /\ from <= n /\ n <= k /\ n < k
    BY <1>1
  <2>2. /\ messages[s] \o (more \o R(n)) = ms /\ ms \in Seq(Entry)
        /\ s \notin torn => Mine(ms, t) /\ Half(ms, t, i, k, n)
    BY <1>3, <2>1
  <2>3. f \in Frames /\ f.iter = i /\ f.calls = k /\ f.returned = n
    BY <1>1, <2>1 DEF Frames
  <2>4. /\ messages' = [messages EXCEPT ![s] = ms] /\ pc' = [pc EXCEPT ![t] = "tool"]
        /\ frame' = [frame EXCEPT ![t] = f]
    <3> HIDE DEF ms
    <3>1. frame' = [frame EXCEPT ![t] = f]
      BY <1>1, <1>5 DEF AwaitsTool, AgentInv, TypeOK
    <3> QED BY <1>5, <2>2, <3>1 DEF AwaitsTool, Said, Goes
  <2> HIDE DEF f, ms, R, h
  <2>5. s \notin torn => FitAs(ms, t, "tool", f)
    BY <2>1, <2>2, <2>3 DEF FitAs
  <2>6. "tool" \in Places
    BY DEF Places
  <2>7. f.returned < f.calls
    BY <2>1, <2>3
  <2> QED BY <2>2, <2>3, <2>4, <2>5, <2>6, <2>7, TurnFits
<1> QED BY <1>4, <1>5 DEF Proceed

\* What the model answered is acted on.
LEMMA ActsFits ==
    ASSUME AgentInv, FitInv, NEW t \in Active, pc[t] \in {"llm", "added"},
           NEW k \in CallCounts \cup {0}, Acts(t, k), UNCHANGED <<session, torn>>
    PROVE  FitInv'
<1> DEFINE s == session[t]
           h == messages[s]
           i == frame[t].iter
<1>1. /\ t \in Turns /\ s \in Sessions /\ h \in Seq(Entry) /\ i \in 1 .. Iterations
      /\ s \notin torn => Mine(h, t) /\ Whole(h, 0)
  <2>1. t \in Turns
    BY DEF Active
  <2>2. Framed(t) /\ frame[t] \in Frames
    BY <2>1, TurnTypes
  <2>3. s \in Sessions /\ i >= 1
    BY <2>2 DEF Framed
  <2>4. i \in 1 .. Iterations
    BY <2>2, <2>3, FrameFields
  <2>5. s \notin torn => Mine(h, t) /\ Whole(h, 0)
    BY <2>1 DEF FitInv, Fit, FitAs
  <2> QED BY <2>1, <2>3, <2>4, <2>5, TurnTypes
<1>2. CASE k = 0
  <2>1. <<>> \in Seq(Entry) /\ h \o <<>> = h /\ Finishes(t, <<>>)
    BY <1>1, <1>2, ConcatEmptySeq DEF Acts
  <2> QED BY <1>1, <2>1, FinishesFits
<1>3. CASE k # 0
  <2> DEFINE e == CallsOf(t, i, k)
  <2>1. k \in Nat /\ k \in CallCounts /\ 0 \in 0 .. k /\ i \in 0 .. Iterations /\ Proceed(t, k, 0, <<e>>)
    <3>1. k \in Nat /\ k \in CallCounts /\ Proceed(t, k, 0, <<e>>)
      BY <1>3 DEF Acts
    <3> HIDE DEF i
    <3> QED BY <1>1, <3>1
  <2>2. e \in Entry /\ e.turn = t /\ e.role = "calls"
    BY <1>1, <2>1 DEF CallsOf, Message, Entry, Roles
  <2>3. s \notin torn => Half(h \o <<e>>, t, i, k, 0)
    BY <1>1, <2>1, CallsHalf
  <2> HIDE DEF e
  <2>4. s \notin torn => Mine(h \o <<e>>, t)
    <3>1. <<e>> \in Seq(Entry) /\ \A j \in 1 .. Len(<<e>>) : <<e>>[j].turn = t /\ <<e>>[j].role \in {"calls", "tool"}
      BY <2>2
    <3> QED BY <1>1, <3>1, MineGrows
  <2>5. <<e>> \in Seq(Entry)
    BY <2>2
  <2> HIDE DEF h, i
  <2> QED BY <1>1, <2>1, <2>3, <2>4, <2>5, ProceedFits DEF h, i
<1> QED BY <1>2, <1>3

\* The handler trims.
LEMMA ReturnsFits ==
    ASSUME AgentInv, FitInv, NEW t \in Active, pc[t] \in {"begin", "finish"}, Returns(t)
    PROVE  FitInv'
<1> DEFINE s == session[t]
           ms == Trim(messages[s])
<1>1. t \in Turns /\ s \in Sessions /\ messages[s] \in Seq(Entry) /\ Prompted(messages[s])
  BY TurnTypes DEF Active, Framed, Ended
<1>2. ms \in Seq(Entry)
  BY <1>1, TrimKeepsPrompt
<1>3. s \notin torn => Whole(ms, 0)
  <2>1. s \notin torn => Whole(messages[s], 0)
    BY <1>1 DEF FitInv, Fit, FitAs
  <2> QED BY <1>1, <2>1, TrimWhole
<1>4. /\ messages' = [messages EXCEPT ![s] = ms] /\ pc' = [pc EXCEPT ![t] = "done"]
      /\ frame' = [frame EXCEPT ![t] = NoFrame] /\ UNCHANGED <<session, torn>>
  BY <1>1 DEF Returns, Goes, AgentInv, TypeOK
<1> HIDE DEF ms
<1>5. NoFrame \in Frames /\ "done" \in Places
  <2>1. 0 \in 0 .. MaxTokens
    BY CostGrows
  <2> QED BY <2>1 DEF NoFrame, Frames, Places, Ended
<1>6. s \notin torn => FitAs(ms, t, "done", NoFrame)
  BY <1>3 DEF FitAs
<1> QED BY <1>2, <1>4, <1>5, <1>6, TurnFits

\* A turn up to its first iteration.
LEMMA BeginningFits ==
    ASSUME AgentInv, FitInv, NEW t \in Turns, ReadBudget(t) \/ Begin(t) \/ Upserted(t) \/ Opens(t)
    PROVE  FitInv'
<1> DEFINE s == session[t]
           h == messages[s]
<1>1. t \in Active /\ s \in Sessions /\ h \in Seq(Entry) /\ frame[t] \in Frames
      /\ messages = [messages EXCEPT ![s] = h] /\ frame = [frame EXCEPT ![t] = frame[t]]
  <2>1. pc[t] \in {"budget", "begin", "upsert", "user"}
    BY DEF ReadBudget, Begin, Upserted, Opens
  <2>2. t \in Active /\ s \in Sessions
    BY <2>1, TurnTypes DEF Active, Framed, Ended
  <2> QED BY <2>2, TurnTypes
<1>2. s \notin torn => Whole(h, 0)
  <2>1. pc[t] # "tool"
    BY DEF ReadBudget, Begin, Upserted, Opens
  <2> QED BY <1>1, <2>1 DEF FitInv, Fit, FitAs
<1>3. CASE ReadBudget(t)
  <2> DEFINE f == [frame[t] EXCEPT !.used = spent]
  <2>1. /\ pc' = [pc EXCEPT ![t] = "begin"] /\ frame' = [frame EXCEPT ![t] = f]
        /\ messages' = [messages EXCEPT ![s] = h] /\ UNCHANGED <<session, torn>>
    BY <1>1, <1>3 DEF ReadBudget, Goes, AgentInv, TypeOK
  <2>2. f \in Frames /\ "begin" \in Places
    BY <1>1, TurnTypes DEF Frames, Places
  <2> HIDE DEF f, h
  <2>3. s \notin torn => FitAs(h, t, "begin", f)
    BY <1>2 DEF FitAs
  <2> QED BY <1>1, <2>1, <2>2, <2>3, TurnFits
<1>4. CASE Begin(t) /\ h = <<>>
  <2> DEFINE e == Prompt(t)
             ms == h \o <<e>>
  <2>1. /\ messages' = [messages EXCEPT ![s] = ms] /\ pc' = [pc EXCEPT ![t] = "upsert"]
        /\ frame' = [frame EXCEPT ![t] = frame[t]] /\ UNCHANGED <<session, torn>>
    BY <1>1, <1>4 DEF Begin, Said, Goes
  <2>2. e \in Entry /\ e.role # "tool" /\ e.role # "calls" /\ "upsert" \in Places
    BY DEF Prompt, Message, Entry, Roles, Places
  <2> HIDE DEF e, h
  <2>3. ms \in Seq(Entry) /\ (s \notin torn => Whole(ms, 0))
    <3>1. 0 \in {0, Len(h) + 1} /\ <<e>> \in Seq(Entry)
      BY <2>2
    <3> QED BY <1>1, <1>2, <2>2, <3>1, JoinIs, WholeGrows
  <2> HIDE DEF ms
  <2>4. s \notin torn => FitAs(ms, t, "upsert", frame[t])
    BY <2>3 DEF FitAs
  <2> QED BY <1>1, <2>1, <2>2, <2>3, <2>4, TurnFits
<1>5. CASE (Begin(t) /\ h # <<>>) \/ Upserted(t)
  <2>1. /\ messages' = [messages EXCEPT ![s] = h] /\ pc' = [pc EXCEPT ![t] = "user"]
        /\ frame' = [frame EXCEPT ![t] = frame[t]] /\ UNCHANGED <<session, torn>>
    <3>1. CASE Begin(t) /\ h # <<>>
      BY <1>1, <3>1 DEF Begin, Goes
    <3>2. CASE Upserted(t)
      BY <1>1, <3>2 DEF Upserted, Goes
    <3> QED BY <1>5, <3>1, <3>2
  <2> HIDE DEF h
  <2>2. s \notin torn => FitAs(h, t, "user", frame[t])
    BY <1>2 DEF FitAs
  <2>3. "user" \in Places
    BY DEF Places
  <2> QED BY <1>1, <2>1, <2>2, <2>3, TurnFits
<1>6. CASE Opens(t)
  <2>0. PICK note \in {<<>>, <<Note(t)>>} : messages' = Said(t, note \o <<User(t)>>)
    BY <1>6 DEF Opens
  <2> DEFINE e == User(t)
             g == h \o note
             ms == g \o <<e>>
             f == [frame[t] EXCEPT !.iter = 1]
  <2>g. g \in Seq(Entry) /\ (s \notin torn => Whole(g, 0))
    <3>1. CASE note = <<>>
      <4>1. g = h
        BY <1>1, <3>1, ConcatEmptySeq
      <4> QED BY <1>1, <1>2, <4>1
    <3>2. CASE note = <<Note(t)>>
      <4> DEFINE d == Note(t)
      <4>1. d \in Entry /\ d.role # "tool" /\ d.role # "calls"
        BY DEF Note, Message, Entry, Roles
      <4> HIDE DEF d, h
      <4>2. 0 \in {0, Len(h) + 1} /\ <<d>> \in Seq(Entry)
        BY <4>1
      <4> QED BY <1>1, <1>2, <3>2, <4>1, <4>2, JoinIs, WholeGrows DEF d
    <3> QED BY <2>0, <3>1, <3>2
  <2>1. /\ messages' = [messages EXCEPT ![s] = ms] /\ pc' = [pc EXCEPT ![t] = "llm"]
        /\ frame' = [frame EXCEPT ![t] = f] /\ UNCHANGED <<session, torn>>
    <3>1. h \o (note \o <<e>>) = ms
      <4>1. note \in Seq(Entry) /\ <<e>> \in Seq(Entry)
        BY QuestionIs
      <4> HIDE DEF e, h
      <4> QED BY <1>1, <4>1, JoinAssociative
    <3>2. messages' = [messages EXCEPT ![s] = h \o (note \o <<e>>)]
      BY <2>0 DEF Said
    <3> HIDE DEF h, ms, e
    <3> QED BY <1>6, <3>1, <3>2 DEF Opens, Goes, AgentInv, TypeOK
  <2>2. f \in Frames
    <3>1. 1 \in 0 .. Iterations
      OBVIOUS
    <3> QED BY <1>1, <3>1 DEF Frames
  <2>3. e \in Entry /\ e.role # "tool" /\ e.role # "calls" /\ "llm" \in Places
    BY DEF User, Message, Entry, Roles, Places
  <2> HIDE DEF h, f, g
  <2>4. Mine(ms, t)
    BY <2>g, MineStarts
  <2> HIDE DEF e
  <2>5. ms \in Seq(Entry) /\ (s \notin torn => Whole(ms, 0))
    <3>1. 0 \in {0, Len(g) + 1} /\ <<e>> \in Seq(Entry)
      BY <2>3
    <3> QED BY <2>3, <2>g, <3>1, JoinIs, WholeGrows
  <2> HIDE DEF ms
  <2>6. s \notin torn => FitAs(ms, t, "llm", f)
    BY <2>4, <2>5 DEF FitAs
  <2> QED BY <1>1, <2>1, <2>2, <2>3, <2>5, <2>6, TurnFits
<1> QED BY <1>3, <1>4, <1>5, <1>6 DEF Begin

\* The answer of the model, and the tools it calls.
LEMMA IterationFits ==
    ASSUME AgentInv, FitInv, NEW t \in Turns, NEW k \in CallCounts \cup {0},
           \/ LlmFails(t) \/ LlmAnswers(t, k) \/ \E d \in 1 .. MaxDelta : LlmReports(t, k, d)
           \/ AddTokens(t) \/ TokensAdded(t) \/ ToolReturns(t)
    PROVE  FitInv'
<1> DEFINE s == session[t]
           h == messages[s]
<1>1. pc[t] \in {"llm", "tokens", "added", "tool"}
  BY DEF LlmFails, LlmAnswers, LlmReports, AddTokens, TokensAdded, ToolReturns
<1>2. t \in Active /\ s \in Sessions /\ h \in Seq(Entry) /\ frame[t] \in Frames /\ frame[t].iter >= 1
      /\ messages = [messages EXCEPT ![s] = h] /\ frame = [frame EXCEPT ![t] = frame[t]]
  <2>1. t \in Active /\ s \in Sessions /\ frame[t].iter >= 1
    BY <1>1, TurnTypes DEF Active, Framed, Ended
  <2> QED BY <2>1, TurnTypes
<1>3. s \notin torn => /\ Mine(h, t)
                       /\ pc[t] # "tool" => Whole(h, 0)
  BY <1>1, <1>2 DEF FitInv, Fit, FitAs
<1>4. CASE LlmFails(t)
  <2>1. <<>> \in Seq(Entry) /\ h \o <<>> = h /\ pc[t] # "tool" /\ Finishes(t, <<>>) /\ UNCHANGED <<session, torn>>
    BY <1>2, <1>4, ConcatEmptySeq DEF LlmFails
  <2> QED BY <1>2, <1>3, <2>1, FinishesFits
<1>5. CASE LlmAnswers(t, k)
  BY <1>2, <1>5, ActsFits DEF LlmAnswers
<1>6. ASSUME NEW d \in 1 .. MaxDelta, LlmReports(t, k, d) PROVE FitInv'
  <2> DEFINE f == [frame[t] EXCEPT !.tokens = @ + d, !.delta = d, !.calls = k]
  <2>1. /\ messages' = [messages EXCEPT ![s] = h] /\ pc' = [pc EXCEPT ![t] = "tokens"]
        /\ frame' = [frame EXCEPT ![t] = f] /\ UNCHANGED <<session, torn>> /\ pc[t] # "tool"
    BY <1>2, <1>6 DEF LlmReports, Goes, AgentInv, TypeOK
  <2>2. f \in Frames
    <3>1. AgentInv'
      BY <1>6, AnswerInv
    <3>2. frame'[t] = f /\ frame'[t] \in Frames
      BY <2>1, <3>1 DEF AgentInv, TypeOK, Frames
    <3> QED BY <3>2
  <2> HIDE DEF f, h
  <2>3. s \notin torn => FitAs(h, t, "tokens", f)
    BY <1>3, <2>1 DEF FitAs
  <2>4. "tokens" \in Places
    BY DEF Places
  <2> QED BY <1>2, <2>1, <2>2, <2>3, <2>4, TurnFits
<1>7. CASE AddTokens(t)
  <2>1. /\ messages' = [messages EXCEPT ![s] = h] /\ pc' = [pc EXCEPT ![t] = "added"]
        /\ frame' = [frame EXCEPT ![t] = frame[t]] /\ UNCHANGED <<session, torn>> /\ pc[t] # "tool"
    BY <1>2, <1>7 DEF AddTokens, Goes
  <2> HIDE DEF h
  <2>2. s \notin torn => FitAs(h, t, "added", frame[t])
    BY <1>3, <2>1 DEF FitAs
  <2>3. "added" \in Places
    BY DEF Places
  <2> QED BY <1>2, <2>1, <2>2, <2>3, TurnFits
<1>8. CASE TokensAdded(t)
  <2>1. frame[t].calls \in CallCounts \cup {0}
    BY <1>2 DEF Frames
  <2> QED BY <1>2, <1>8, <2>1, ActsFits DEF TokensAdded
<1>9. CASE ToolReturns(t)
  <2> DEFINE i == frame[t].iter
             n == frame[t].calls
             r == frame[t].returned
             q == Results(t, r + 1, r + 1)
  <2>1. i \in 0 .. Iterations /\ i \in 1 .. Iterations /\ n \in CallCounts \cup {0} /\ n \in Nat /\ r \in Nat
    <3>1. i \in 0 .. Iterations /\ n \in CallCounts \cup {0} /\ r \in Nat
      BY <1>2 DEF Frames
    <3> QED BY <1>2, <3>1
  <2>2. /\ s \notin torn => Half(h, t, i, n, r)
        /\ r < n /\ Proceed(t, n, r + 1, q) /\ UNCHANGED <<session, torn>>
    BY <1>2, <1>9 DEF ToolReturns, FitInv, Fit, FitAs
  <2>3. n \in CallCounts /\ r + 1 \in Nat /\ r <= r + 1 /\ r + 1 <= n /\ r + 1 \in 0 .. n /\ (r + 1) - r = 1
    BY <2>1, <2>2
  <2>4. q \in Seq(Entry) /\ Len(q) = (r + 1) - r /\ \A k2 \in 1 .. (r + 1) - r : q[k2] = ResultOf(t, i, r + k2)
    <3>1. frame[t].iter = i
      OBVIOUS
    <3>2. t \in Turns /\ i \in 0 .. Iterations /\ frame[t].iter = i /\ r \in Nat /\ r + 1 \in Nat /\ r <= r + 1
      BY <2>1, <2>3, <3>1
    <3> HIDE DEF i, r, n, q
    <3>3. /\ Results(t, r + 1, r + 1) \in Seq(Entry) /\ Len(Results(t, r + 1, r + 1)) = (r + 1) - r
          /\ \A k2 \in 1 .. (r + 1) - r : Results(t, r + 1, r + 1)[k2] = ResultOf(t, i, r + k2)
      <4>1. \A a, b \in Nat : a <= b =>
               /\ Results(t, a + 1, b) \in Seq(Entry) /\ Len(Results(t, a + 1, b)) = b - a
               /\ \A k2 \in 1 .. b - a : Results(t, a + 1, b)[k2] = ResultOf(t, i, a + k2)
        BY <3>2, ResultsAre
      <4> QED BY <3>2, <4>1, Zenon
    <3> QED BY <3>3 DEF q
  <2>5. \A j \in 1 .. Len(q) : q[j].turn = t /\ q[j].role \in {"calls", "tool"}
    BY <2>4, ResultIs
  <2> HIDE DEF q, h
  <2>6. s \notin torn => Half(h \o q, t, i, n, r + 1)
    <3> HIDE DEF n, r, i
    <3> QED BY <1>2, <2>1, <2>2, <2>3, <2>4, HalfGrows
  <2>7. s \notin torn => Mine(h \o q, t)
    BY <1>2, <1>3, <2>4, <2>5, MineGrows
  <2> HIDE DEF n, r, i
  <2> QED BY <1>2, <2>1, <2>2, <2>3, <2>4, <2>6, <2>7, ProceedFits DEF h, i
<1> QED BY <1>4, <1>5, <1>6, <1>7, <1>8, <1>9

\* A request comes in, or a turn raises.
LEMMA ChatFits == ASSUME AgentInv, FitInv, NEW t \in Turns, NEW s \in Sessions, Chat(t, s) PROVE FitInv'
<1>1. t \notin Active /\ UNCHANGED <<messages, frame>> /\ torn \subseteq torn'
  BY DEF Chat, Active, Ended
<1>2. /\ pc'[t] \in {"begin", "budget"} /\ session'[t] = s
      /\ \A u \in Turns \ {t} : pc'[u] = pc[u] /\ session'[u] = session[u]
  BY DEF Chat, Goes, AgentInv, TypeOK
<1>3. Active' = Active \cup {t} /\ \A u \in Active : u # t /\ u \in Turns
  BY <1>1, <1>2 DEF Active, Ended
<1>4. ASSUME NEW u \in Active, session[u] = s PROVE s \in torn'
  BY <1>4 DEF Chat
<1>5. Alone'
  <2> SUFFICES ASSUME NEW u \in Active', NEW v \in Active', session'[u] = session'[v], session'[u] \notin torn'
               PROVE  u = v
    BY DEF Alone
  <2>1. CASE u \in Active /\ v \in Active
    BY <1>1, <1>2, <1>3, <2>1 DEF FitInv, Alone
  <2>2. CASE u = t /\ v \in Active
    BY <1>2, <1>3, <1>4, <2>2
  <2>3. CASE v = t /\ u \in Active
    BY <1>2, <1>3, <1>4, <2>3
  <2> QED BY <1>3, <2>1, <2>2, <2>3
<1>6. ASSUME NEW u \in Turns PROVE Fit(u)'
  <2>1. CASE u = t
    <3>1. s \notin torn' => Whole(messages[s], 0)
      BY <1>1, <1>4 DEF FitInv, Rest
    <3>2. s \notin torn' => FitAs(messages'[s], t, pc'[t], frame'[t])
      BY <1>1, <1>2, <3>1 DEF FitAs
    <3> QED BY <1>2, <2>1, <3>2 DEF Fit
  <2>2. CASE u # t
    <3>1. Fit(u) /\ pc'[u] = pc[u] /\ session'[u] = session[u] /\ (u \in Active' <=> u \in Active)
      BY <1>2, <1>3, <2>2 DEF FitInv
    <3> QED BY <1>1, <3>1 DEF Fit
  <2> QED BY <2>1, <2>2
<1>7. ASSUME NEW r \in Sessions PROVE Rest(r)'
  BY <1>1, <1>2, <1>3 DEF FitInv, Rest
<1> QED BY <1>5, <1>6, <1>7 DEF FitInv

LEMMA RaisesFits == ASSUME AgentInv, FitInv, NEW t \in Turns, Raises(t) PROVE FitInv'
<1>1. UNCHANGED <<messages, session>> /\ torn' = torn \cup {session[t]}
  BY DEF Raises
<1>2. pc'[t] = "raised" /\ \A u \in Turns \ {t} : pc'[u] = pc[u] /\ frame'[u] = frame[u]
  BY DEF Raises, Goes, AgentInv, TypeOK
<1>3. Active' \subseteq Active /\ t \notin Active' /\ \A u \in Turns \ {t} : u \in Active <=> u \in Active'
  BY <1>2 DEF Active, Ended
<1>4. Alone'
  BY <1>1, <1>3 DEF FitInv, Alone
<1>5. ASSUME NEW u \in Turns PROVE Fit(u)'
  BY <1>1, <1>2, <1>3 DEF FitInv, Fit
<1>6. ASSUME NEW r \in Sessions PROVE Rest(r)'
  <2> SUFFICES ASSUME r \notin torn', \A u \in Active' : session[u] # r PROVE Whole(messages[r], 0)
    BY <1>1 DEF Rest
  <2>1. \A u \in Active : session[u] # r
    BY <1>1, <1>3 DEF Active
  <2> QED BY <1>1, <2>1 DEF FitInv, Rest
<1> QED BY <1>4, <1>5, <1>6 DEF FitInv

LEMMA InitFits == Init => FitInv
<1> SUFFICES ASSUME Init PROVE FitInv
  OBVIOUS
<1>1. Active = {} /\ \A s \in Sessions : messages[s] = <<>>
  BY DEF Init, Active, Ended
<1>2. Whole(<<>>, 0)
  BY DEF Whole
<1>3. ASSUME NEW t \in Turns PROVE Fit(t)
  BY <1>1 DEF Init, Fit
<1> QED BY <1>1, <1>2, <1>3 DEF FitInv, Alone, Rest

LEMMA NextFits == AgentInv /\ FitInv /\ [Next]_vars => FitInv'
<1> SUFFICES ASSUME AgentInv, FitInv, [Next]_vars PROVE FitInv'
  OBVIOUS
<1>1. CASE UNCHANGED vars
  BY <1>1 DEF vars, FitInv, Alone, Fit, Rest, Active
<1>2. ASSUME NEW t \in Turns, OutOfBudget(t) \/ Finished(t) PROVE FitInv'
  <2>1. pc[t] \in {"begin", "finish"} /\ t \in Active /\ Returns(t)
    BY <1>2 DEF OutOfBudget, Finished, Active, Ended
  <2> QED BY <2>1, ReturnsFits
<1>3. ASSUME NEW t \in Turns, LlmFails(t) \/ AddTokens(t) \/ TokensAdded(t) \/ ToolReturns(t) PROVE FitInv'
  <2>1. 0 \in CallCounts \cup {0}
    OBVIOUS
  <2> QED BY <1>3, <2>1, IterationFits
<1>4. ASSUME NEW t \in Turns, NEW k \in CallCounts,
             LlmAnswers(t, k) \/ \E d \in 1 .. MaxDelta : LlmReports(t, k, d)
      PROVE  FitInv'
  BY <1>4, IterationFits
<1>5. ASSUME NEW t \in Turns, TurnStep(t) PROVE FitInv'
  BY <1>2, <1>3, <1>4, <1>5, BeginningFits DEF TurnStep
<1> QED BY <1>1, <1>5, RaisesFits, ChatFits DEF Next

LEMMA FitShown == AgentInv /\ FitInv => HistoryFits
<1> SUFFICES ASSUME AgentInv, FitInv, NEW t \in Turns, pc[t] = "llm", session[t] \notin torn
             PROVE  Mine(messages[session[t]], t) /\ Whole(messages[session[t]], 0)
  BY DEF HistoryFits, Mine, Whole
<1>1. t \in Active
  BY DEF Active, Ended
<1> QED BY <1>1 DEF FitInv, Fit, FitAs

\* In a session whose turns came one by one and returned, the model is asked
\* with the question and the calls and results of this turn last, every call
\* followed by its results in order, whatever trim() cut before (loop.py:88-135,
\* session.py:33).
THEOREM ModelShownWhole == Spec => []HistoryFits
<1>1. Spec => [](AgentInv /\ FitInv)
  <2>1. Init => AgentInv /\ FitInv
    BY InitAgent, InitFits
  <2>2. (AgentInv /\ FitInv) /\ [Next]_vars => (AgentInv /\ FitInv)'
    BY NextAgent, NextFits
  <2> QED BY <2>1, <2>2, PTL DEF Spec
<1> QED BY <1>1, FitShown, PTL
=============================================================================
