---------------------------- MODULE AiAgentProofs ----------------------------
(***************************************************************************)
(* For any tool calls and any limits: the types of AiAgent, that a tool    *)
(* call is run once and never after a cancel, and that every request       *)
(* carries results that stand with their calls and answers to all calls of *)
(* its round.                                                              *)
(***************************************************************************)
EXTENDS AiAgent, FiniteSetTheorems, TLAPS

(* The least number of a set.                                              *)
LEMMA Least ==
    ASSUME NEW S \in SUBSET Nat, S # {}
    PROVE  \E m \in S : \A n \in S : m <= n
<1> DEFINE R == {r \in Nat \X Nat : r[1] < r[2]}
<1>1. IsWellFoundedOn(R, Nat)
  <2>1. OpToRel(<, Nat) = R
    BY DEF OpToRel
  <2> QED BY <2>1, NatLessThanWellFounded
<1>2. PICK m \in S : \A n \in S : ~(<<n, m>> \in R)
  <2> HIDE DEF R
  <2>1. S \subseteq Nat
    OBVIOUS
  <2> QED BY <1>1, <2>1, WFMin, Zenon
<1>3. ASSUME NEW n \in S PROVE m <= n
  <2>1. n \in Nat /\ m \in Nat
    OBVIOUS
  <2>2. ~(n < m)
    BY <1>2, <2>1
  <2> QED BY <2>1, <2>2
<1> QED BY <1>3

(* A reply is a sequence of at least one call.                             *)
LEMMA ReplyIsSequence ==
    ASSUME NEW calls \in Replies
    PROVE  calls \in Seq(Keys) /\ Len(calls) \in Nat \ {0} /\ DOMAIN calls = 1 .. Len(calls)
<1>1. PICK n \in 1 .. MaxCalls : calls \in [1 .. n -> Keys]
  BY DEF Replies
<1> QED BY <1>1, LimitsArePositive

(* The kinds of messages.                                                  *)
LEMMA MessageKinds ==
    ASSUME NEW m \in Messages
    PROVE  \/ m = User /\ m.role = "user"
           \/ m.role = "assistant" /\ m.calls \in Replies
           \/ m.role = "tool"
BY DEF Messages, User, Assistant, Tool

(* RepeatAt is the first call made before, and no call before it repeats   *)
(* another.                                                                *)
LEMMA FirstRepeat ==
    ASSUME NEW calls \in Replies
    PROVE  /\ RepeatAt(calls) \in 1 .. Len(calls) + 1
           /\ \A j \in 1 .. RepeatAt(calls) - 1 :
                 calls[j] \notin calledKeys /\ \A k \in 1 .. j - 1 : calls[k] # calls[j]
<1> DEFINE Again(i) == i <= Len(calls) =>
                           calls[i] \in calledKeys \/ \E j \in 1 .. i - 1 : calls[j] = calls[i]
           S == {i \in 1 .. Len(calls) + 1 : Again(i)}
           First(i) == /\ Again(i)
                       /\ \A j \in 1 .. i - 1 :
                             calls[j] \notin calledKeys /\ \A k \in 1 .. j - 1 : calls[k] # calls[j]
<1>0. Len(calls) \in Nat
  BY ReplyIsSequence
<1>1. Len(calls) + 1 \in S /\ S \in SUBSET Nat
  BY <1>0
<1>2. PICK m \in S : \A n \in S : m <= n
  <2> HIDE DEF S
  <2> QED BY <1>1, Least
<1>3. m \in 1 .. Len(calls) + 1 /\ First(m)
  <2>1. m \in 1 .. Len(calls) + 1 /\ Again(m)
    BY <1>2
  <2>2. ASSUME NEW j \in 1 .. m - 1 PROVE ~Again(j)
    <3>1. j \in 1 .. Len(calls) + 1 /\ ~(m <= j)
      BY <1>0, <2>1
    <3> HIDE DEF Again
    <3> QED BY <1>2, <3>1
  <2> QED BY <2>1, <2>2
<1>4. RepeatAt(calls) = CHOOSE i \in 1 .. Len(calls) + 1 : First(i)
  BY DEF RepeatAt
<1>5. RepeatAt(calls) \in 1 .. Len(calls) + 1 /\ First(RepeatAt(calls))
  <2> HIDE DEF First
  <2> QED BY <1>3, <1>4
<1> QED BY <1>5
-----------------------------------------------------------------------------
(* The tools that were run.                                                *)

Called ==
    /\ ran \in Seq([key : Keys, late : BOOLEAN])
    /\ calledKeys \in SUBSET Keys
    /\ \A i \in DOMAIN ran : ran[i].key \in calledKeys /\ ran[i].late = FALSE
    /\ \A i, j \in DOMAIN ran : ran[i].key = ran[j].key => i = j

\* Each call that was run has a key of its own, and none came late.
LEMMA CalledOnce == Called => ToolsOnce
BY DEF Called, ToolsOnce

(* ExecuteToolCalls in a round that is not cancelled runs new calls only.  *)
LEMMA ExecuteKeepsCalled ==
    ASSUME Called, NEW calls \in Replies, cancelled = FALSE, ExecuteToolCalls(calls)
    PROVE  Called'
<1> DEFINE n == RepeatAt(calls) - 1
           add == [i \in 1 .. n |-> [key |-> calls[i], late |-> FALSE]]
<1>1. /\ n \in Nat /\ calls \in Seq(Keys) /\ \A i \in 1 .. n : i \in DOMAIN calls
      /\ \A j \in 1 .. n : calls[j] \notin calledKeys /\ \A k \in 1 .. j - 1 : calls[k] # calls[j]
  BY FirstRepeat, ReplyIsSequence
<1>2. ran' = ran \o add /\ calledKeys' = calledKeys \cup {calls[i] : i \in 1 .. n}
  BY DEF ExecuteToolCalls
<1> HIDE DEF n
<1>3. add \in Seq([key : Keys, late : BOOLEAN]) /\ Len(add) = n
  BY <1>1
<1>4. \A i \in 1 .. n : add[i].key = calls[i] /\ add[i].late = FALSE
  BY <1>1
<1> HIDE DEF add
<1>5. /\ ran' \in Seq([key : Keys, late : BOOLEAN]) /\ Len(ran') = Len(ran) + n
      /\ DOMAIN ran' = 1 .. Len(ran) + n /\ Len(ran) \in Nat /\ DOMAIN ran = 1 .. Len(ran)
      /\ \A i \in 1 .. Len(ran) : ran'[i] = ran[i]
      /\ \A i \in 1 .. n : ran'[Len(ran) + i] = add[i]
  <2> DEFINE E == [key : Keys, late : BOOLEAN]
  <2>1. ran \in Seq(E) /\ add \in Seq(E) /\ Len(add) = n
    BY <1>3 DEF Called
  <2> HIDE DEF E
  <2>2. ran \o add \in Seq(E) /\ Len(ran \o add) = Len(ran) + n
    BY <2>1
  <2>3. DOMAIN (ran \o add) = 1 .. Len(ran) + n /\ Len(ran) \in Nat /\ DOMAIN ran = 1 .. Len(ran)
    <3>1. Len(ran) \in Nat /\ DOMAIN ran = 1 .. Len(ran)
      BY <2>1
    <3>2. DOMAIN (ran \o add) = 1 .. Len(ran \o add)
      BY <2>2
    <3> QED BY <2>2, <3>1, <3>2
  <2>4. \A i \in 1 .. Len(ran) : (ran \o add)[i] = ran[i]
    BY <1>1, <2>1
  <2>5. \A i \in 1 .. n : (ran \o add)[Len(ran) + i] = add[i]
    BY <1>1, <2>1
  <2> QED BY <1>2, <2>2, <2>3, <2>4, <2>5 DEF E
<1>6. ASSUME NEW i \in 1 .. Len(ran)
      PROVE  ran'[i] = ran[i] /\ ran[i].key \in calledKeys /\ ran[i].late = FALSE
  BY <1>5 DEF Called
<1>7. ASSUME NEW i \in Len(ran) + 1 .. Len(ran) + n
      PROVE  /\ i - Len(ran) \in 1 .. n
             /\ ran'[i].key = calls[i - Len(ran)] /\ ran'[i].late = FALSE
             /\ ran'[i].key \notin calledKeys
  <2> DEFINE k == i - Len(ran)
  <2>1. k \in 1 .. n /\ i = Len(ran) + k
    BY <1>1, <1>5
  <2> HIDE DEF k
  <2>2. ran'[i] = add[k]
    BY <1>5, <2>1
  <2>3. ran'[i].key = calls[k] /\ ran'[i].late = FALSE /\ calls[k] \notin calledKeys
    BY <1>1, <1>4, <2>1, <2>2
  <2> QED BY <2>1, <2>3 DEF k
<1>8. calledKeys' \in SUBSET Keys
  BY <1>1, <1>2 DEF Called
<1>9. ASSUME NEW i \in DOMAIN ran' PROVE ran'[i].key \in calledKeys' /\ ran'[i].late = FALSE
  <2>1. CASE i \in 1 .. Len(ran)
    BY <1>2, <1>6, <2>1
  <2>2. CASE i \in Len(ran) + 1 .. Len(ran) + n
    <3>1. /\ i - Len(ran) \in 1 .. n
          /\ ran'[i].key = calls[i - Len(ran)] /\ ran'[i].late = FALSE
      BY <1>7, <2>2
    <3>2. calls[i - Len(ran)] \in calledKeys'
      BY <1>2, <3>1, Zenon
    <3> QED BY <3>1, <3>2
  <2>3. i \in 1 .. Len(ran) \/ i \in Len(ran) + 1 .. Len(ran) + n
    BY <1>1, <1>5
  <2> QED BY <2>1, <2>2, <2>3, Zenon
<1>10. ASSUME NEW i \in DOMAIN ran', NEW j \in DOMAIN ran', ran'[i].key = ran'[j].key
       PROVE  i = j
  <2>1. CASE i \in 1 .. Len(ran) /\ j \in 1 .. Len(ran)
    BY <1>5, <1>6, <1>10, <2>1 DEF Called
  <2>2. CASE i \in Len(ran) + 1 .. Len(ran) + n /\ j \in Len(ran) + 1 .. Len(ran) + n
    <3> DEFINE a == i - Len(ran)
               b == j - Len(ran)
    <3>1. a \in 1 .. n /\ b \in 1 .. n /\ calls[a] = calls[b]
      BY <1>7, <1>10, <2>2
    <3> HIDE DEF a, b
    <3>2. a = b
      BY <1>1, <3>1
    <3> QED BY <1>5, <3>2 DEF a, b
  <2>3. CASE ~(i \in 1 .. Len(ran) <=> j \in 1 .. Len(ran))
    <3>1. CASE i \in 1 .. Len(ran) /\ j \in Len(ran) + 1 .. Len(ran) + n
      <4>1. ran'[i].key \in calledKeys
        BY <1>6, <3>1
      <4>2. ran'[j].key \notin calledKeys
        BY <1>7, <3>1
      <4> QED BY <1>10, <4>1, <4>2, Zenon
    <3>2. CASE j \in 1 .. Len(ran) /\ i \in Len(ran) + 1 .. Len(ran) + n
      <4>1. ran'[j].key \in calledKeys
        BY <1>6, <3>2
      <4>2. ran'[i].key \notin calledKeys
        BY <1>7, <3>2
      <4> QED BY <1>10, <4>1, <4>2, Zenon
    <3> QED BY <1>1, <1>5, <2>3, <3>1, <3>2
  <2> QED BY <1>1, <1>5, <2>1, <2>2, <2>3
<1> QED BY <1>5, <1>8, <1>9, <1>10 DEF Called
-----------------------------------------------------------------------------
(* The conversation.                                                       *)

(* The calls of a message are answered right after it, up to the last one  *)
(* or to a refused one.                                                    *)
Answers(h, i) ==
    \E n \in 1 .. Len(h[i].calls) :
        /\ \A j \in 1 .. n :
              i + j \in DOMAIN h /\ h[i + j].role = "tool" /\ h[i + j].key = h[i].calls[j]
        /\ n = Len(h[i].calls) \/ (h[i + n].role = "tool" /\ h[i + n].done = FALSE)

Conversation(h) ==
    /\ h \in Seq(Messages)
    /\ h # <<>> => h[1] = User
    /\ \A i \in DOMAIN h : h[i].role = "assistant" => Answers(h, i)
    /\ \A i \in DOMAIN h : h[i].role = "tool" => StandsWithCall(h, i)

(* A refusal lies behind a later user: it ended its round.                 *)
RefusedAt(h) == {i \in DOMAIN h : h[i].role = "tool" /\ h[i].done = FALSE}
Unrefused(h) == \A i \in RefusedAt(h) : ~InRound(h, i)

(* The calls of a round without a refusal are all answered.                *)
LEMMA ConversationSound ==
    ASSUME NEW h, Conversation(h), Unrefused(h), NEW i \in Asks(h), InRound(h, i)
    PROVE  Answered(h, i)
<1>1. Answers(h, i) /\ h[i].calls \in Replies /\ i \in DOMAIN h
  BY MessageKinds DEF Conversation, Asks
<1>2. PICK n \in 1 .. Len(h[i].calls) :
        /\ \A j \in 1 .. n :
              i + j \in DOMAIN h /\ h[i + j].role = "tool" /\ h[i + j].key = h[i].calls[j]
        /\ n = Len(h[i].calls) \/ (h[i + n].role = "tool" /\ h[i + n].done = FALSE)
  BY <1>1, Zenon DEF Answers
<1>3. Len(h[i].calls) \in Nat \ {0} /\ DOMAIN h[i].calls = 1 .. Len(h[i].calls)
  BY <1>1, ReplyIsSequence
<1>4. n \in 1 .. n /\ i \in Nat /\ DOMAIN h \subseteq Nat
  BY <1>1, <1>3 DEF Conversation
<1>5. n = Len(h[i].calls)
  <2> SUFFICES ASSUME n # Len(h[i].calls) PROVE FALSE
    OBVIOUS
  <2>1. i + n \in RefusedAt(h)
    BY <1>2, <1>4 DEF RefusedAt
  <2>2. PICK j \in DOMAIN h : j > i + n /\ h[j].role = "user"
    BY <2>1 DEF Unrefused, InRound
  <2>3. j > i
    BY <1>4, <2>2
  <2> QED BY <2>2, <2>3 DEF InRound
<1> QED BY <1>2, <1>3, <1>5 DEF Answered

(* A conversation that goes on where h goes on after d messages: answers   *)
(* stay answers, and results keep their calls if the cut is at a user.     *)
LEMMA CutKeeps ==
    ASSUME NEW h \in Seq(Messages), NEW g \in Seq(Messages), NEW d \in Nat, d <= Len(h),
           Len(h) - d <= Len(g), \A k \in 1 .. Len(h) - d : g[k] = h[k + d],
           d = 0 \/ h[d + 1].role = "user",
           NEW i \in 1 .. Len(h) - d
    PROVE  /\ h[i + d].role = "assistant" /\ Answers(h, i + d) => Answers(g, i)
           /\ StandsWithCall(h, i + d) => StandsWithCall(g, i)
<1>1. Len(h) \in Nat /\ Len(g) \in Nat /\ DOMAIN h = 1 .. Len(h) /\ DOMAIN g = 1 .. Len(g)
  OBVIOUS
<1>2. g[i] = h[i + d] /\ i + d \in DOMAIN h
  BY <1>1
<1>3. ASSUME h[i + d].role = "assistant", Answers(h, i + d) PROVE Answers(g, i)
  <2>1. PICK n \in 1 .. Len(h[i + d].calls) :
          /\ \A j \in 1 .. n :
                i + d + j \in DOMAIN h /\ h[i + d + j].role = "tool" /\ h[i + d + j].key = h[i + d].calls[j]
          /\ n = Len(h[i + d].calls) \/ (h[i + d + n].role = "tool" /\ h[i + d + n].done = FALSE)
    BY <1>3 DEF Answers
  <2>2. n \in Nat \ {0} /\ n \in 1 .. n
    <3>1. Len(h[i + d].calls) \in Nat
      BY <1>2, <1>3, MessageKinds, ReplyIsSequence DEF User
    <3> QED BY <3>1
  <2>3. ASSUME NEW j \in 1 .. n
        PROVE  i + j \in DOMAIN g /\ g[i + j] = h[i + d + j] /\ i + d + j \in DOMAIN h
    <3>1. i + d + j \in DOMAIN h
      BY <2>1
    <3>2. i + j \in 1 .. Len(h) - d /\ (i + j) + d = i + d + j
      BY <1>1, <2>2, <3>1
    <3>3. g[i + j] = h[(i + j) + d]
      BY <3>2
    <3> QED BY <1>1, <3>1, <3>2, <3>3
  <2>4. n \in 1 .. Len(g[i].calls) /\ (n = Len(g[i].calls) \/ (g[i + n].role = "tool" /\ g[i + n].done = FALSE))
    BY <1>2, <2>1, <2>2, <2>3
  <2>5. \A j \in 1 .. n : i + j \in DOMAIN g /\ g[i + j].role = "tool" /\ g[i + j].key = g[i].calls[j]
    BY <1>2, <2>1, <2>3
  <2> QED BY <2>4, <2>5, Zenon DEF Answers
<1>4. ASSUME StandsWithCall(h, i + d) PROVE StandsWithCall(g, i)
  <2> DEFINE e == i + d
  <2>0. StandsWithCall(h, e)
    BY <1>4
  <2> HIDE DEF e
  <2>1. PICK j \in 1 .. e - 1 :
          /\ h[j].role = "assistant" /\ e - j \in DOMAIN h[j].calls
          /\ h[e].key = h[j].calls[e - j]
          /\ \A k \in j + 1 .. e : h[k].role = "tool"
    BY <2>0, Zenon DEF StandsWithCall
  <2>2. j > d
    <3> SUFFICES ASSUME ~(j > d) PROVE FALSE
      OBVIOUS
    <3>1. d + 1 \in j + 1 .. e /\ d # 0
      BY <1>1 DEF e
    <3> QED BY <2>1, <3>1
  <2> DEFINE m == j - d
  <2>3. m \in 1 .. i - 1 /\ j = m + d /\ e - j = i - m /\ m \in 1 .. Len(h) - d
    BY <1>1, <2>2 DEF e
  <2> HIDE DEF m
  <2>4. /\ g[m].role = "assistant" /\ i - m \in DOMAIN g[m].calls
        /\ g[i].key = g[m].calls[i - m]
    <3>1. g[m] = h[j] /\ g[i] = h[e]
      BY <1>2, <2>3 DEF e
    <3> QED BY <2>1, <2>3, <3>1
  <2>5. ASSUME NEW k \in m + 1 .. i PROVE g[k].role = "tool"
    <3>1. k \in 1 .. Len(h) - d /\ k + d \in j + 1 .. e
      BY <1>1, <2>3 DEF e
    <3> QED BY <2>1, <3>1
  <2> QED BY <2>3, <2>4, <2>5 DEF StandsWithCall
<1> QED BY <1>3, <1>4

(* One that only goes on keeps all of them.                                *)
LEMMA PrefixKeeps ==
    ASSUME NEW h \in Seq(Messages), NEW g \in Seq(Messages), Len(h) <= Len(g),
           \A k \in 1 .. Len(h) : g[k] = h[k], NEW i \in 1 .. Len(h)
    PROVE  /\ h[i].role = "assistant" /\ Answers(h, i) => Answers(g, i)
           /\ StandsWithCall(h, i) => StandsWithCall(g, i)
<1> DEFINE d == 0
<1>1. /\ d \in Nat /\ d <= Len(h) /\ Len(h) - d <= Len(g) /\ d = 0 /\ i \in 1 .. Len(h) - d
      /\ \A k \in 1 .. Len(h) - d : g[k] = h[k + d]
  OBVIOUS
<1>2. i + d = i
  OBVIOUS
<1> HIDE DEF d
<1>3. /\ h[i + d].role = "assistant" /\ Answers(h, i + d) => Answers(g, i)
      /\ StandsWithCall(h, i + d) => StandsWithCall(g, i)
  BY <1>1, CutKeeps, Zenon
<1> QED BY <1>2, <1>3, Zenon

(* What the user asks goes to the end.                                     *)
LEMMA AddUser ==
    ASSUME NEW h, Conversation(h)
    PROVE  LET g == Append(h, User) IN Conversation(g) /\ g # <<>> /\ g[Len(g)] = User
<1> DEFINE g == Append(h, User)
<1>1. h \in Seq(Messages) /\ User \in Messages /\ User.role = "user"
  BY DEF Conversation, Messages, User
<1>2. /\ g \in Seq(Messages) /\ Len(g) = Len(h) + 1 /\ Len(h) \in Nat
      /\ DOMAIN h = 1 .. Len(h) /\ DOMAIN g = 1 .. Len(h) + 1
      /\ g[Len(h) + 1] = User /\ \A k \in 1 .. Len(h) : g[k] = h[k]
  BY <1>1
<1>3. g # <<>> /\ g[1] = User
  <2>1. g # <<>>
    BY <1>2
  <2>2. CASE h = <<>>
    BY <1>2, <2>2
  <2>3. CASE h # <<>>
    BY <1>1, <1>2, <2>3 DEF Conversation
  <2> QED BY <2>1, <2>2, <2>3
<1> HIDE DEF g
<1>4. ASSUME NEW i \in 1 .. Len(h)
      PROVE  /\ g[i] = h[i]
             /\ h[i].role = "assistant" /\ Answers(h, i) => Answers(g, i)
             /\ StandsWithCall(h, i) => StandsWithCall(g, i)
  <2>1. Len(h) <= Len(g)
    BY <1>2
  <2> QED BY <1>1, <1>2, <2>1, PrefixKeeps, Zenon
<1>5. ASSUME NEW i \in DOMAIN g
      PROVE  /\ g[i].role = "assistant" => Answers(g, i)
             /\ g[i].role = "tool" => StandsWithCall(g, i)
  <2>1. CASE i \in 1 .. Len(h)
    BY <1>2, <1>4, <2>1 DEF Conversation
  <2>2. CASE i = Len(h) + 1
    BY <1>1, <1>2, <2>2
  <2> QED BY <1>2, <2>1, <2>2
<1>6. Conversation(g)
  BY <1>2, <1>3, <1>5, Zenon DEF Conversation
<1>7. g[Len(g)] = User
  BY <1>2
<1> QED BY <1>3, <1>6, <1>7 DEF g

(* The calls of a reply and their results: one for each call up to the     *)
(* last, or up to the one refused.                                         *)
LEMMA AddCalls ==
    ASSUME NEW h, Conversation(h), h # <<>>, NEW calls \in Replies
    PROVE  LET g == Append(h, Assistant(calls)) \o Results(calls)
           IN  /\ Conversation(g) /\ g # <<>> /\ UserAt(g) = UserAt(h)
               /\ RepeatAt(calls) > Len(calls) /\ Unrefused(h) => Unrefused(g)
<1> DEFINE a == Append(h, Assistant(calls))
           n == IF RepeatAt(calls) > Len(calls) THEN Len(calls) ELSE RepeatAt(calls)
           r == Results(calls)
           g == a \o r
           L == Len(h)
<1>1. h \in Seq(Messages) /\ L \in Nat /\ L >= 1 /\ DOMAIN h = 1 .. L
  BY DEF Conversation
<1>2. /\ calls \in Seq(Keys) /\ Len(calls) \in Nat \ {0} /\ n \in 1 .. Len(calls)
      /\ n = Len(calls) \/ n = RepeatAt(calls)
  BY ReplyIsSequence, FirstRepeat
<1>3. Assistant(calls) \in Messages /\ Assistant(calls).role = "assistant" /\ Assistant(calls).calls = calls
  BY DEF Messages, Assistant
<1>4. r = [k \in 1 .. n |-> Tool(calls[k], k < RepeatAt(calls))]
  BY DEF Results
<1>5. RepeatAt(calls) \in Int
  BY <1>2, FirstRepeat
<1> HIDE DEF n, r
<1>6. ASSUME NEW k \in 1 .. n
      PROVE  /\ r[k] \in Messages /\ r[k].role = "tool" /\ r[k].key = calls[k]
             /\ k = RepeatAt(calls) => r[k].done = FALSE
             /\ k < RepeatAt(calls) => r[k].done = TRUE
  <2>1. calls[k] \in Keys
    BY <1>2
  <2>2. r[k] = Tool(calls[k], k < RepeatAt(calls))
    BY <1>4
  <2>3. (k < RepeatAt(calls)) \in BOOLEAN
    BY <1>5
  <2>4. r[k] \in Messages
    <3>1. \E x \in Keys, d \in BOOLEAN : r[k] = Tool(x, d)
      BY <2>1, <2>2, <2>3, Zenon
    <3> QED BY <3>1 DEF Messages
  <2>5. r[k].role = "tool" /\ r[k].key = calls[k]
    BY <2>2 DEF Tool
  <2>6. ASSUME k = RepeatAt(calls) PROVE r[k].done = FALSE
    <3>1. (k < RepeatAt(calls)) = FALSE
      BY <1>5, <2>6
    <3>2. r[k] = Tool(calls[k], FALSE)
      BY <2>2, <3>1
    <3> QED BY <3>2 DEF Tool
  <2>7. ASSUME k < RepeatAt(calls) PROVE r[k].done = TRUE
    <3>1. (k < RepeatAt(calls)) = TRUE
      BY <2>7
    <3>2. r[k] = Tool(calls[k], TRUE)
      BY <2>2, <3>1
    <3> QED BY <3>2 DEF Tool
  <2> QED BY <2>4, <2>5, <2>6, <2>7
<1>7. r \in Seq(Messages) /\ Len(r) = n
  <2>1. r \in [1 .. n -> Messages]
    BY <1>4, <1>6, Zenon
  <2>2. n \in Nat
    BY <1>2
  <2> QED BY <2>1, <2>2
<1>8. /\ a \in Seq(Messages) /\ Len(a) = L + 1 /\ a[L + 1] = Assistant(calls)
      /\ \A k \in 1 .. L : a[k] = h[k]
  BY <1>1, <1>3
<1> HIDE DEF a
<1>9. /\ g \in Seq(Messages) /\ Len(g) = L + 1 + n /\ DOMAIN g = 1 .. L + 1 + n
      /\ \A k \in 1 .. L + 1 : g[k] = a[k]
      /\ \A k \in 1 .. n : g[L + 1 + k] = r[k]
  <2>1. g \in Seq(Messages) /\ Len(g) = L + 1 + n
    BY <1>7, <1>8
  <2>2. \A k \in 1 .. L + 1 : g[k] = a[k]
    BY <1>1, <1>7, <1>8
  <2>3. ASSUME NEW k \in 1 .. n PROVE g[L + 1 + k] = r[k]
    BY <1>1, <1>2, <1>7, <1>8
  <2> QED BY <1>1, <1>2, <2>1, <2>2, <2>3
<1> HIDE DEF g
<1>10. \A k \in 1 .. L : g[k] = h[k]
  BY <1>1, <1>8, <1>9
<1>11. g[L + 1] = Assistant(calls)
  BY <1>1, <1>8, <1>9
<1> HIDE DEF L
<1>12. ASSUME NEW i \in 1 .. L
       PROVE  /\ h[i].role = "assistant" /\ Answers(h, i) => Answers(g, i)
              /\ StandsWithCall(h, i) => StandsWithCall(g, i)
  <2>1. Len(h) <= Len(g)
    BY <1>1, <1>2, <1>9 DEF L
  <2> QED BY <1>1, <1>9, <1>10, <2>1, PrefixKeeps, Zenon DEF L
<1>13. Answers(g, L + 1)
  <2>1. n \in 1 .. Len(g[L + 1].calls) /\ g[L + 1].calls = calls
    BY <1>2, <1>3, <1>11
  <2>2. ASSUME NEW j \in 1 .. n
        PROVE  L + 1 + j \in DOMAIN g /\ g[L + 1 + j].role = "tool" /\ g[L + 1 + j].key = calls[j]
    <3>1. L + 1 + j \in DOMAIN g /\ g[L + 1 + j] = r[j]
      BY <1>1, <1>2, <1>9
    <3> QED BY <1>6, <3>1
  <2>3. n = Len(calls) \/ (g[L + 1 + n].role = "tool" /\ g[L + 1 + n].done = FALSE)
    <3>1. n \in 1 .. n
      BY <1>2
    <3>2. g[L + 1 + n] = r[n]
      BY <1>9, <3>1
    <3> QED BY <1>2, <1>6, <3>1, <3>2
  <2> QED BY <2>1, <2>2, <2>3, Zenon DEF Answers
<1>14. ASSUME NEW k \in 1 .. n PROVE StandsWithCall(g, L + 1 + k)
  <2>1. L + 1 \in 1 .. (L + 1 + k) - 1 /\ (L + 1 + k) - (L + 1) = k /\ k \in DOMAIN calls
    BY <1>1, <1>2
  <2>2. /\ g[L + 1].role = "assistant" /\ (L + 1 + k) - (L + 1) \in DOMAIN g[L + 1].calls
        /\ g[L + 1 + k].key = g[L + 1].calls[(L + 1 + k) - (L + 1)]
    <3>1. g[L + 1 + k].key = calls[k]
      BY <1>6, <1>9
    <3> QED BY <1>3, <1>11, <2>1, <3>1
  <2>3. ASSUME NEW m \in (L + 1) + 1 .. L + 1 + k PROVE g[m].role = "tool"
    <3> DEFINE p == m - (L + 1)
    <3>1. p \in 1 .. n /\ m = L + 1 + p
      BY <1>1, <1>2
    <3> HIDE DEF p
    <3> QED BY <1>6, <1>9, <3>1
  <2> QED BY <2>1, <2>2, <2>3, Zenon DEF StandsWithCall
<1>15. ASSUME NEW i \in DOMAIN g
       PROVE  /\ g[i].role = "assistant" => Answers(g, i)
              /\ g[i].role = "tool" => StandsWithCall(g, i)
              /\ g[i].role = "user" <=> i \in 1 .. L /\ h[i].role = "user"
  <2>1. CASE i \in 1 .. L
    BY <1>1, <1>10, <1>12, <2>1 DEF Conversation
  <2>2. CASE i = L + 1
    BY <1>1, <1>3, <1>11, <1>13, <2>2
  <2>3. CASE i \in L + 2 .. L + 1 + n
    <3> DEFINE p == i - (L + 1)
    <3>1. p \in 1 .. n /\ i = L + 1 + p /\ i \notin 1 .. L
      BY <1>1, <1>2, <2>3
    <3> HIDE DEF p
    <3>2. g[i].role = "tool" /\ StandsWithCall(g, i)
      BY <1>6, <1>9, <1>14, <3>1
    <3> QED BY <3>1, <3>2
  <2>4. i \in 1 .. L \/ i = L + 1 \/ i \in L + 2 .. L + 1 + n
    BY <1>1, <1>2, <1>9
  <2> QED BY <2>1, <2>2, <2>3, <2>4, Zenon
<1>16. UserAt(g) = UserAt(h)
  <2>1. \A i \in 1 .. L : i \in DOMAIN g
    BY <1>1, <1>2, <1>9
  <2> QED BY <1>1, <1>10, <1>15, <2>1 DEF UserAt
<1>17. g # <<>> /\ g[1] = User
  <2>1. 1 \in 1 .. L
    BY <1>1
  <2>2. h[1] = User
    BY Zenon DEF Conversation
  <2>3. g[1] = User
    BY <1>10, <2>1, <2>2
  <2>4. Len(g) # 0
    BY <1>1, <1>2, <1>9
  <2> QED BY <1>9, <2>3, <2>4
<1>18. Conversation(g)
  BY <1>9, <1>15, <1>17, Zenon DEF Conversation
<1>19. ASSUME RepeatAt(calls) > Len(calls), Unrefused(h) PROVE Unrefused(g)
  <2> SUFFICES ASSUME NEW i \in DOMAIN g, g[i].role = "tool", g[i].done = FALSE
               PROVE  ~InRound(g, i)
    BY DEF Unrefused, RefusedAt
  <2>1. CASE i \in 1 .. L
    <3>1. i \in DOMAIN h /\ h[i] = g[i]
      BY <1>1, <1>10, <2>1
    <3>2. i \in RefusedAt(h)
      BY <3>1 DEF RefusedAt
    <3>3. PICK j \in DOMAIN h : j > i /\ h[j].role = "user"
      BY <1>19, <3>2 DEF Unrefused, InRound
    <3>4. j \in DOMAIN g /\ g[j].role = "user"
      BY <1>1, <1>2, <1>9, <1>10, <3>3
    <3> QED BY <3>3, <3>4 DEF InRound
  <2>2. CASE i = L + 1
    BY <1>3, <1>11, <2>2
  <2>3. CASE i \in L + 2 .. L + 1 + n
    <3> DEFINE p == i - (L + 1)
    <3>1. p \in 1 .. n /\ i = L + 1 + p
      BY <1>1, <1>2, <2>3
    <3>2. p < RepeatAt(calls)
      BY <1>2, <1>5, <1>19, <3>1
    <3> HIDE DEF p
    <3>3. g[i].done = TRUE
      BY <1>6, <1>9, <3>1, <3>2
    <3> QED BY <3>3
  <2>4. i \in 1 .. L \/ i = L + 1 \/ i \in L + 2 .. L + 1 + n
    BY <1>1, <1>2, <1>9
  <2> QED BY <2>1, <2>2, <2>3, <2>4
<1> QED BY <1>16, <1>17, <1>18, <1>19, Zenon DEF g, a, r

(* The messages of users are finitely many.                                *)
LEMMA UsersFinite ==
    ASSUME NEW h \in Seq(Messages)
    PROVE  /\ IsFiniteSet(UserAt(h)) /\ Cardinality(UserAt(h)) \in Nat
           /\ UserAt(h) \subseteq 1 .. Len(h) /\ Len(h) \in Nat
<1>1. Len(h) \in Nat /\ UserAt(h) \subseteq 1 .. Len(h)
  BY DEF UserAt
<1>2. IsFiniteSet(1 .. Len(h))
  BY <1>1, FS_Interval
<1>3. IsFiniteSet(UserAt(h))
  BY <1>1, <1>2, FS_Subset
<1> QED BY <1>1, <1>3, FS_CardinalityType

(* Of more than q numbers there is one from which on there are q.          *)
LEMMA OldestKept ==
    ASSUME NEW q \in Nat \ {0}, NEW L \in Nat, NEW A \in SUBSET (1 .. L),
           IsFiniteSet(A), Cardinality(A) > q
    PROVE  \E i \in A : Cardinality({j \in A : j >= i}) = q
<1> DEFINE From(n) == {j \in A : j >= n}
           S == {n \in Nat : Cardinality(From(n)) <= q}
<1>1. Cardinality(A) \in Nat /\ \A j \in A : j \in Nat /\ j <= L
  <2>1. \A j \in A : j \in 1 .. L
    OBVIOUS
  <2> QED BY <2>1, FS_CardinalityType
<1>2. ASSUME NEW n \in Nat PROVE IsFiniteSet(From(n)) /\ Cardinality(From(n)) \in Nat
  <2>1. From(n) \in SUBSET A
    OBVIOUS
  <2>2. IsFiniteSet(From(n))
    BY <1>1, <2>1, FS_Subset
  <2> QED BY <2>2, FS_CardinalityType
<1>3. L + 1 \in S
  <2>1. From(L + 1) = {}
    <3>1. \A j \in A : ~(j >= L + 1)
      BY <1>1
    <3> QED BY <3>1
  <2>2. Cardinality(From(L + 1)) = 0
    BY <2>1, FS_EmptySet
  <2> QED BY <1>1, <2>2
<1>4. PICK m \in S : \A n \in S : m <= n
  <2>1. S \in SUBSET Nat /\ S # {}
    BY <1>3
  <2> HIDE DEF S
  <2> QED BY <2>1, Least
<1>5. m \in Nat /\ m # 0 /\ m - 1 \in Nat
  <2>1. From(0) = A
    <3>1. \A j \in A : j >= 0
      BY <1>1
    <3> QED BY <3>1
  <2>2. 0 \notin S
    BY <1>1, <2>1
  <2> QED BY <1>4, <2>2
<1>6. Cardinality(From(m)) = q
  <2>1. From(m - 1) \subseteq From(m) \cup {m - 1}
    <3>1. \A j \in A : j >= m - 1 => j >= m \/ j = m - 1
      BY <1>1, <1>5
    <3> QED BY <3>1
  <2>2. Cardinality(From(m - 1)) > q
    <3>1. ~(m <= m - 1)
      BY <1>5
    <3>2. ~(Cardinality(From(m - 1)) <= q)
      <4> DEFINE c(n) == Cardinality(From(n))
      <4> HIDE DEF c
      <4>1. m - 1 \notin S
        BY <1>4, <3>1
      <4> QED BY <1>5, <4>1
    <3>3. Cardinality(From(m - 1)) \in Nat
      BY <1>2, <1>5
    <3> HIDE DEF From
    <3> QED BY <3>2, <3>3
  <2>3. /\ IsFiniteSet(From(m) \cup {m - 1})
        /\ Cardinality(From(m) \cup {m - 1}) <= Cardinality(From(m)) + 1
        /\ Cardinality(From(m) \cup {m - 1}) \in Nat
    <3>1. IsFiniteSet(From(m)) /\ Cardinality(From(m)) \in Nat
      BY <1>2, <1>5
    <3> HIDE DEF From
    <3>2. /\ IsFiniteSet(From(m) \cup {m - 1})
          /\ Cardinality(From(m) \cup {m - 1})
                = IF m - 1 \in From(m) THEN Cardinality(From(m)) ELSE Cardinality(From(m)) + 1
      BY <3>1, FS_AddElement
    <3> QED BY <3>1, <3>2
  <2>4. Cardinality(From(m - 1)) <= Cardinality(From(m) \cup {m - 1})
    <3> HIDE DEF From
    <3> QED BY <2>1, <2>3, FS_Subset
  <2>5. Cardinality(From(m)) <= q
    BY <1>4
  <2>6. Cardinality(From(m)) \in Nat /\ Cardinality(From(m - 1)) \in Nat
    BY <1>2, <1>5
  <2> HIDE DEF From
  <2> QED BY <2>2, <2>3, <2>4, <2>5, <2>6
<1>7. From(m) # {} /\ From(m) \in SUBSET Nat
  <2>1. From(m) # {}
    <3> HIDE DEF From
    <3> QED BY <1>6, FS_EmptySet
  <2> QED BY <1>1, <2>1
<1>8. PICK i \in From(m) : \A n \in From(m) : i <= n
  <2> HIDE DEF From
  <2> QED BY <1>7, Least
<1>9. From(i) = From(m) /\ i \in A
  <2>1. i \in A /\ i >= m /\ i \in Nat
    BY <1>1, <1>8
  <2>2. ASSUME NEW j \in A PROVE j >= i <=> j >= m
    <3>1. j \in From(m) => i <= j
      BY <1>8
    <3> QED BY <1>1, <1>5, <2>1, <3>1
  <2> QED BY <2>1, <2>2
<1> QED BY <1>6, <1>9

(* Cutting the oldest turns off leaves a conversation of as many turns as  *)
(* are kept.                                                               *)
LEMMA TrimKeeps ==
    ASSUME NEW h, Conversation(h), h # <<>>
    PROVE  /\ Conversation(TrimHistory(h)) /\ TrimHistory(h) # <<>>
           /\ Cardinality(UserAt(TrimHistory(h))) <= MaxTurns
           /\ TrimHistory(h)[Len(TrimHistory(h))] = h[Len(h)]
<1>1. /\ h \in Seq(Messages) /\ Cardinality(UserAt(h)) \in Nat /\ MaxTurns \in Nat
      /\ DOMAIN h = 1 .. Len(h) /\ Len(h) \in Nat
  BY UsersFinite, LimitsArePositive DEF Conversation
<1>2. CASE Cardinality(UserAt(h)) <= MaxTurns
  BY <1>2 DEF TrimHistory
<1>3. CASE Cardinality(UserAt(h)) > MaxTurns
  <2> DEFINE first == CHOOSE i \in UserAt(h) : Cardinality({j \in UserAt(h) : j >= i}) = MaxTurns
             g == SubSeq(h, first, Len(h))
             d == first - 1
  <2>1. first \in UserAt(h) /\ Cardinality({j \in UserAt(h) : j >= first}) = MaxTurns
    <3> DEFINE Kept(i) == Cardinality({j \in UserAt(h) : j >= i}) = MaxTurns
    <3>1. \E i \in UserAt(h) : Kept(i)
      <4>1. /\ IsFiniteSet(UserAt(h)) /\ UserAt(h) \in SUBSET (1 .. Len(h))
            /\ Len(h) \in Nat /\ MaxTurns \in Nat \ {0}
        BY <1>1, UsersFinite, LimitsArePositive
      <4> QED BY <1>3, <4>1, OldestKept
    <3>2. first = CHOOSE i \in UserAt(h) : Kept(i)
      OBVIOUS
    <3> HIDE DEF Kept
    <3>3. first \in UserAt(h) /\ Kept(first)
      BY <3>1, <3>2, Zenon
    <3> QED BY <3>3 DEF Kept
  <2>2. TrimHistory(h) = g
    <3>1. ~(Cardinality(UserAt(h)) <= MaxTurns)
      BY <1>1, <1>3
    <3> QED BY <3>1 DEF TrimHistory
  <2> HIDE DEF first
  <2>3. first \in 1 .. Len(h) /\ h[first].role = "user" /\ h[first] = User
    <3>1. first \in 1 .. Len(h) /\ h[first].role = "user"
      BY <1>1, <2>1 DEF UserAt
    <3>2. h[first] \in Messages
      BY <1>1, <3>1
    <3> QED BY <3>1, <3>2, MessageKinds
  <2>4. /\ g \in Seq(Messages) /\ Len(g) = Len(h) - d /\ d \in Nat /\ d + 1 = first /\ d <= Len(h)
        /\ DOMAIN g = 1 .. Len(h) - d /\ \A k \in 1 .. Len(h) - d : g[k] = h[k + d]
    BY <1>1, <2>3
  <2> HIDE DEF g, d
  <2>5. g # <<>> /\ g[1] = User
    <3>1. 1 \in 1 .. Len(h) - d /\ 1 + d = first
      BY <1>1, <2>3, <2>4
    <3>2. g[1] = User
      BY <2>3, <2>4, <3>1
    <3> QED BY <1>1, <2>3, <2>4, <3>2
  <2>6. ASSUME NEW i \in DOMAIN g
        PROVE  /\ g[i].role = "assistant" => Answers(g, i)
               /\ g[i].role = "tool" => StandsWithCall(g, i)
    <3>1. i \in 1 .. Len(h) - d /\ g[i] = h[i + d] /\ i + d \in DOMAIN h
      BY <1>1, <2>4
    <3>2. /\ h[i + d].role = "assistant" /\ Answers(h, i + d) => Answers(g, i)
          /\ StandsWithCall(h, i + d) => StandsWithCall(g, i)
      <4>1. Len(h) - d <= Len(g) /\ h[d + 1].role = "user"
        BY <1>1, <2>3, <2>4
      <4> QED BY <1>1, <2>4, <3>1, <4>1, CutKeeps, Zenon
    <3> QED BY <3>1, <3>2, Zenon DEF Conversation
  <2>7. Conversation(g)
    BY <2>4, <2>5, <2>6, Zenon DEF Conversation
  <2>8. Cardinality(UserAt(g)) = MaxTurns
    <3> DEFINE K == {j \in UserAt(h) : j >= first}
               f == [j \in K |-> j - d]
    <3>1. K \subseteq UserAt(h) /\ Cardinality(K) = MaxTurns
      BY <2>1
    <3>2. IsFiniteSet(K)
      BY <1>1, <3>1, UsersFinite, FS_Subset
    <3>3. ASSUME NEW j \in K PROVE j - d \in UserAt(g)
      <4>1. j \in 1 .. Len(h) /\ h[j].role = "user" /\ j >= first
        BY <1>1 DEF UserAt
      <4>2. j - d \in 1 .. Len(h) - d /\ (j - d) + d = j
        BY <1>1, <2>3, <2>4, <4>1
      <4> QED BY <2>4, <4>1, <4>2 DEF UserAt
    <3>4. ASSUME NEW i \in UserAt(g) PROVE i + d \in K /\ (i + d) - d = i
      <4>1. i \in 1 .. Len(h) - d /\ g[i].role = "user"
        BY <2>4 DEF UserAt
      <4>2. i + d \in 1 .. Len(h) /\ h[i + d].role = "user" /\ i + d >= first
        BY <1>1, <2>3, <2>4, <4>1
      <4> QED BY <1>1, <2>4, <4>1, <4>2 DEF UserAt
    <3>5. ASSUME NEW j \in K, NEW k \in K, j - d = k - d PROVE j = k
      BY <1>1, <2>4, <3>5 DEF UserAt
    <3>6. f \in Bijection(K, UserAt(g))
      <4> HIDE DEF K
      <4>1. f \in [K -> UserAt(g)]
        BY <3>3
      <4>2. \A j, k \in K : f[j] = f[k] => j = k
        BY <3>5
      <4>3. ASSUME NEW i \in UserAt(g) PROVE \E j \in K : f[j] = i
        BY <3>4
      <4> HIDE DEF f
      <4> QED BY <4>1, <4>2, <4>3 DEF Bijection, Injection, Surjection, IsInjective
    <3> HIDE DEF K, f
    <3> QED BY <3>1, <3>2, <3>6, FS_Bijection DEF ExistsBijection
  <2>9. g[Len(g)] = h[Len(h)]
    <3>1. Len(h) - d \in 1 .. Len(h) - d /\ (Len(h) - d) + d = Len(h)
      BY <1>1, <2>3, <2>4
    <3> QED BY <2>4, <3>1
  <2> QED BY <1>1, <2>2, <2>5, <2>7, <2>8, <2>9
<1> QED BY <1>1, <1>2, <1>3

(* Behind the user there is nothing yet.                                   *)
LEMMA EndsWithUser ==
    ASSUME NEW h, Conversation(h), h # <<>>, h[Len(h)] = User
    PROVE  Unrefused(h)
<1>1. Len(h) \in Nat \ {0} /\ DOMAIN h = 1 .. Len(h)
  BY DEF Conversation
<1>2. ASSUME NEW i \in RefusedAt(h) PROVE ~InRound(h, i)
  <2>1. i \in 1 .. Len(h) /\ i # Len(h) /\ h[Len(h)].role = "user"
    <3>1. h[Len(h)].role = "user"
      BY DEF User
    <3> QED BY <1>1, <3>1 DEF RefusedAt
  <2>2. Len(h) \in DOMAIN h /\ Len(h) > i
    BY <1>1, <2>1
  <2> QED BY <2>1, <2>2 DEF InRound
<1> QED BY <1>2 DEF Unrefused
-----------------------------------------------------------------------------
(* The invariant: the round's own variables, the conversation, the tools.  *)
Round ==
    /\ busy \in BOOLEAN /\ cancelled \in BOOLEAN
    /\ iterations \in 0 .. MaxIterations
    /\ reply \in {"none", "waiting", "finished"}
    /\ busy = (reply # "none")
Asked ==
    /\ Conversation(history)
    /\ Cardinality(UserAt(history)) <= MaxTurns
    /\ busy => history # <<>> /\ Unrefused(history)
Inv == Round /\ Asked /\ Called

\* The invariant says what the runs check.
LEMMA InvSound == Inv => TypeOK /\ RoundPaired /\ ToolsOnce
<1> SUFFICES ASSUME Inv PROVE TypeOK /\ RoundPaired /\ ToolsOnce
  OBVIOUS
<1>1. TypeOK
  BY Zenon DEF Inv, Round, Asked, Called, Conversation, TypeOK
<1>2. busy <=> reply # "none"
  BY DEF Inv, Round
<1>3. \A i \in DOMAIN history : history[i].role = "tool" => StandsWithCall(history, i)
  BY Zenon DEF Inv, Asked, Conversation
<1>4. ASSUME busy, NEW i \in Asks(history), InRound(history, i) PROVE Answered(history, i)
  BY <1>4, ConversationSound, Zenon DEF Inv, Asked
<1>5. RoundPaired
  BY <1>2, <1>3, <1>4, Zenon DEF Inv, Asked, Conversation, RoundPaired
<1>6. ToolsOnce
  BY CalledOnce DEF Inv
<1> QED BY <1>1, <1>5, <1>6

(* The end of a round, and the next request of one.                        *)
LEMMA EndKeeps ==
    ASSUME EndRound
    PROVE  Round' /\ ~busy'
<1>1. busy' = FALSE /\ cancelled' = FALSE /\ iterations' = 0 /\ reply' = "none"
  BY DEF EndRound
<1>2. iterations' \in 0 .. MaxIterations
  BY <1>1, LimitsArePositive
<1>3. (reply' # "none") = FALSE
  BY <1>1
<1>4. reply' \in {"none", "waiting", "finished"}
  BY <1>1
<1> QED BY <1>1, <1>2, <1>3, <1>4, Zenon DEF Round

\* A further request of the round leaves the rest of the round sound.
LEMMA RequestKeeps ==
    ASSUME NEW made \in 0 .. MaxIterations, RequestNext(made)
    PROVE  Round'
<1>1. CASE EndRound
  BY <1>1, EndKeeps
<1>2. CASE /\ made < MaxIterations
           /\ busy' = TRUE /\ cancelled' = FALSE
           /\ iterations' = made + 1 /\ reply' = "waiting"
  <2>1. iterations' \in 0 .. MaxIterations
    BY <1>2, LimitsArePositive
  <2>2. reply' \in {"none", "waiting", "finished"} /\ (reply' # "none") = TRUE
    BY <1>2
  <2> QED BY <1>2, <2>1, <2>2, Zenon DEF Round
<1>3. made >= MaxIterations \/ made < MaxIterations
  BY LimitsArePositive
<1> QED BY <1>1, <1>2, <1>3, Zenon DEF RequestNext

(* ExecuteToolCalls keeps the conversation one.                            *)
LEMMA ExecuteKeepsAsked ==
    ASSUME Asked, busy = TRUE, NEW calls \in Replies, ExecuteToolCalls(calls),
           busy' => ~(RepeatAt(calls) <= Len(calls))
    PROVE  Asked'
<1>1. history # <<>> /\ Conversation(history)
  BY DEF Asked
<1>2. history' = Append(history, Assistant(calls)) \o Results(calls)
  BY Zenon DEF ExecuteToolCalls
<1>3. Conversation(history') /\ history' # <<>> /\ UserAt(history') = UserAt(history)
  BY <1>1, <1>2, AddCalls
<1>4. Cardinality(UserAt(history')) <= MaxTurns
  BY <1>3 DEF Asked
<1>5. busy' => Unrefused(history')
  <2>1. RepeatAt(calls) \in Nat /\ Len(calls) \in Nat
    BY FirstRepeat, ReplyIsSequence
  <2>2. RepeatAt(calls) > Len(calls) /\ Unrefused(history) => Unrefused(history')
    BY <1>1, <1>2, AddCalls
  <2> QED BY <2>1, <2>2 DEF Asked
<1> QED BY <1>3, <1>4, <1>5, Zenon DEF Asked

(* A step that leaves the tools, and the conversation, alone.              *)
LEMMA CalledSame == Called /\ UNCHANGED <<calledKeys, ran>> => Called'
BY DEF Called

\* A step that leaves the history alone keeps what was asked.
LEMMA AskedSame == Asked /\ UNCHANGED history /\ (busy' => busy) => Asked'
BY Zenon DEF Asked

\* Every step keeps the invariant.
LEMMA InvStep ==
    ASSUME Inv, [Next]_vars
    PROVE  Inv'
<1>0. Round /\ Asked /\ Called
  BY DEF Inv
<1>1. CASE StartRound
  <2>1. Round'
    BY <1>1, RequestKeeps, LimitsArePositive DEF StartRound
  <2> DEFINE g == Append(history, User)
  <2>2. Conversation(g) /\ g # <<>> /\ g[Len(g)] = User
    BY <1>0, AddUser DEF Asked
  <2>3. history' = TrimHistory(g)
    BY <1>1, Zenon DEF StartRound
  <2> HIDE DEF g
  <2>4. Asked'
    <3>1. /\ Conversation(history') /\ history' # <<>>
          /\ Cardinality(UserAt(history')) <= MaxTurns /\ history'[Len(history')] = User
      BY <2>2, <2>3, TrimKeeps, Zenon
    <3>2. Unrefused(history')
      BY <3>1, EndsWithUser, Zenon
    <3> QED BY <3>1, <3>2, Zenon DEF Asked
  <2>5. Called'
    BY <1>1 DEF StartRound, Called
  <2> QED BY <2>1, <2>4, <2>5 DEF Inv
<1>2. CASE Finished
  <2>1. Round'
    BY <1>0, <1>2 DEF Finished, Round
  <2>2. Asked' /\ Called'
    BY <1>0, <1>2, AskedSame, CalledSame, Zenon DEF Finished
  <2> QED BY <2>1, <2>2 DEF Inv
<1>3. CASE OnTextOrError
  <2>1. Round' /\ ~busy'
    BY <1>3, EndKeeps DEF OnTextOrError
  <2>2. Asked' /\ Called'
    BY <1>0, <1>3, <2>1, AskedSame, CalledSame, Zenon DEF OnTextOrError
  <2> QED BY <2>1, <2>2 DEF Inv
<1>4. ASSUME reply = "finished", NEW calls \in Replies, OnToolCalls(calls)
      PROVE  Inv'
  <2>1. busy = TRUE
    <3>1. (reply # "none") = TRUE
      BY <1>4
    <3> QED BY <1>0, <3>1, Zenon DEF Round
  <2>2. CASE cancelled
    <3>1. EndRound /\ UNCHANGED <<history, calledKeys, ran>>
      BY <1>4, <2>2, Zenon DEF OnToolCalls
    <3>2. Round' /\ ~busy'
      BY <3>1, EndKeeps
    <3>3. Asked' /\ Called'
      BY <1>0, <3>1, <3>2, AskedSame, CalledSame, Zenon
    <3> QED BY <3>2, <3>3 DEF Inv
  <2>3. CASE ~cancelled
    <3>1. /\ ExecuteToolCalls(calls) /\ (EndRound \/ RequestNext(iterations))
          /\ RepeatAt(calls) <= Len(calls) => EndRound
      BY <1>4, <2>3, Zenon DEF OnToolCalls
    <3>2. Round'
      BY <1>0, <3>1, EndKeeps, RequestKeeps, Zenon DEF Round
    <3>3. Asked'
      <4>1. busy' => ~(RepeatAt(calls) <= Len(calls))
        BY <3>1, EndKeeps, Zenon
      <4> QED BY <1>0, <2>1, <3>1, <4>1, ExecuteKeepsAsked
    <3>4. cancelled = FALSE
      BY <1>0, <2>3, Zenon DEF Round
    <3>5. Called'
      BY <1>0, <3>1, <3>4, ExecuteKeepsCalled
    <3> QED BY <3>2, <3>3, <3>5 DEF Inv
  <2> QED BY <2>2, <2>3
<1>5. CASE Cancel
  <2>1. CASE reply = "finished"
    <3>1. cancelled' = TRUE /\ UNCHANGED <<busy, iterations, reply, history, calledKeys, ran>>
      BY <1>5, <2>1, Zenon DEF Cancel
    <3>2. Round'
      BY <1>0, <3>1, Zenon DEF Round
    <3>3. Asked' /\ Called'
      BY <1>0, <3>1, AskedSame, CalledSame, Zenon
    <3> QED BY <3>2, <3>3 DEF Inv
  <2>2. CASE reply # "finished"
    <3>1. EndRound /\ UNCHANGED <<history, calledKeys, ran>>
      BY <1>5, <2>2, Zenon DEF Cancel
    <3>2. Round' /\ ~busy'
      BY <3>1, EndKeeps
    <3>3. Asked' /\ Called'
      BY <1>0, <3>1, <3>2, AskedSame, CalledSame, Zenon
    <3> QED BY <3>2, <3>3 DEF Inv
  <2> QED BY <2>1, <2>2
<1>6. CASE ClearHistory
  <2>1. ~busy /\ UNCHANGED <<busy, cancelled, iterations, calledKeys, reply, ran>> /\ history' = <<>>
    BY <1>6, Zenon DEF ClearHistory
  <2>2. Round'
    BY <1>0, <2>1, Zenon DEF Round
  <2>3. Asked'
    <3>1. Conversation(<<>>) /\ UserAt(<<>>) = {}
      BY DEF Conversation, UserAt
    <3>2. Cardinality(UserAt(<<>>)) <= MaxTurns
      BY <3>1, FS_EmptySet, LimitsArePositive
    <3> QED BY <2>1, <3>1, <3>2, Zenon DEF Asked
  <2>4. Called'
    BY <1>0, <2>1, CalledSame, Zenon
  <2> QED BY <2>2, <2>3, <2>4 DEF Inv
<1>7. CASE UNCHANGED vars
  <2>1. UNCHANGED <<history, busy, cancelled, iterations, calledKeys, reply, ran>>
    BY <1>7, Zenon DEF vars
  <2>2. Round'
    BY <1>0, <2>1, Zenon DEF Round
  <2>3. Asked' /\ Called'
    BY <1>0, <2>1, AskedSame, CalledSame, Zenon
  <2> QED BY <2>2, <2>3 DEF Inv
<1> QED
  BY <1>1, <1>2, <1>3, <1>4, <1>5, <1>6, <1>7, Zenon DEF Next, OnReplyFinished, Timeout

\* The invariant holds always.
LEMMA InvAlways == Spec => []Inv
<1>1. Init => Inv
  <2> SUFFICES ASSUME Init PROVE Inv
    OBVIOUS
  <2>1. Round
    <3>1. (reply # "none") = FALSE /\ iterations \in 0 .. MaxIterations
      BY LimitsArePositive DEF Init
    <3> QED BY <3>1, Zenon DEF Init, Round
  <2>2. Asked
    <3>1. Conversation(<<>>) /\ UserAt(<<>>) = {}
      BY DEF Conversation, UserAt
    <3>2. Cardinality(UserAt(<<>>)) <= MaxTurns
      BY <3>1, FS_EmptySet, LimitsArePositive
    <3> QED BY <3>1, <3>2, Zenon DEF Init, Asked
  <2>3. Called
    BY DEF Init, Called
  <2> QED BY <2>1, <2>2, <2>3 DEF Inv
<1>2. Inv /\ [Next]_vars => Inv'
  BY InvStep
<1> QED BY <1>1, <1>2, PTL DEF Spec

\* AiAgent keeps its variables in their types, whatever the model calls.
THEOREM TypeCorrect == Spec => []TypeOK
BY InvAlways, InvSound, PTL

\* A tool call is run at most once in a round, and none after Cancel, in
\* whatever order replies, time-outs and cancels are delivered.
THEOREM CalledAtMostOnce == Spec => []ToolsOnce
BY InvAlways, InvSound, PTL

\* In every request of the agent each tool result stands with its call, whatever
\* rounds were trimmed, cancelled or ended by a refusal before, and each call of
\* the round itself is answered.
THEOREM ResultsStandWithCalls == Spec => []RoundPaired
BY InvAlways, InvSound, PTL
=============================================================================
