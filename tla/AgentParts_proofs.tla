------------------------- MODULE AgentParts_proofs -------------------------
(***************************************************************************)
(* Proofs about what the agents keep and are seen by: the memories, sessions *)
(* and locks on disk, the shells, the screens, the tools on offer and the     *)
(* turns, each from the invariant its module ends with, and at last all of    *)
(* them as the parts of AgentParts.  The numbers of agents, memories,         *)
(* threads, documents, calls, tools, skills, lines and messages are any.     *)
(***************************************************************************)
EXTENDS AgentParts, FiniteSetTheorems, SequenceTheorems, WellFoundedInduction, TLAPS

----------------------------------------------------------------------------
(* The memories.                                                           *)

\* What an agent may be doing, with documents of D.
Doing(D) == [at : {"idle", "remember", "recall", "bump"}, width : Widths \cup {0},
             hits : SUBSET [id : D, count : Nat], seen : SUBSET D]

Memory == [width : Widths, count : Nat, answers : Nat]

MemoryShape ==
    /\ width \in Widths \cup {0}
    /\ docs \in [DOMAIN docs -> Memory]
    /\ gone \subseteq DOMAIN docs
    /\ agent \in [Agents -> Doing(DOMAIN docs)]

\* Only who holds the lock shared has hits; a hit's count is one its memory had.
\* Whoever is past its embedding knows a width.
HitsAreOld ==
    \A a \in Agents :
        /\ agent[a].at # "bump" => agent[a].hits = {} /\ agent[a].seen = {}
        /\ agent[a].at # "idle" => agent[a].width \in Widths
        /\ \A h \in agent[a].hits : h.count <= docs[h.id].answers

MemoryInv == MemoryShape /\ HitsAreOld /\ MemoriesAreRight

LEMMA DoingGrows ==
    ASSUME NEW D, NEW E, D \subseteq E
    PROVE  Doing(D) \subseteq Doing(E)
BY DEF Doing

\* At the start no memory is there and nobody does anything.
LEMMA MemoryInit == Init => MemoryInv
<1> SUFFICES ASSUME Init PROVE MemoryInv
  OBVIOUS
<1>1. docs = <<>> /\ DOMAIN docs = {}
  BY DEF Init
<1>2. Idle \in Doing({})
  BY DEF Doing, Idle
<1>3. docs \in [DOMAIN docs -> Memory]
  BY <1>1
<1>4. MemoryShape
  BY <1>1, <1>2, <1>3 DEF Init, MemoryShape
<1>5. HitsAreOld /\ MemoriesAreRight
  BY <1>1 DEF Init, HitsAreOld, Idle, MemoriesAreRight, OneWidth, AnswersAreLive, CountsAreBounded
<1> QED
  BY <1>4, <1>5 DEF MemoryInv

\* The steps that leave the memories alone and an agent without hits.
LEMMA QuietStep ==
    ASSUME MemoryInv, NEW a \in Agents,
           NEW w \in Widths \cup {0}, NEW at \in {"idle", "remember", "recall"},
           at # "idle" => w \in Widths,
           agent' = [agent EXCEPT ![a] = [at |-> at, width |-> w, hits |-> {}, seen |-> {}]],
           UNCHANGED <<width, docs, gone>>
    PROVE  MemoryInv'
<1> DEFINE new == [at |-> at, width |-> w, hits |-> {}, seen |-> {}]
<1>1. /\ new \in Doing(DOMAIN docs)
      /\ new.at = at /\ new.width = w /\ new.hits = {} /\ new.seen = {}
  BY DEF Doing
<1>2. agent \in [Agents -> Doing(DOMAIN docs)]
  BY DEF MemoryInv, MemoryShape
<1> HIDE DEF new
<1>3. agent' = [agent EXCEPT ![a] = new]
  BY DEF new
<1>4. \A b \in Agents : agent'[b] = IF b = a THEN new ELSE agent[b]
  BY <1>2, <1>3
<1>5. MemoryShape'
  BY <1>1, <1>2, <1>3 DEF MemoryInv, MemoryShape
<1>6. HitsAreOld'
  BY <1>1, <1>4 DEF MemoryInv, HitsAreOld
<1>7. MemoriesAreRight'
  BY <1>1, <1>4 DEF MemoryInv, MemoriesAreRight, OneWidth, AnswersAreLive, CountsAreBounded
<1> QED
  BY <1>5, <1>6, <1>7 DEF MemoryInv

\* A new memory has the file's width, and nobody has hits while it is added.
LEMMA RememberStep ==
    ASSUME MemoryInv, NEW a \in Agents, Remember(a)
    PROVE  MemoryInv'
<1> DEFINE i == Cardinality(DOMAIN docs) + 1
           new == [width |-> agent[a].width, count |-> 0, answers |-> 0]
           D == DOMAIN docs \cup {i}
<1>1. docs' = [j \in D |-> IF j = i THEN new ELSE docs[j]]
  BY DEF Remember
<1> HIDE DEF i
<1>2. agent \in [Agents -> Doing(DOMAIN docs)] /\ docs \in [DOMAIN docs -> Memory]
  BY DEF MemoryInv, MemoryShape
<1>3. /\ agent' = [agent EXCEPT ![a] = Idle]
      /\ width \in {0, agent[a].width} /\ width' = agent[a].width
      /\ gone' = gone
      /\ agent[a].at = "remember"
  BY DEF Remember, EnsureStore
<1>4. \A b \in Agents : agent[b].at # "bump"
  BY DEF Remember, Sharing
<1>5. agent[a].width \in Widths
  BY <1>3 DEF MemoryInv, HitsAreOld
<1>6. new \in Memory /\ new.width = agent[a].width /\ new.count = 0 /\ new.answers = 0
  BY <1>5 DEF Memory
<1>7. \A j \in DOMAIN docs : docs[j].width = agent[a].width
  <2>1. \A j \in DOMAIN docs : docs[j].width \in Widths /\ docs[j].width = width
    BY <1>2 DEF Memory, MemoryInv, MemoriesAreRight, OneWidth
  <2> QED
    BY <2>1, <1>3, WidthsAssumption
<1>8. \A b \in Agents : agent'[b] = IF b = a THEN Idle ELSE agent[b]
  BY <1>2, <1>3
<1>9. \A b \in Agents : agent'[b].hits = {} /\ agent'[b].seen = {}
  BY <1>4, <1>8 DEF MemoryInv, HitsAreOld, Idle
<1> HIDE DEF new
<1>10. MemoryShape'
  <2>1. DOMAIN docs' = D /\ docs' \in [D -> Memory]
    BY <1>1, <1>2, <1>6
  <2>2. agent \in [Agents -> Doing(D)]
    BY <1>2, DoingGrows
  <2>3. Idle \in Doing(D)
    BY DEF Idle, Doing
  <2>4. agent' \in [Agents -> Doing(D)]
    BY <1>3, <2>2, <2>3
  <2>5. gone' \subseteq D /\ width' \in Widths \cup {0}
    BY <1>3, <1>5 DEF MemoryInv, MemoryShape
  <2> QED
    BY <2>1, <2>4, <2>5 DEF MemoryShape
<1>11. HitsAreOld'
  BY <1>8, <1>9 DEF MemoryInv, HitsAreOld, Idle
<1>12. MemoriesAreRight'
  <2>1. \A j \in D : docs'[j] = IF j = i THEN new ELSE docs[j]
    BY <1>1
  <2>2. DOMAIN docs' = D
    BY <1>1
  <2>3. OneWidth'
    BY <1>3, <1>6, <1>7, <2>1, <2>2 DEF OneWidth
  <2>4. CountsAreBounded'
    BY <1>6, <2>1, <2>2 DEF CountsAreBounded, MemoryInv, MemoriesAreRight
  <2>5. AnswersAreLive'
    BY <1>9 DEF AnswersAreLive
  <2> QED
    BY <2>3, <2>4, <2>5 DEF MemoriesAreRight
<1> QED
  BY <1>10, <1>11, <1>12 DEF MemoryInv

\* What is found is there, and is not forgotten.
LEMMA SearchStep ==
    ASSUME MemoryInv, NEW a \in Agents, Search(a)
    PROVE  MemoryInv'
<1>1. PICK best \in SUBSET Live :
        agent' = [agent EXCEPT ![a].at = "bump",
                     ![a].hits = {[id |-> i, count |-> docs[i].count] : i \in best},
                     ![a].seen = best]
  BY DEF Search
<1>2. UNCHANGED <<width, docs, gone>> /\ agent[a].at = "recall"
  BY DEF Search
<1>3. agent \in [Agents -> Doing(DOMAIN docs)] /\ docs \in [DOMAIN docs -> Memory]
  BY DEF MemoryInv, MemoryShape
<1> DEFINE found == {[id |-> i, count |-> docs[i].count] : i \in best}
           new == [agent[a] EXCEPT !.at = "bump", !.hits = found, !.seen = best]
<1>4. best \subseteq DOMAIN docs /\ best \cap gone = {}
  BY DEF Live
<1>5. /\ found \subseteq [id : DOMAIN docs, count : Nat]
      /\ \A h \in found : h.count <= docs[h.id].answers
  <2> SUFFICES ASSUME NEW i \in best
               PROVE  /\ docs[i].count \in Nat /\ docs[i].count <= docs[i].answers
    BY <1>4
  <2> QED
    BY <1>3, <1>4 DEF Memory, MemoryInv, MemoriesAreRight, CountsAreBounded
<1>6. agent[a].width \in Widths
  BY <1>2 DEF MemoryInv, HitsAreOld
<1> HIDE DEF found
<1>7. /\ new \in Doing(DOMAIN docs)
      /\ new.at = "bump" /\ new.hits = found /\ new.seen = best /\ new.width = agent[a].width
  BY <1>3, <1>4, <1>5 DEF Doing
<1>8. agent' = [agent EXCEPT ![a] = new]
  BY <1>1, <1>3 DEF found, Doing
<1> HIDE DEF new
<1>9. \A b \in Agents : agent'[b] = IF b = a THEN new ELSE agent[b]
  BY <1>3, <1>8
<1>10. MemoryShape'
  BY <1>2, <1>3, <1>7, <1>8 DEF MemoryInv, MemoryShape
<1>11. HitsAreOld'
  BY <1>2, <1>5, <1>6, <1>7, <1>9 DEF MemoryInv, HitsAreOld
<1>12. MemoriesAreRight'
  BY <1>2, <1>4, <1>7, <1>9
  DEF MemoryInv, MemoriesAreRight, OneWidth, AnswersAreLive, CountsAreBounded
<1> QED
  BY <1>10, <1>11, <1>12 DEF MemoryInv

\* What a bump writes into a memory, field by field.
LEMMA BumpedMemory ==
    ASSUME NEW m \in Memory, NEW c \in Nat
    PROVE  [m EXCEPT !.count = c, !.answers = @ + 1]
             = [width |-> m.width, count |-> c, answers |-> m.answers + 1]
<1>1. [m EXCEPT !.count = c] = [width |-> m.width, count |-> c, answers |-> m.answers]
  BY DEF Memory
<1>2. m.answers + 1 \in Nat
  BY DEF Memory
<1>3. [[width |-> m.width, count |-> c, answers |-> m.answers] EXCEPT !.answers = m.answers + 1]
        = [width |-> m.width, count |-> c, answers |-> m.answers + 1]
  OBVIOUS
<1> QED
  BY <1>1, <1>2, <1>3

\* A bump writes the count its hit was read with, plus one; the memory had that
\* many answers then, and now has one more.
LEMMA BumpStep ==
    ASSUME MemoryInv, NEW a \in Agents, Bump(a)
    PROVE  MemoryInv'
<1>1. PICK h \in agent[a].hits :
        /\ docs' = IF h.id \in Live
                   THEN [docs EXCEPT ![h.id].count = h.count + 1, ![h.id].answers = @ + 1]
                   ELSE docs
        /\ agent' = [agent EXCEPT ![a].hits = @ \ {h}]
  BY DEF Bump
<1>2. UNCHANGED <<width, gone>> /\ agent[a].at = "bump"
  BY DEF Bump
<1>3. agent \in [Agents -> Doing(DOMAIN docs)] /\ docs \in [DOMAIN docs -> Memory]
  BY DEF MemoryInv, MemoryShape
<1>4. h.id \in DOMAIN docs /\ h.count \in Nat /\ h.count <= docs[h.id].answers
  BY <1>3 DEF Doing, MemoryInv, HitsAreOld
<1> DEFINE new == [at |-> "bump", width |-> agent[a].width,
                   hits |-> agent[a].hits \ {h}, seen |-> agent[a].seen]
<1>5. /\ new \in Doing(DOMAIN docs)
      /\ new.at = "bump" /\ new.width = agent[a].width
      /\ new.hits \subseteq agent[a].hits /\ new.seen = agent[a].seen
  BY <1>3 DEF Doing
<1>6. agent' = [agent EXCEPT ![a] = new]
  <2>1. agent' = [agent EXCEPT ![a] = [agent[a] EXCEPT !.hits = @ \ {h}]]
    BY <1>1, Zenon
  <2>2. agent[a] \in Doing(DOMAIN docs)
    BY <1>3
  <2>3. [agent[a] EXCEPT !.hits = @ \ {h}] = new
    BY <1>2, <2>2 DEF Doing
  <2> QED
    BY <2>1, <2>3
<1> HIDE DEF new
<1>7. \A b \in Agents : agent'[b] = IF b = a THEN new ELSE agent[b]
  BY <1>3, <1>6
<1>8. /\ DOMAIN docs' = DOMAIN docs
      /\ docs' \in [DOMAIN docs -> Memory]
      /\ \A i \in DOMAIN docs : /\ docs'[i].width = docs[i].width
                                /\ docs'[i].answers >= docs[i].answers
                                /\ docs'[i].count <= docs'[i].answers
                                /\ docs'[i].answers > 0 => docs'[i].count > 0
  <2>1. \A i \in DOMAIN docs : /\ docs[i] \in Memory
                               /\ docs[i].count <= docs[i].answers
                               /\ docs[i].answers > 0 => docs[i].count > 0
    BY <1>3 DEF MemoryInv, MemoriesAreRight, CountsAreBounded
  <2>2. CASE h.id \notin Live
    BY <1>1, <1>3, <2>1, <2>2 DEF Memory
  <2>3. CASE h.id \in Live
    <3> DEFINE bumped == [width |-> docs[h.id].width, count |-> h.count + 1,
                          answers |-> docs[h.id].answers + 1]
    <3>1. docs' = [docs EXCEPT ![h.id] = bumped]
      <4>1. docs' = [docs EXCEPT ![h.id] = [docs[h.id] EXCEPT !.count = h.count + 1,
                                                              !.answers = @ + 1]]
        BY <1>1, <2>3, Zenon
      <4>2. docs[h.id] \in Memory /\ h.count + 1 \in Nat
        BY <1>3, <1>4
      <4>3. [docs[h.id] EXCEPT !.count = h.count + 1, !.answers = @ + 1] = bumped
        BY <4>2, BumpedMemory
      <4> QED
        BY <4>1, <4>3
    <3>2. /\ bumped \in Memory /\ bumped.width = docs[h.id].width
          /\ bumped.answers = docs[h.id].answers + 1
          /\ bumped.count <= bumped.answers /\ bumped.count > 0
      BY <1>4, <2>1 DEF Memory
    <3> HIDE DEF bumped
    <3>3. DOMAIN docs' = DOMAIN docs /\ docs' \in [DOMAIN docs -> Memory]
      BY <1>3, <3>1, <3>2
    <3>4. \A i \in DOMAIN docs : docs'[i] = IF i = h.id THEN bumped ELSE docs[i]
      BY <1>3, <3>1
    <3> QED
      BY <1>4, <2>1, <3>2, <3>3, <3>4 DEF Memory
  <2> QED
    BY <2>2, <2>3
<1>9. MemoryShape'
  BY <1>2, <1>3, <1>5, <1>6, <1>8 DEF MemoryInv, MemoryShape
<1>10. HitsAreOld'
  <2>1. ASSUME NEW b \in Agents, NEW k \in agent'[b].hits
        PROVE  k.count <= docs'[k.id].answers
    <3>1. k \in agent[b].hits
      BY <1>5, <1>7, <2>1
    <3>2. k.id \in DOMAIN docs /\ k.count \in Nat /\ k.count <= docs[k.id].answers
      BY <1>3, <3>1 DEF Doing, MemoryInv, HitsAreOld
    <3> QED
      BY <1>3, <1>8, <3>2 DEF Memory
  <2>2. ASSUME NEW b \in Agents
        PROVE  /\ agent'[b].at # "bump" => agent'[b].hits = {} /\ agent'[b].seen = {}
               /\ agent'[b].at # "idle" => agent'[b].width \in Widths
    BY <1>2, <1>5, <1>7 DEF MemoryInv, HitsAreOld
  <2> QED
    BY <2>1, <2>2 DEF HitsAreOld
<1>11. MemoriesAreRight'
  <2>1. OneWidth' /\ CountsAreBounded'
    BY <1>2, <1>8 DEF MemoryInv, MemoriesAreRight, OneWidth, CountsAreBounded
  <2>2. AnswersAreLive'
    BY <1>2, <1>5, <1>7 DEF MemoryInv, MemoriesAreRight, AnswersAreLive
  <2> QED
    BY <2>1, <2>2 DEF MemoriesAreRight
<1> QED
  BY <1>9, <1>10, <1>11 DEF MemoryInv

\* Who forgets has the lock alone, so no answer is under way.
LEMMA ForgetStep ==
    ASSUME MemoryInv, NEW a \in Agents, Forget(a)
    PROVE  MemoryInv'
<1>1. /\ UNCHANGED <<width, docs, agent>> /\ Sharing = {}
      /\ gone' \subseteq DOMAIN docs
  BY DEF Forget, Live, MemoryInv, MemoryShape
<1>2. \A b \in Agents : agent[b].seen = {}
  BY <1>1 DEF Sharing, MemoryInv, HitsAreOld
<1> QED
  BY <1>1, <1>2
  DEF MemoryInv, MemoryShape, HitsAreOld, MemoriesAreRight, OneWidth, AnswersAreLive, CountsAreBounded

LEMMA MemoryStep == MemoryInv /\ [Next]_vars => MemoryInv'
<1> SUFFICES ASSUME MemoryInv, [Next]_vars PROVE MemoryInv'
  OBVIOUS
<1>1. CASE UNCHANGED vars
  BY <1>1 DEF vars, MemoryInv, MemoryShape, HitsAreOld, MemoriesAreRight, OneWidth, AnswersAreLive,
              CountsAreBounded
<1> SUFFICES ASSUME NEW a \in Agents,
                    \/ Embed(a) \/ Remember(a) \/ RememberRefused(a)
                    \/ RecallBegins(a) \/ RecallRefused(a) \/ Search(a) \/ Bump(a)
                    \/ RecallReturns(a) \/ Forget(a)
             PROVE  MemoryInv'
  BY <1>1 DEF Next
<1> DEFINE Quiet(at, w) == [at |-> at, width |-> w, hits |-> {}, seen |-> {}]
<1>2. Idle = Quiet("idle", 0)
  BY DEF Idle
<1>3. CASE Embed(a)
  <2>1. PICK w \in Widths : agent' = [agent EXCEPT ![a] = Quiet("remember", w)]
    BY <1>3 DEF Embed, Idle
  <2>2. UNCHANGED <<width, docs, gone>>
    BY <1>3 DEF Embed
  <2> QED
    BY <2>1, <2>2, QuietStep
<1>4. CASE RecallBegins(a)
  <2>1. PICK w \in Widths : agent' = [agent EXCEPT ![a] = Quiet("recall", w)]
    BY <1>4 DEF RecallBegins, Idle
  <2>2. UNCHANGED <<width, docs, gone>>
    BY <1>4 DEF RecallBegins
  <2> QED
    BY <2>1, <2>2, QuietStep
<1>5. CASE RememberRefused(a) \/ RecallRefused(a) \/ RecallReturns(a)
  <2>1. agent' = [agent EXCEPT ![a] = Quiet("idle", 0)]
    BY <1>2, <1>5 DEF RememberRefused, RecallRefused, RecallReturns
  <2>2. UNCHANGED <<width, docs, gone>>
    BY <1>5 DEF RememberRefused, RecallRefused, RecallReturns
  <2> QED
    BY <2>1, <2>2, QuietStep
<1> QED
  BY <1>3, <1>4, <1>5, RememberStep, SearchStep, BumpStep, ForgetStep

\* A recall under way may still answer memory i.
Answering(i) ==
    {a \in Agents : agent[a].at = "recall" \/ \E h \in agent[a].hits : h.id = i}

Answered(i) == IF i \in DOMAIN docs THEN docs[i].answers ELSE 0

\* No memory was answered more often than there were recalls, those under way
\* included; a recall has one hit of a memory at most.
AnswersAreCounted ==
    /\ recalls \in 0 .. MaxRecalls /\ DOMAIN docs \subseteq 1 .. MaxDocs
    /\ \A i \in 1 .. MaxDocs : Answered(i) + Cardinality(Answering(i)) <= recalls
    /\ \A a \in Agents : \A h, k \in agent[a].hits : h.id = k.id => h = k

LEMMA AnsweringIsFinite ==
    ASSUME NEW i PROVE IsFiniteSet(Answering(i)) /\ Cardinality(Answering(i)) \in Nat
<1>1. IsFiniteSet(Answering(i)) BY PartsAssumption, FS_Subset DEF Answering
<1> QED BY <1>1, FS_CardinalityType

\* Answering(i) is less than before, and then it is no more.
LEMMA FewerAnswer ==
    ASSUME NEW i, NEW S, S \subseteq Answering(i)
    PROVE  IsFiniteSet(S) /\ Cardinality(S) \in Nat /\ Cardinality(S) <= Cardinality(Answering(i))
BY AnsweringIsFinite, FS_Subset, FS_CardinalityType

LEMMA AnsweredIsNumber ==
    ASSUME MemoryInv, NEW i PROVE Answered(i) \in Nat
BY DEF MemoryInv, MemoryShape, Memory, Answered

\* A step in which nothing is answered and no recall begins.
LEMMA CountsStay ==
    ASSUME MemoryInv, AnswersAreCounted, UNCHANGED recalls, DOMAIN docs' \subseteq 1 .. MaxDocs,
           \A i \in 1 .. MaxDocs : Answered(i)' \in {0, Answered(i)},
           \A i \in 1 .. MaxDocs : Answering(i)' \subseteq Answering(i),
           \A a \in Agents : \A h, k \in agent'[a].hits : h.id = k.id => h = k
    PROVE  AnswersAreCounted'
<1> SUFFICES ASSUME NEW i \in 1 .. MaxDocs
             PROVE  Answered(i)' + Cardinality(Answering(i)') <= recalls
  BY DEF AnswersAreCounted
<1>1. /\ Cardinality(Answering(i)') \in Nat /\ Cardinality(Answering(i)) \in Nat
      /\ Cardinality(Answering(i)') <= Cardinality(Answering(i))
  BY FewerAnswer, AnsweringIsFinite
<1>2. Answered(i) \in Nat /\ Answered(i)' \in {0, Answered(i)} BY AnsweredIsNumber
<1>3. Answered(i) + Cardinality(Answering(i)) <= recalls /\ recalls \in Nat
  BY PartsAssumption DEF AnswersAreCounted
<1> QED BY <1>1, <1>2, <1>3

LEMMA AnswersStep ==
    ASSUME MemoryInv, AnswersAreCounted, NEW a \in Agents,
           \/ Embed(a) \/ Remember(a) \/ RememberRefused(a)
           \/ RecallBegins(a) \/ RecallRefused(a) \/ Search(a) \/ Bump(a)
           \/ RecallReturns(a) \/ Forget(a)
    PROVE  AnswersAreCounted'
<1>0. /\ agent \in [Agents -> Doing(DOMAIN docs)] /\ docs \in [DOMAIN docs -> Memory]
      /\ DOMAIN docs \subseteq 1 .. MaxDocs
      /\ \A b \in Agents : \A h, k \in agent[b].hits : h.id = k.id => h = k
      /\ \A b \in Agents : agent[b].at # "bump" => agent[b].hits = {}
  BY DEF MemoryInv, MemoryShape, HitsAreOld, AnswersAreCounted
\* Of who takes a new place, where nothing is found, only a recall may answer.
<1>1. ASSUME NEW new, agent' = [agent EXCEPT ![a] = new], new.hits = {},
             new.at # "recall"
      PROVE  /\ \A i \in 1 .. MaxDocs : Answering(i)' \subseteq Answering(i)
             /\ \A b \in Agents : \A h, k \in agent'[b].hits : h.id = k.id => h = k
  BY <1>0, <1>1 DEF Answering
<1>2. Idle.hits = {} /\ Idle.at = "idle" BY DEF Idle
<1>3. ASSUME UNCHANGED docs PROVE \A i \in 1 .. MaxDocs : Answered(i)' = Answered(i)
  BY <1>3 DEF Answered
<1>4. CASE Embed(a)
  <2>1. PICK w \in Widths : agent' = [agent EXCEPT ![a] = [at |-> "remember", width |-> w, hits |-> {},
                                                          seen |-> {}]]
    BY <1>4 DEF Embed, Idle
  <2> DEFINE new == [at |-> "remember", width |-> w, hits |-> {}, seen |-> {}]
  <2>a. agent' = [agent EXCEPT ![a] = new] /\ new.hits = {} /\ new.at # "recall" BY <2>1
  <2> HIDE DEF new
  <2>2. UNCHANGED <<docs, recalls>> BY <1>4 DEF Embed
  <2>3. /\ \A i \in 1 .. MaxDocs : Answering(i)' \subseteq Answering(i)
        /\ \A b \in Agents : \A h, k \in agent'[b].hits : h.id = k.id => h = k
    BY <1>1, <2>a
  <2> QED BY <1>0, <1>3, <2>2, <2>3, CountsStay
<1>5. CASE RememberRefused(a) \/ RecallRefused(a) \/ RecallReturns(a)
  <2>1. agent' = [agent EXCEPT ![a] = Idle] /\ UNCHANGED <<docs, recalls>>
    BY <1>5 DEF RememberRefused, RecallRefused, RecallReturns
  <2>2. /\ \A i \in 1 .. MaxDocs : Answering(i)' \subseteq Answering(i)
        /\ \A b \in Agents : \A h, k \in agent'[b].hits : h.id = k.id => h = k
    BY <1>1, <1>2, <2>1
  <2> QED BY <1>0, <1>3, <2>1, <2>2, CountsStay
<1>6. CASE Forget(a)
  <2>1. UNCHANGED <<agent, docs, recalls>> BY <1>6 DEF Forget
  <2>2. \A i \in 1 .. MaxDocs : Answering(i)' \subseteq Answering(i) BY <2>1 DEF Answering
  <2> QED BY <1>0, <1>3, <2>1, <2>2, CountsStay
<1>7. CASE Remember(a)
  <2> DEFINE i == Cardinality(DOMAIN docs) + 1
             new == [width |-> agent[a].width, count |-> 0, answers |-> 0]
  <2>1. /\ docs' = [j \in DOMAIN docs \cup {i} |-> IF j = i THEN new ELSE docs[j]]
        /\ agent' = [agent EXCEPT ![a] = Idle] /\ UNCHANGED recalls
        /\ Cardinality(DOMAIN docs) < MaxDocs
    BY <1>7 DEF Remember
  <2>2. i \in 1 .. MaxDocs
    <3>0. 1 \in Int /\ MaxDocs \in Int BY PartsAssumption
    <3>1. IsFiniteSet(1 .. MaxDocs) BY <3>0, FS_Interval
    <3>2. IsFiniteSet(DOMAIN docs) BY <1>0, <3>1, FS_Subset
    <3>3. Cardinality(DOMAIN docs) \in Nat BY <3>2, FS_CardinalityType
    <3> QED BY <2>1, <3>3, PartsAssumption
  <2>3. new.answers = 0 OBVIOUS
  <2> HIDE DEF i, new
  <2>4. \A j \in 1 .. MaxDocs : Answered(j)' \in {0, Answered(j)}
    BY <2>1, <2>3 DEF Answered
  <2>5. /\ \A j \in 1 .. MaxDocs : Answering(j)' \subseteq Answering(j)
        /\ \A b \in Agents : \A h, k \in agent'[b].hits : h.id = k.id => h = k
    BY <1>1, <1>2, <2>1
  <2>6. DOMAIN docs' \subseteq 1 .. MaxDocs BY <1>0, <2>1, <2>2
  <2> QED BY <2>1, <2>4, <2>5, <2>6, CountsStay
<1>8. CASE Search(a)
  <2>1. PICK best \in SUBSET Live :
          agent' = [agent EXCEPT ![a].at = "bump",
                       ![a].hits = {[id |-> i, count |-> docs[i].count] : i \in best},
                       ![a].seen = best]
    BY <1>8 DEF Search
  <2> DEFINE found == {[id |-> i, count |-> docs[i].count] : i \in best}
  <2>2. UNCHANGED <<docs, recalls>> /\ agent[a].at = "recall" BY <1>8 DEF Search
  <2>3. \A h, k \in found : h.id = k.id => h = k OBVIOUS
  <2> HIDE DEF found
  <2>4. agent'[a].hits = found /\ \A b \in Agents : b # a => agent'[b] = agent[b]
    BY <1>0, <2>1 DEF found, Doing
  <2>5. \A i \in 1 .. MaxDocs : Answering(i)' \subseteq Answering(i) BY <2>2, <2>4 DEF Answering
  <2>6. \A b \in Agents : \A h, k \in agent'[b].hits : h.id = k.id => h = k BY <1>0, <2>3, <2>4
  <2> QED BY <1>0, <1>3, <2>2, <2>5, <2>6, CountsStay
\* A recall more, which may answer any memory once.
<1>9. CASE RecallBegins(a)
  <2>1. PICK w \in Widths : agent' = [agent EXCEPT ![a] = [at |-> "recall", width |-> w, hits |-> {},
                                                          seen |-> {}]]
    BY <1>9 DEF RecallBegins, Idle
  <2>2. UNCHANGED docs /\ recalls' = recalls + 1 /\ recalls < MaxRecalls
    BY <1>9 DEF RecallBegins
  <2>3. \A b \in Agents : \A h, k \in agent'[b].hits : h.id = k.id => h = k BY <1>0, <2>1
  <2>4. ASSUME NEW i \in 1 .. MaxDocs
        PROVE  Answered(i)' + Cardinality(Answering(i)') <= recalls'
    <3>1. Answering(i)' = Answering(i) \cup {a} BY <1>0, <2>1 DEF Answering
    <3>2. Cardinality(Answering(i)') <= Cardinality(Answering(i)) + 1
      <4>1. Cardinality(Answering(i) \cup {a})
              = IF a \in Answering(i) THEN Cardinality(Answering(i)) ELSE Cardinality(Answering(i)) + 1
        BY AnsweringIsFinite, FS_AddElement
      <4> QED BY <3>1, <4>1, AnsweringIsFinite
    <3>3. Cardinality(Answering(i)') \in Nat /\ Cardinality(Answering(i)) \in Nat
      <4>1. IsFiniteSet(Answering(i) \cup {a}) BY AnsweringIsFinite, FS_AddElement
      <4> QED BY <3>1, <4>1, AnsweringIsFinite, FS_CardinalityType
    <3>4. Answered(i)' = Answered(i) /\ Answered(i) \in Nat BY <1>3, <2>2, AnsweredIsNumber
    <3>5. Answered(i) + Cardinality(Answering(i)) <= recalls /\ recalls \in Nat
      BY PartsAssumption DEF AnswersAreCounted
    <3> QED BY <2>2, <3>2, <3>3, <3>4, <3>5
  <2>5. recalls' \in 0 .. MaxRecalls BY <2>2, PartsAssumption DEF AnswersAreCounted
  <2> QED BY <1>0, <2>2, <2>3, <2>4, <2>5 DEF AnswersAreCounted
\* An answer more, and a recall less that may still give it.
<1>10. CASE Bump(a)
  <2>1. PICK h \in agent[a].hits :
          /\ docs' = IF h.id \in Live
                     THEN [docs EXCEPT ![h.id].count = h.count + 1, ![h.id].answers = @ + 1]
                     ELSE docs
          /\ agent' = [agent EXCEPT ![a].hits = @ \ {h}]
    BY <1>10 DEF Bump
  <2>2. UNCHANGED recalls /\ agent[a].at = "bump" BY <1>10 DEF Bump
  <2>3. /\ agent'[a].hits = agent[a].hits \ {h} /\ agent'[a].at = "bump"
        /\ \A b \in Agents : b # a => agent'[b] = agent[b]
    BY <1>0, <2>1, <2>2 DEF Doing
  <2>4. \A i \in 1 .. MaxDocs : Answering(i)' \subseteq Answering(i) BY <2>2, <2>3 DEF Answering
  <2>5. \A b \in Agents : \A g, k \in agent'[b].hits : g.id = k.id => g = k BY <1>0, <2>3
  <2>6. CASE h.id \notin Live BY <1>0, <1>3, <2>1, <2>2, <2>4, <2>5, <2>6, CountsStay
  <2>7. CASE h.id \in Live
    <3>1. h.id \in DOMAIN docs /\ h.id \in 1 .. MaxDocs BY <1>0, <2>7 DEF Live
    <3>2. /\ DOMAIN docs' = DOMAIN docs
          /\ \A i \in DOMAIN docs : i # h.id => docs'[i] = docs[i]
          /\ docs'[h.id].answers = docs[h.id].answers + 1
      <4>1. docs' = [docs EXCEPT ![h.id] = [docs[h.id] EXCEPT !.count = h.count + 1,
                                                              !.answers = @ + 1]]
        BY <2>1, <2>7, Zenon
      <4>2. docs[h.id] \in Memory /\ h.count \in Nat
        BY <1>0, <3>1 DEF Doing
      <4>3. [docs[h.id] EXCEPT !.count = h.count + 1, !.answers = @ + 1].answers
              = docs[h.id].answers + 1
        BY <4>2, BumpedMemory
      <4> QED BY <3>1, <4>1, <4>3
    <3>3. a \in Answering(h.id) /\ a \notin Answering(h.id)'
      BY <1>0, <2>1, <2>2, <2>3 DEF Answering
    <3>4. ASSUME NEW i \in 1 .. MaxDocs
          PROVE  Answered(i)' + Cardinality(Answering(i)') <= recalls
      <4>1. /\ Cardinality(Answering(i)') \in Nat /\ Cardinality(Answering(i)) \in Nat
            /\ Cardinality(Answering(i)') <= Cardinality(Answering(i))
        BY <2>4, FewerAnswer, AnsweringIsFinite
      <4>2. Answered(i) + Cardinality(Answering(i)) <= recalls /\ recalls \in Nat
            /\ Answered(i) \in Nat
        BY PartsAssumption, AnsweredIsNumber DEF AnswersAreCounted
      <4>3. CASE i # h.id
        <5>1. Answered(i)' = Answered(i) BY <3>2, <4>3 DEF Answered
        <5> QED BY <4>1, <4>2, <5>1
      <4>4. CASE i = h.id
        <5>1. Answered(i)' = Answered(i) + 1 BY <3>1, <3>2, <4>4 DEF Answered
        <5>2. Answering(i)' \subseteq Answering(i) \ {a} BY <2>4, <3>3, <4>4
        <5>3. IsFiniteSet(Answering(i) \ {a})
              /\ Cardinality(Answering(i) \ {a}) = Cardinality(Answering(i)) - 1
          BY <3>3, <4>4, AnsweringIsFinite, FS_RemoveElement
        <5>4. Cardinality(Answering(i)') <= Cardinality(Answering(i)) - 1
          BY <5>2, <5>3, FS_Subset
        <5> QED BY <4>1, <4>2, <5>1, <5>4
      <4> QED BY <4>3, <4>4
    <3> QED BY <1>0, <2>2, <2>5, <3>2, <3>4 DEF AnswersAreCounted
  <2> QED BY <2>6, <2>7
<1> QED BY <1>4, <1>5, <1>6, <1>7, <1>8, <1>9, <1>10

LEMMA AnswersInit == ASSUME Init PROVE AnswersAreCounted
<1>1. docs = <<>> /\ DOMAIN docs = {} /\ recalls = 0 BY DEF Init
<1>2. \A a \in Agents : agent[a].at = "idle" /\ agent[a].hits = {} BY DEF Init, Idle
<1>3. ASSUME NEW i \in 1 .. MaxDocs PROVE Answered(i) = 0 /\ Cardinality(Answering(i)) = 0
  <2>1. Answering(i) = {} BY <1>2 DEF Answering
  <2> QED BY <1>1, <2>1, FS_EmptySet DEF Answered
<1> QED BY <1>1, <1>2, <1>3, PartsAssumption DEF AnswersAreCounted

\* The types, with all counts within the bounds.
LEMMA MemoryTypes == ASSUME MemoryInv, AnswersAreCounted PROVE TypeOK
<1>0. /\ docs \in [DOMAIN docs -> Memory] /\ DOMAIN docs \subseteq 1 .. MaxDocs
      /\ agent \in [Agents -> Doing(DOMAIN docs)] /\ recalls \in 0 .. MaxRecalls
  BY DEF MemoryInv, MemoryShape, AnswersAreCounted
<1>1. ASSUME NEW i \in DOMAIN docs
      PROVE  docs[i].answers \in 0 .. MaxRecalls /\ docs[i].count \in 0 .. MaxRecalls
             /\ docs[i].width \in Widths /\ docs[i] = [width |-> docs[i].width, count |-> docs[i].count,
                                                       answers |-> docs[i].answers]
  <2>1. docs[i] \in Memory BY <1>0
  <2>2. docs[i].answers + Cardinality(Answering(i)) <= recalls /\ Cardinality(Answering(i)) \in Nat
    BY <1>0, AnsweringIsFinite DEF AnswersAreCounted, Answered
  <2>3. docs[i].count <= docs[i].answers BY DEF MemoryInv, MemoriesAreRight, CountsAreBounded
  <2>4. docs[i].count \in Nat /\ docs[i].answers \in Nat /\ docs[i].width \in Widths
        /\ docs[i] = [width |-> docs[i].width, count |-> docs[i].count,
                      answers |-> docs[i].answers]
    BY <2>1 DEF Memory
  <2> QED BY <1>0, <2>2, <2>3, <2>4, PartsAssumption
<1>2. \A i \in DOMAIN docs :
        docs[i] \in [width : Widths, count : 0 .. MaxRecalls, answers : 0 .. MaxRecalls]
  BY <1>1
<1>3. ASSUME NEW a \in Agents
      PROVE  agent[a] \in [at : {"idle", "remember", "recall", "bump"}, width : Widths \cup {0},
                           hits : SUBSET [id : 1 .. MaxDocs, count : 0 .. MaxRecalls],
                           seen : SUBSET (1 .. MaxDocs)]
  <2>1. agent[a] \in Doing(DOMAIN docs) BY <1>0
  <2>2. ASSUME NEW h \in agent[a].hits PROVE h \in [id : 1 .. MaxDocs, count : 0 .. MaxRecalls]
    <3>1. h \in [id : DOMAIN docs, count : Nat] BY <2>1 DEF Doing
    <3>2. h.count <= docs[h.id].answers BY DEF MemoryInv, HitsAreOld
    <3>3. h.id \in DOMAIN docs /\ h.count \in Nat /\ h = [id |-> h.id, count |-> h.count] BY <3>1
    <3>4. docs[h.id].answers \in 0 .. MaxRecalls BY <1>1, <3>3
    <3>5. h.count \in 0 .. MaxRecalls BY <3>2, <3>3, <3>4, PartsAssumption
    <3> QED BY <1>0, <3>3, <3>5
  <2> DEFINE Hits == [id : 1 .. MaxDocs, count : 0 .. MaxRecalls]
  <2>3. agent[a].hits \subseteq Hits BY <2>2
  <2> HIDE DEF Hits
  <2>4. agent[a].seen \subseteq 1 .. MaxDocs BY <1>0, <2>1 DEF Doing
  <2>5. agent[a] \in [at : {"idle", "remember", "recall", "bump"}, width : Widths \cup {0},
                      hits : SUBSET Hits, seen : SUBSET (1 .. MaxDocs)]
    BY <2>1, <2>3, <2>4 DEF Doing
  <2> QED BY <2>5 DEF Hits
<1> DEFINE Does == [at : {"idle", "remember", "recall", "bump"}, width : Widths \cup {0},
                    hits : SUBSET [id : 1 .. MaxDocs, count : 0 .. MaxRecalls],
                    seen : SUBSET (1 .. MaxDocs)]
<1>4. \A a \in Agents : agent[a] \in Does BY <1>3
<1> HIDE DEF Does
<1>5. agent \in [Agents -> Does] BY <1>0, <1>4
<1>6. gone \subseteq DOMAIN docs /\ width \in Widths \cup {0} BY DEF MemoryInv, MemoryShape
<1> QED BY <1>0, <1>2, <1>5, <1>6 DEF TypeOK, Does

----------------------------------------------------------------------------
(* The files of the sessions.                                              *)

LEMMA SessionsInit == ASSUME Sessions!Init PROVE Sessions!IInv
<1> USE DEF Sessions!Init
<1>1. Sessions!Shape BY DEF Sessions!Shape
<1>2. Sessions!FilesAreStores /\ Sessions!WritersApart
  BY DEF Sessions!FilesAreStores, Sessions!WritersApart
<1>3. Sessions!ClockIsLast BY DEF Sessions!ClockIsLast
<1>4. Sessions!PickWasLast /\ Sessions!LatestIsTheLast
  BY DEF Sessions!PickWasLast, Sessions!LatestIsTheLast, Sessions!Nothing
<1> QED BY <1>1, <1>2, <1>3, <1>4 DEF Sessions!IInv

\* A file changes: it is the one that was changed last, and what is in the others stays.
LEMMA SessionsChange ==
    ASSUME Sessions!IInv, NEW i \in SessionIds, NEW state \in {"empty", "part", "whole"}, NEW store,
           Sessions!Change(i, state, store), UNCHANGED <<v7, v8>>,
           v5 \subseteq v5', v5' \subseteq SessionIds \X (1 .. v3'), <<i, store>> \in v5',
           v6 \subseteq v6', v6' \subseteq v5', v6' \subseteq v6 \cup {<<i, store>>},
           state = "whole" <=> <<i, store>> \in v6',
           v4' \in [Writers -> {<<>>} \cup v5'], Sessions!WritersApart'
    PROVE  Sessions!IInv'
<1>1. /\ v3' = v3 + 1 /\ v3 \in Nat /\ v2' = [v2 EXCEPT ![i] = v3']
      /\ v1' = [v1 EXCEPT ![i] = [state |-> state, store |-> store]]
  BY DEF Sessions!Change, Sessions!IInv, Sessions!Shape
<1>2. store \in Nat
  <2>1. <<i, store>> \in SessionIds \X (1 .. v3') OBVIOUS
  <2>2. store \in 1 .. v3' BY ONLY <2>1
  <2> QED BY <1>1, <2>2
<1> DEFINE new == [state |-> state, store |-> store]
<1>3. /\ new.state = state /\ new.store = store
      /\ new \in [state : {"none", "empty", "part", "whole"}, store : Nat]
  BY <1>2
<1>4. v1 \in [SessionIds -> [state : {"none", "empty", "part", "whole"}, store : Nat]]
      /\ v2 \in [SessionIds -> Nat]
  BY DEF Sessions!IInv, Sessions!Shape
<1> HIDE DEF new
<1>5. /\ v1' \in [SessionIds -> [state : {"none", "empty", "part", "whole"}, store : Nat]]
      /\ v1'[i] = new /\ \A j \in SessionIds : j # i => v1'[j] = v1[j]
  <2>1. v1' = [v1 EXCEPT ![i] = new] BY <1>1 DEF new
  <2> QED BY ONLY <1>3, <1>4, <2>1, i \in SessionIds
<1>6. v2' \in [SessionIds -> Nat] /\ v2'[i] = v3' /\ v3' \in Nat
      /\ \A j \in SessionIds : j # i => v2'[j] = v2[j]
  BY ONLY <1>1, <1>4
<1>7. Sessions!Shape' BY <1>5, <1>6 DEF Sessions!Shape
<1>8. Sessions!FilesAreStores'
  <2> SUFFICES ASSUME NEW j \in SessionIds, v1'[j].state # "none"
               PROVE  /\ <<j, v1'[j].store>> \in v5'
                      /\ v1'[j].state = "whole" <=> <<j, v1'[j].store>> \in v6'
    BY DEF Sessions!FilesAreStores
  <2>1. CASE j = i
    <3>1. v1'[j].state = state /\ v1'[j].store = store BY <1>3, <1>5, <2>1
    <3> QED BY <2>1, <3>1
  <2>2. CASE j # i
    <3>1. v1'[j] = v1[j] BY <1>5, <2>2
    <3>2. /\ <<j, v1[j].store>> \in v5
          /\ v1[j].state = "whole" <=> <<j, v1[j].store>> \in v6
      BY <3>1 DEF Sessions!IInv, Sessions!FilesAreStores
    <3>3. <<j, v1[j].store>> # <<i, store>> BY <2>2
    <3> QED BY <3>1, <3>2, <3>3
  <2> QED BY <2>1, <2>2
<1>9. Sessions!ClockIsLast'
  BY <1>1, <1>6 DEF Sessions!IInv, Sessions!ClockIsLast
<1>10. Sessions!PickWasLast'
  <2>1. v1'[i].state # "none" BY <1>3, <1>5
  <2>2. v8'.at \in Nat /\ v8'.at <= v3 /\ v3' # v8'.at
    BY <1>1 DEF Sessions!IInv, Sessions!PickWasLast
  <2>3. v7' # "none" => v7' \in SessionIds /\ v1[v7'].state # "none"
    BY DEF Sessions!IInv, Sessions!PickWasLast
  <2>4. v7' # "none" => v1'[v7'].state # "none" BY <1>5, <2>1, <2>3
  <2> QED BY <1>1, <2>2, <2>3, <2>4 DEF Sessions!PickWasLast
<1>11. Sessions!LatestIsTheLast'
  <2>1. v3' # v8'.at BY <1>1 DEF Sessions!IInv, Sessions!PickWasLast
  <2>2. v8' = v8 OBVIOUS
  <2>3. v8.ok => /\ <<v8.id, v8.store>> \in v5
                 /\ v8.whole => <<v8.id, v8.store>> \in v6
    BY DEF Sessions!IInv, Sessions!LatestIsTheLast
  <2> QED BY <2>1, <2>2, <2>3 DEF Sessions!LatestIsTheLast
<1> QED BY <1>7, <1>8, <1>9, <1>10, <1>11 DEF Sessions!IInv

\* Who writes is at a store begun under an id.
LEMMA StoreIs ==
    ASSUME Sessions!IInv, NEW w \in Writers, v4[w] # <<>>
    PROVE  /\ v4[w] \in v5 /\ v4[w] = <<v4[w][1], v4[w][2]>>
           /\ v4[w][1] \in SessionIds /\ v4[w][2] \in Nat
<1>1. v4[w] \in v5 /\ v5 \subseteq SessionIds \X (1 .. v3) BY DEF Sessions!IInv, Sessions!Shape
<1>2. v4[w] \in SessionIds \X (1 .. v3) BY <1>1
<1> QED BY ONLY <1>1, <1>2

LEMMA SessionsWrite ==
    ASSUME Sessions!IInv, NEW w \in Writers, Sessions!Fill(w) \/ Sessions!Write(w)
    PROVE  Sessions!IInv'
<1> DEFINE i == v4[w][1]
           store == v4[w][2]
<1>1. v4[w] # <<>> BY DEF Sessions!Fill, Sessions!Write
<1>2. v4[w] \in v5 /\ v4[w] = <<i, store>> /\ i \in SessionIds /\ store \in Nat BY <1>1, StoreIs
<1>3. v5' = v5 /\ UNCHANGED <<v7, v8>> /\ v3' = v3 + 1 /\ v3 \in Nat
  BY DEF Sessions!Fill, Sessions!Write, Sessions!Change, Sessions!IInv, Sessions!Shape
<1>4. v5' \subseteq SessionIds \X (1 .. v3')
  <2>1. v5 \subseteq SessionIds \X (1 .. v3) /\ 1 .. v3 \subseteq 1 .. v3'
    BY <1>3 DEF Sessions!IInv, Sessions!Shape
  <2> QED BY <1>3, <2>1
<1>5. /\ v6 \subseteq v5 /\ v4 \in [Writers -> {<<>>} \cup v5]
      /\ v1 \in [SessionIds -> [state : {"none", "empty", "part", "whole"}, store : Nat]]
  BY DEF Sessions!IInv, Sessions!Shape
<1>6. PICK state \in {"part", "whole"} :
         /\ Sessions!Change(i, state, store)
         /\ state = "part" => v6' = v6 /\ v4' = v4
         /\ state = "whole" => v6' = v6 \cup {<<i, store>>} /\ v4' = [v4 EXCEPT ![w] = <<>>]
  BY <1>2 DEF Sessions!Fill, Sessions!Write
<1>7. /\ v1[i].store = store /\ v4[w] \notin v6
      /\ \A v \in Writers : v # w /\ v4[v] # <<>> => v4[v][1] # i
  BY <1>1 DEF Sessions!IInv, Sessions!WritersApart
<1>8. /\ v1' = [v1 EXCEPT ![i] = [state |-> state, store |-> store]]
  BY <1>6 DEF Sessions!Change
<1> HIDE DEF i, store
<1>9. /\ v1'[i].store = store
      /\ \A j \in SessionIds : j # i => v1'[j] = v1[j]
  BY ONLY <1>2, <1>5, <1>8
<1>10. /\ v4' \in [Writers -> {<<>>} \cup v5]
       /\ \A v \in Writers : v4'[v] = <<>> \/ v4'[v] = v4[v]
       /\ state = "whole" => v4'[w] = <<>>
  BY ONLY <1>5, <1>6, w \in Writers
<1>11. ASSUME NEW v \in Writers, v4'[v] # <<>>
       PROVE  /\ v1'[v4'[v][1]].store = v4'[v][2] /\ v4'[v] \notin v6'
              /\ \A u \in Writers : u # v /\ v4'[u] # <<>> => v4'[u][1] # v4'[v][1]
  <2>1. v4'[v] = v4[v] /\ v4[v] # <<>> BY <1>10, <1>11
  <2>2. /\ v1[v4[v][1]].store = v4[v][2] /\ v4[v] \notin v6
        /\ \A u \in Writers : u # v /\ v4[u] # <<>> => v4[u][1] # v4[v][1]
    BY <2>1 DEF Sessions!IInv, Sessions!WritersApart
  <2>3. v4[v][1] \in SessionIds BY <2>1, StoreIs
  <2>4. \A u \in Writers : u # v /\ v4'[u] # <<>> => v4'[u][1] # v4'[v][1]
    BY ONLY <1>10, <2>1, <2>2
  <2>5. CASE v = w
    <3>1. state = "part" BY <1>6, <1>10, <1>11, <2>5
    <3> QED BY <1>2, <1>6, <1>7, <1>9, <2>1, <2>2, <2>4, <2>5, <3>1
  <2>6. CASE v # w
    <3>1. v4[v][1] # i BY <1>7, <2>1, <2>6
    <3>2. v1'[v4[v][1]] = v1[v4[v][1]] BY <1>9, <2>3, <3>1
    <3>3. v4[v] # <<i, store>> BY <1>2, <3>1 DEF i, store
    <3> QED BY <1>6, <2>1, <2>2, <2>4, <3>2, <3>3
  <2> QED BY <2>5, <2>6
<1>12. Sessions!WritersApart' BY <1>11 DEF Sessions!WritersApart
<1>13. state = "whole" <=> <<i, store>> \in v6' BY <1>2, <1>6, <1>7
<1>14. /\ v6 \subseteq v6' /\ v6' \subseteq v5' /\ v6' \subseteq v6 \cup {<<i, store>>}
       /\ <<i, store>> \in v5' /\ v5 \subseteq v5' /\ v4' \in [Writers -> {<<>>} \cup v5']
  BY <1>2, <1>3, <1>5, <1>6, <1>10
<1> QED BY <1>2, <1>3, <1>4, <1>6, <1>12, <1>13, <1>14, SessionsChange

LEMMA SessionsOpen ==
    ASSUME Sessions!IInv, NEW w \in Writers, NEW i \in SessionIds, Sessions!Open(w, i)
    PROVE  Sessions!IInv'
<1>1. /\ v3' = v3 + 1 /\ v3 \in Nat /\ v5' = v5 \cup {<<i, v3'>>} /\ v6' = v6
      /\ v4' = [v4 EXCEPT ![w] = <<i, v3'>>] /\ UNCHANGED <<v7, v8>>
      /\ Sessions!Change(i, "empty", v3')
      /\ v1' = [v1 EXCEPT ![i] = [state |-> "empty", store |-> v3']]
      /\ \A v \in Writers : v4[v] # <<>> => v4[v][1] # i
  BY DEF Sessions!Open, Sessions!Change, Sessions!IInv, Sessions!Shape
<1>2. /\ v6 \subseteq v5 /\ v4 \in [Writers -> {<<>>} \cup v5]
      /\ v5 \subseteq SessionIds \X (1 .. v3)
      /\ v1 \in [SessionIds -> [state : {"none", "empty", "part", "whole"}, store : Nat]]
  BY DEF Sessions!IInv, Sessions!Shape
<1>3. v5' \subseteq SessionIds \X (1 .. v3')
  <2>1. 1 .. v3 \subseteq 1 .. v3' /\ v3' \in 1 .. v3' BY <1>1
  <2> QED BY <1>1, <1>2, <2>1
<1>4. <<i, v3'>> \notin v6'
  <2>1. v3' \notin 1 .. v3 BY <1>1
  <2>2. <<i, v3'>> \notin SessionIds \X (1 .. v3) BY ONLY <2>1
  <2> QED BY <1>1, <1>2, <2>2
<1>5. v1'[i].store = v3' /\ \A j \in SessionIds : j # i => v1'[j] = v1[j] BY ONLY <1>1, <1>2, i \in SessionIds
<1>6. /\ v4' \in [Writers -> {<<>>} \cup v5'] /\ v4'[w] = <<i, v3'>>
      /\ \A v \in Writers : v # w => v4'[v] = v4[v]
  BY ONLY <1>1, <1>2, w \in Writers
<1>7. ASSUME NEW v \in Writers, v4'[v] # <<>>
      PROVE  /\ v1'[v4'[v][1]].store = v4'[v][2] /\ v4'[v] \notin v6'
             /\ \A u \in Writers : u # v /\ v4'[u] # <<>> => v4'[u][1] # v4'[v][1]
  <2>1. CASE v = w
    <3>1. v4'[v][1] = i /\ v4'[v][2] = v3' BY <1>6, <2>1
    <3>2. \A u \in Writers : u # v /\ v4'[u] # <<>> => v4'[u][1] # i BY <1>1, <1>6, <2>1
    <3> QED BY <1>4, <1>5, <1>6, <2>1, <3>1, <3>2
  <2>2. CASE v # w
    <3>1. v4'[v] = v4[v] /\ v4[v] # <<>> BY <1>6, <1>7, <2>2
    <3>2. /\ v1[v4[v][1]].store = v4[v][2] /\ v4[v] \notin v6
          /\ \A u \in Writers : u # v /\ v4[u] # <<>> => v4[u][1] # v4[v][1]
      BY <3>1 DEF Sessions!IInv, Sessions!WritersApart
    <3>3. v4[v][1] \in SessionIds /\ v4[v][1] # i BY <1>1, <3>1, StoreIs
    <3>4. \A u \in Writers : u # v /\ v4'[u] # <<>> => v4'[u][1] # v4[v][1]
      <4> SUFFICES ASSUME NEW u \in Writers, u # v, v4'[u] # <<>> PROVE v4'[u][1] # v4[v][1]
        OBVIOUS
      <4>1. CASE u = w BY <1>6, <3>3, <4>1
      <4>2. CASE u # w BY <1>6, <3>2, <4>2
      <4> QED BY <4>1, <4>2
    <3> QED BY <1>1, <1>5, <3>1, <3>2, <3>3, <3>4
  <2> QED BY <2>1, <2>2
<1>8. Sessions!WritersApart' BY <1>7 DEF Sessions!WritersApart
<1> QED BY <1>1, <1>2, <1>3, <1>4, <1>6, <1>8, SessionsChange

\* What the reader finds is what a store left there.
LEMMA SessionsLoad == ASSUME Sessions!IInv, Sessions!Load PROVE Sessions!IInv'
<1>1. v7 # "none" /\ v7' = "none" /\ UNCHANGED <<v1, v2, v3, v4, v5, v6>> BY DEF Sessions!Load
<1>2. /\ Sessions!Shape' /\ Sessions!FilesAreStores' /\ Sessions!WritersApart'
      /\ Sessions!ClockIsLast'
  BY <1>1 DEF Sessions!IInv, Sessions!Shape, Sessions!FilesAreStores, Sessions!WritersApart,
     Sessions!ClockIsLast
<1>3. /\ v8'.at = v8.at
      /\ \/ ~v8'.ok
         \/ /\ v1[v7].state \in {"part", "whole"} /\ v8'.id = v7 /\ v8'.store = v1[v7].store
            /\ v8'.whole = (v1[v7].state = "whole")
  BY DEF Sessions!Load, Sessions!Nothing
<1>4. Sessions!PickWasLast' BY <1>1, <1>3 DEF Sessions!IInv, Sessions!PickWasLast
<1>5. Sessions!LatestIsTheLast'
  <2> SUFFICES ASSUME v8'.ok PROVE Sessions!LatestIsTheLast' BY DEF Sessions!LatestIsTheLast
  <2>1. v7 \in SessionIds /\ (v3 = v8.at => v2[v7] = v3)
    BY <1>1 DEF Sessions!IInv, Sessions!PickWasLast
  <2>2. /\ <<v7, v1[v7].store>> \in v5
        /\ v1[v7].state = "whole" <=> <<v7, v1[v7].store>> \in v6
    BY <1>3, <2>1 DEF Sessions!IInv, Sessions!FilesAreStores
  <2> QED BY <1>1, <1>3, <2>1, <2>2 DEF Sessions!LatestIsTheLast
<1> QED BY <1>2, <1>4, <1>5 DEF Sessions!IInv

LEMMA SessionsStep == ASSUME Sessions!IInv, [Sessions!Next]_(Sessions!vars) PROVE Sessions!IInv'
<1>1. CASE UNCHANGED Sessions!vars
  BY <1>1 DEF Sessions!vars, Sessions!IInv, Sessions!Shape, Sessions!FilesAreStores,
     Sessions!WritersApart, Sessions!ClockIsLast, Sessions!PickWasLast, Sessions!LatestIsTheLast
<1>2. ASSUME NEW w \in Writers, Sessions!Reject(w) PROVE Sessions!IInv'
  BY <1>1, <1>2 DEF Sessions!Reject
<1>3. ASSUME NEW w \in Writers, Sessions!Break(w) PROVE Sessions!IInv'
  <2>1. v4' = [v4 EXCEPT ![w] = <<>>] /\ UNCHANGED <<v1, v2, v3, v5, v6, v7, v8>>
    BY <1>3 DEF Sessions!Break
  <2>2. v4 \in [Writers -> {<<>>} \cup v5] BY DEF Sessions!IInv, Sessions!Shape
  <2>3. /\ v4' \in [Writers -> {<<>>} \cup v5]
        /\ \A v \in Writers : v4'[v] = <<>> \/ v4'[v] = v4[v]
    BY ONLY <2>1, <2>2
  <2>4. Sessions!Shape' BY <2>1, <2>3 DEF Sessions!IInv, Sessions!Shape
  <2>5. Sessions!WritersApart'
    BY <2>1, <2>3 DEF Sessions!IInv, Sessions!WritersApart
  <2>6. /\ Sessions!FilesAreStores' /\ Sessions!ClockIsLast' /\ Sessions!PickWasLast'
        /\ Sessions!LatestIsTheLast'
    BY <2>1 DEF Sessions!IInv, Sessions!FilesAreStores, Sessions!ClockIsLast,
       Sessions!PickWasLast, Sessions!LatestIsTheLast
  <2> QED BY <2>4, <2>5, <2>6 DEF Sessions!IInv
\* The file changed last was changed when the clock says.
<1>4. CASE Sessions!PickLatest
  <2>1. PICK i \in SessionIds : /\ v1[i].state # "none" /\ v7' = i
                                /\ \A j \in SessionIds : v2[j] <= v2[i]
    BY <1>4 DEF Sessions!PickLatest
  <2>2. v3 \in Nat /\ v2[i] = v3
    <3>1. v3 \in Nat /\ v2 \in [SessionIds -> Nat] BY DEF Sessions!IInv, Sessions!Shape
    <3>2. \A j \in SessionIds : v2[j] <= v3 BY DEF Sessions!IInv, Sessions!ClockIsLast
    <3>3. v3 > 0 BY <2>1, <3>1 DEF Sessions!IInv, Sessions!ClockIsLast
    <3>4. PICK j \in SessionIds : v2[j] = v3 BY <3>3 DEF Sessions!IInv, Sessions!ClockIsLast
    <3> QED BY <2>1, <3>1, <3>2, <3>4
  <2>3. ~v8'.ok /\ v8'.at = v3 /\ UNCHANGED <<v1, v2, v3, v4, v5, v6>>
    BY <1>4 DEF Sessions!PickLatest, Sessions!Nothing
  <2>4. Sessions!PickWasLast' BY <2>1, <2>2, <2>3 DEF Sessions!PickWasLast
  <2>5. Sessions!LatestIsTheLast' BY <2>3 DEF Sessions!LatestIsTheLast
  <2>6. /\ Sessions!Shape' /\ Sessions!FilesAreStores' /\ Sessions!WritersApart'
        /\ Sessions!ClockIsLast'
    BY <2>3 DEF Sessions!IInv, Sessions!Shape, Sessions!FilesAreStores, Sessions!WritersApart,
       Sessions!ClockIsLast
  <2> QED BY <2>4, <2>5, <2>6 DEF Sessions!IInv
<1> QED
  BY <1>1, <1>2, <1>3, <1>4, SessionsOpen, SessionsWrite, SessionsLoad DEF Sessions!Next

----------------------------------------------------------------------------
(* The locks of a store.                                                   *)

LEMMA LocksInit == ASSUME Locks!Init PROVE Locks!IInv
<1>1. Locks!Idle \in [at : Locks!Locks \cup {"idle", "work", "clear"}, held : SUBSET Locks!Locks,
                      op : Locks!Ops, id : DocIds, todo : SUBSET DocIds]
  BY PartsAssumption DEF Locks!Idle, Locks!Ops
<1>2. Locks!TypeOK BY <1>1, PartsAssumption DEF Locks!Init, Locks!TypeOK
<1>3. \A t \in Threads : v1[t].at = "idle" /\ v1[t].held = {}
  BY DEF Locks!Init, Locks!Idle
<1>4. Locks!PlaceInv BY <1>3 DEF Locks!PlaceInv
<1>5. Locks!HoldersGetOn /\ Locks!ClearsWhatIsWritten /\ Locks!DeferredIsKept
  BY <1>3 DEF Locks!HoldersGetOn, Locks!ClearsWhatIsWritten, Locks!DeferredIsKept, Locks!Init
<1> QED BY <1>2, <1>4, <1>5 DEF Locks!IInv

\* Who is inside alone: an exclusive operation shares the structure with nobody.
LEMMA LocksAlone ==
    ASSUME Locks!IInv, NEW t \in Threads, NEW u \in Threads, t # u,
           "structure" \in v1[t].held, "structure" \in v1[u].held
    PROVE  v1[t].op \in Locks!Shared /\ v1[u].op \in Locks!Shared
BY DEF Locks!IInv, Locks!HoldersGetOn, Locks!Compatible

\* Taking a lock: who is in its way is not there.
LEMMA LocksTake == ASSUME Locks!IInv, NEW t \in Threads, Locks!Take(t) PROVE Locks!IInv'
<1> DEFINE lock == v1[t].at
           next == Locks!NextLock(t, lock)
           new == [v1[t] EXCEPT !.held = @ \cup {lock}, !.at = next]
<1>1. /\ v1[t] \in [at : Locks!Locks \cup {"idle", "work", "clear"}, held : SUBSET Locks!Locks,
                    op : Locks!Ops, id : DocIds, todo : SUBSET DocIds]
      /\ lock \in Locks!Locks
  BY DEF Locks!IInv, Locks!TypeOK, Locks!Take
<1>2. next \in {"key", "log", "work"} BY DEF Locks!NextLock
<1>3. /\ new \in [at : Locks!Locks \cup {"idle", "work", "clear"}, held : SUBSET Locks!Locks,
                  op : Locks!Ops, id : DocIds, todo : SUBSET DocIds]
      /\ new.at = next /\ new.held = v1[t].held \cup {lock}
      /\ new.op = v1[t].op /\ new.id = v1[t].id
  BY <1>1, <1>2 DEF Locks!Locks
<1>4. v1' = [v1 EXCEPT ![t] = new] /\ UNCHANGED <<v2, v3, v4, v5>>
  BY DEF Locks!Take, Locks!data
<1>5. v1'[t] = new /\ \A u \in Threads : u # t => v1'[u] = v1[u]
  BY <1>4 DEF Locks!IInv, Locks!TypeOK
<1>6. Locks!TypeOK' BY <1>3, <1>4, <1>5 DEF Locks!IInv, Locks!TypeOK
<1> HIDE DEF new
<1>7. Locks!PlaceInv'
  BY <1>1, <1>3, <1>5 DEF Locks!IInv, Locks!PlaceInv, Locks!NextLock, Locks!Locks, Locks!Ops,
     Locks!Shared
<1>8. Locks!HoldersGetOn'
  <2> SUFFICES ASSUME NEW a \in Threads, NEW b \in Threads, a # b,
                      NEW l \in v1'[a].held, l \in v1'[b].held
               PROVE  Locks!Compatible(l, a, b)'
    BY DEF Locks!HoldersGetOn
  <2>1. \A u \in Threads : v1'[u].op = v1[u].op /\ v1'[u].id = v1[u].id BY <1>3, <1>5
  <2>2. Locks!Compatible(l, a, b)' <=> Locks!Compatible(l, a, b) BY <2>1 DEF Locks!Compatible
  <2>3. CASE l \in v1[a].held /\ l \in v1[b].held
    BY <2>2, <2>3 DEF Locks!IInv, Locks!HoldersGetOn
  <2>4. CASE ~(l \in v1[a].held /\ l \in v1[b].held)
    <3>1. l = lock /\ t \in {a, b} BY <2>4, <1>3, <1>5
    <3>2. \A u \in Threads : lock \in v1[u].held => Locks!Compatible(lock, t, u)
      BY DEF Locks!Take, Locks!Blocks
    <3>3. Locks!Compatible(lock, a, b) BY <3>1, <3>2, <1>3, <1>5 DEF Locks!Compatible
    <3> QED BY <3>1, <3>3, <2>2
  <2> QED BY <2>3, <2>4
<1>9. Locks!ClearsWhatIsWritten' /\ Locks!DeferredIsKept'
  BY <1>1, <1>2, <1>3, <1>4, <1>5
     DEF Locks!IInv, Locks!ClearsWhatIsWritten, Locks!DeferredIsKept, Locks!Locks
<1> QED BY <1>6, <1>7, <1>8, <1>9 DEF Locks!IInv

\* The place a step of t leads to.
LocksMoves(t, new) ==
    /\ v1' = [v1 EXCEPT ![t] = new]
    /\ new \in [at : Locks!Locks \cup {"idle", "work", "clear"}, held : SUBSET Locks!Locks,
                op : Locks!Ops, id : DocIds, todo : SUBSET DocIds]

LEMMA LocksMoved ==
    ASSUME Locks!IInv, NEW t \in Threads, NEW new, LocksMoves(t, new)
    PROVE  v1'[t] = new /\ \A u \in Threads : u # t => v1'[u] = v1[u]
BY DEF LocksMoves, Locks!IInv, Locks!TypeOK

\* Who takes nothing stands in nobody's way: it gives its locks back, or goes on to
\* another document without a key.
LEMMA LocksLess ==
    ASSUME Locks!IInv, NEW t \in Threads, NEW new, LocksMoves(t, new),
           new.held \subseteq v1[t].held,
           new.held = {} \/ (new.op = v1[t].op /\ (new.id = v1[t].id \/ "key" \notin new.held))
    PROVE  Locks!HoldersGetOn'
<1> SUFFICES ASSUME NEW a \in Threads, NEW b \in Threads, a # b,
                    NEW l \in v1'[a].held, l \in v1'[b].held
             PROVE  Locks!Compatible(l, a, b)'
  BY DEF Locks!HoldersGetOn
<1>1. l \in v1[a].held /\ l \in v1[b].held BY LocksMoved
<1>2. Locks!Compatible(l, a, b) BY <1>1 DEF Locks!IInv, Locks!HoldersGetOn
<1>3. \A u \in {a, b} : /\ v1'[u].op = v1[u].op
                        /\ l = "key" => v1'[u].id = v1[u].id
  BY LocksMoved
<1> QED BY <1>2, <1>3 DEF Locks!Compatible

LEMMA LocksIdle ==
    /\ Locks!Idle \in [at : Locks!Locks \cup {"idle", "work", "clear"}, held : SUBSET Locks!Locks,
                       op : Locks!Ops, id : DocIds, todo : SUBSET DocIds]
    /\ Locks!Idle.at = "idle" /\ Locks!Idle.held = {}
BY PartsAssumption DEF Locks!Idle, Locks!Ops

LEMMA LocksCall == ASSUME Locks!IInv, NEW t \in Threads, Locks!Call(t) PROVE Locks!IInv'
<1>1. PICK o \in Locks!Ops, i \in DocIds :
        v1' = [v1 EXCEPT ![t] = [at |-> "structure", held |-> {}, op |-> o, id |-> i,
                                 todo |-> IF o = "flush" THEN DocIds ELSE {}]]
  BY DEF Locks!Call
<1> DEFINE new == [at |-> "structure", held |-> {}, op |-> o, id |-> i,
                   todo |-> IF o = "flush" THEN DocIds ELSE {}]
<1>2. LocksMoves(t, new) /\ new.at = "structure" /\ new.held = {}
  BY <1>1 DEF LocksMoves, Locks!Locks
<1> HIDE DEF new
<1>3. v1'[t] = new /\ \A u \in Threads : u # t => v1'[u] = v1[u] BY <1>2, LocksMoved
<1>4. UNCHANGED <<v2, v3, v4, v5>> BY DEF Locks!Call, Locks!data
<1>5. Locks!TypeOK' BY <1>2, <1>4 DEF LocksMoves, Locks!IInv, Locks!TypeOK
<1>6. Locks!PlaceInv' BY <1>2, <1>3 DEF Locks!IInv, Locks!PlaceInv
<1>7. Locks!HoldersGetOn' BY <1>2, LocksLess
<1>8. Locks!ClearsWhatIsWritten' /\ Locks!DeferredIsKept'
  <2>1. v1[t].at = "idle" BY DEF Locks!Call
  <2> QED BY <2>1, <1>2, <1>3, <1>4 DEF Locks!IInv, Locks!ClearsWhatIsWritten, Locks!DeferredIsKept
<1> QED BY <1>5, <1>6, <1>7, <1>8 DEF Locks!IInv

\* A thread leaves, its document's metadata as they should be.
LEMMA LocksLeave ==
    ASSUME Locks!IInv, NEW t \in Threads, Locks!Leave(t), Locks!DeferredIsKept',
           v1[t].at \in {"work", "clear"},
           v2' \in [DocIds -> 0 .. MaxVersion], v4' \in [DocIds -> BOOLEAN],
           v5' \subseteq v5, UNCHANGED v3,
           \A i \in DocIds : v2'[i] = v2[i] \/ v1[t].op \in {"defer", "update"}
    PROVE  Locks!IInv'
<1> DEFINE new == Locks!Idle
<1>1. LocksMoves(t, new) BY LocksIdle DEF LocksMoves, Locks!Leave
<1> HIDE DEF new
<1>2. new.at = "idle" /\ new.held = {} BY LocksIdle DEF new
<1>3. v1'[t] = new /\ \A u \in Threads : u # t => v1'[u] = v1[u] BY <1>1, LocksMoved
<1>4. Locks!TypeOK' BY <1>1 DEF LocksMoves, Locks!IInv, Locks!TypeOK
<1>5. Locks!PlaceInv' BY <1>2, <1>3 DEF Locks!IInv, Locks!PlaceInv
<1>6. Locks!HoldersGetOn' BY <1>1, <1>2, LocksLess
<1>7. Locks!ClearsWhatIsWritten'
  <2> SUFFICES ASSUME NEW u \in Threads, v1'[u].at = "clear", v1'[u].op = "flush",
                      v1'[u].id \in v5'
               PROVE  v2'[v1'[u].id] = v3'[v1'[u].id]
    BY DEF Locks!ClearsWhatIsWritten
  <2>1. u # t /\ v1'[u] = v1[u] BY <1>2, <1>3
  <2>2. "structure" \in v1[u].held /\ "structure" \in v1[t].held
    BY <2>1 DEF Locks!IInv, Locks!PlaceInv
  <2>3. v1[u].op \in Locks!Shared \/ v1[t].op \notin {"defer", "update"}
    BY <2>1, <2>2, LocksAlone
  <2>4. v1[u].id \in DocIds BY DEF Locks!IInv, Locks!TypeOK
  <2> QED BY <2>1, <2>3, <2>4 DEF Locks!IInv, Locks!ClearsWhatIsWritten, Locks!Shared
<1> QED BY <1>4, <1>5, <1>6, <1>7 DEF Locks!IInv

LEMMA LocksQuiet ==
    ASSUME Locks!IInv, NEW t \in Threads,
           Locks!Read(t) \/ Locks!FlushEnd(t) \/ Locks!Remove(t)
    PROVE  Locks!IInv'
<1>1. Locks!Leave(t) /\ UNCHANGED <<v2, v3, v4>> /\ v5' \subseteq v5 /\ v1[t].at = "work"
  BY DEF Locks!Read, Locks!FlushEnd, Locks!Remove, Locks!data
<1>2. \A u \in Threads : v1[u].at = "clear" => v1'[u] = v1[u]
  BY <1>1, LocksIdle DEF Locks!Leave, Locks!IInv, Locks!TypeOK
<1>3. Locks!DeferredIsKept' BY <1>1, <1>2 DEF Locks!DeferredIsKept, Locks!IInv
<1> QED BY <1>1, <1>3, LocksLeave DEF Locks!IInv, Locks!TypeOK

LEMMA LocksDefer == ASSUME Locks!IInv, NEW t \in Threads, Locks!Defer(t) PROVE Locks!IInv'
<1>1. /\ Locks!Leave(t) /\ UNCHANGED <<v3, v5>> /\ v1[t].at = "work" /\ v1[t].op = "defer"
      /\ v1[t].id \in DocIds
  BY DEF Locks!Defer, Locks!IInv, Locks!TypeOK
<1>2. \A u \in Threads : v1[u].at = "clear" => v1'[u] = v1[u]
  BY <1>1, LocksIdle DEF Locks!Leave, Locks!IInv, Locks!TypeOK
<1>3. /\ v2' \in [DocIds -> 0 .. MaxVersion] /\ v4' \in [DocIds -> BOOLEAN]
      /\ \A i \in DocIds : v4'[i] = TRUE \/ (v4'[i] = v4[i] /\ v2'[i] = v2[i])
  <2>1. CASE UNCHANGED <<v2, v4>> BY <2>1 DEF Locks!IInv, Locks!TypeOK
  <2>2. CASE /\ v2[v1[t].id] < MaxVersion
             /\ v2' = [v2 EXCEPT ![v1[t].id] = @ + 1]
             /\ v4' = [v4 EXCEPT ![v1[t].id] = TRUE]
    <3>1. v2' \in [DocIds -> 0 .. MaxVersion]
      BY <1>1, <2>2, PartsAssumption DEF Locks!IInv, Locks!TypeOK
    <3>2. v4' \in [DocIds -> BOOLEAN] /\ v4'[v1[t].id] = TRUE
      BY <1>1, <2>2 DEF Locks!IInv, Locks!TypeOK
    <3>3. \A i \in DocIds : i # v1[t].id => v4'[i] = v4[i] /\ v2'[i] = v2[i]
      BY <2>2 DEF Locks!IInv, Locks!TypeOK
    <3> QED BY <3>1, <3>2, <3>3
  <2> QED BY <2>1, <2>2 DEF Locks!Defer
<1>4. Locks!DeferredIsKept'
  BY <1>1, <1>2, <1>3 DEF Locks!DeferredIsKept, Locks!IInv, Locks!TypeOK
<1> QED BY <1>1, <1>3, <1>4, LocksLeave

\* An update appends and gives the log back; its document is its alone by the key.
LEMMA LocksAppend == ASSUME Locks!IInv, NEW t \in Threads, Locks!Append(t) PROVE Locks!IInv'
<1> DEFINE i == v1[t].id
<1>1. /\ v1[t].at = "work" /\ v1[t].op = "update" /\ i \in DocIds /\ UNCHANGED <<v2, v4, v5>>
      /\ "structure" \in v1[t].held
  BY DEF Locks!Append, Locks!IInv, Locks!TypeOK, Locks!PlaceInv
<1>2. CASE Locks!Leave(t) /\ UNCHANGED v3
  <2>1. \A u \in Threads : v1[u].at = "clear" => v1'[u] = v1[u]
    BY <1>1, <1>2, LocksIdle DEF Locks!Leave, Locks!IInv, Locks!TypeOK
  <2>2. Locks!DeferredIsKept' BY <1>1, <1>2, <2>1 DEF Locks!DeferredIsKept, Locks!IInv
  <2> QED BY <1>1, <1>2, <2>2, LocksLeave DEF Locks!IInv, Locks!TypeOK
<1>3. CASE /\ v2[i] < MaxVersion
           /\ v3' = [v3 EXCEPT ![i] = v2[i] + 1]
           /\ v1' = [v1 EXCEPT ![t].at = "clear", ![t].held = @ \ {"log"}]
  <2> DEFINE new == [v1[t] EXCEPT !.at = "clear", !.held = @ \ {"log"}]
  <2>1. v1[t] \in [at : Locks!Locks \cup {"idle", "work", "clear"}, held : SUBSET Locks!Locks,
                   op : Locks!Ops, id : DocIds, todo : SUBSET DocIds]
    BY DEF Locks!IInv, Locks!TypeOK
  <2>2. /\ LocksMoves(t, new) /\ new.at = "clear" /\ new.held = v1[t].held \ {"log"}
        /\ new.op = "update" /\ new.id = i
    BY <1>1, <1>3, <2>1 DEF LocksMoves, Locks!IInv, Locks!TypeOK
  <2> HIDE DEF new
  <2>3. v1'[t] = new /\ \A u \in Threads : u # t => v1'[u] = v1[u] BY <2>2, LocksMoved
  <2>4. v3' \in [DocIds -> 0 .. MaxVersion] /\ \A j \in DocIds : j # i => v3'[j] = v3[j]
    BY <1>1, <1>3, PartsAssumption DEF Locks!IInv, Locks!TypeOK
  <2>5. Locks!TypeOK' BY <1>1, <2>2, <2>4 DEF LocksMoves, Locks!IInv, Locks!TypeOK
  <2>6. Locks!PlaceInv' BY <1>1, <2>2, <2>3 DEF Locks!IInv, Locks!PlaceInv, Locks!Shared
  <2>7. Locks!HoldersGetOn' BY <1>1, <2>2, LocksLess
  <2>8. Locks!ClearsWhatIsWritten'
    <3> SUFFICES ASSUME NEW u \in Threads, v1'[u].at = "clear", v1'[u].op = "flush"
                 PROVE  FALSE
      BY DEF Locks!ClearsWhatIsWritten
    <3>1. u # t /\ v1'[u] = v1[u] BY <2>2, <2>3
    <3>2. "structure" \in v1[u].held BY <3>1 DEF Locks!IInv, Locks!PlaceInv
    <3> QED BY <1>1, <3>1, <3>2, LocksAlone DEF Locks!Shared
  <2>9. Locks!DeferredIsKept'
    BY <1>1, <2>2, <2>3, <2>4 DEF Locks!IInv, Locks!DeferredIsKept, Locks!TypeOK
  <2> QED BY <2>5, <2>6, <2>7, <2>8, <2>9 DEF Locks!IInv
<1> QED BY <1>2, <1>3 DEF Locks!Append

LEMMA LocksPublish == ASSUME Locks!IInv, NEW t \in Threads, Locks!Publish(t) PROVE Locks!IInv'
<1> DEFINE i == v1[t].id
<1>1. /\ Locks!Leave(t) /\ UNCHANGED <<v3, v5>> /\ v1[t].at = "clear" /\ v1[t].op = "update"
      /\ i \in DocIds
  BY DEF Locks!Publish, Locks!IInv, Locks!TypeOK
<1>2. \A u \in Threads : u # t => v1'[u] = v1[u]
  BY <1>1 DEF Locks!Leave, Locks!IInv, Locks!TypeOK
<1>3. /\ v2' \in [DocIds -> 0 .. MaxVersion] /\ v2'[i] = v3[i]
      /\ \A j \in DocIds : j # i => v2'[j] = v2[j]
  BY <1>1 DEF Locks!Publish, Locks!IInv, Locks!TypeOK
<1>4. v4' \in [DocIds -> BOOLEAN] /\ \A j \in DocIds : j # i => v4'[j] = v4[j]
  BY <1>1 DEF Locks!Publish, Locks!IInv, Locks!TypeOK
<1>5. Locks!DeferredIsKept'
  BY <1>1, <1>2, <1>3, <1>4 DEF Locks!DeferredIsKept, Locks!IInv, Locks!TypeOK
<1> QED BY <1>1, <1>3, <1>4, <1>5, LocksLeave

\* A flush goes through the documents alone.
LEMMA LocksFlushing ==
    ASSUME Locks!IInv, NEW t \in Threads, v1[t].op = "flush", v1[t].at \in {"work", "clear"},
           NEW u \in Threads, u # t
    PROVE  v1[u].at \notin {"work", "clear"}
<1>1. "structure" \in v1[t].held BY DEF Locks!IInv, Locks!PlaceInv
<1> QED BY <1>1, LocksAlone DEF Locks!IInv, Locks!PlaceInv, Locks!Shared

LEMMA LocksFlushWrite ==
    ASSUME Locks!IInv, NEW t \in Threads, Locks!FlushWrite(t) PROVE Locks!IInv'
<1>1. PICK i \in v1[t].todo :
        /\ v1' = [v1 EXCEPT ![t].at = IF v4[i] THEN "clear" ELSE "work", ![t].id = i,
                                ![t].todo = @ \ {i}]
        /\ v3' = IF v4[i] /\ i \in v5 THEN [v3 EXCEPT ![i] = v2[i]] ELSE v3
  BY DEF Locks!FlushWrite
<1> DEFINE new == [v1[t] EXCEPT !.at = IF v4[i] THEN "clear" ELSE "work", !.id = i,
                                !.todo = @ \ {i}]
<1>2. /\ v1[t] \in [at : Locks!Locks \cup {"idle", "work", "clear"}, held : SUBSET Locks!Locks,
                    op : Locks!Ops, id : DocIds, todo : SUBSET DocIds]
      /\ v1[t].at = "work" /\ v1[t].op = "flush" /\ UNCHANGED <<v2, v4, v5>>
  BY DEF Locks!IInv, Locks!TypeOK, Locks!FlushWrite
<1>3. i \in DocIds BY <1>1, <1>2
<1>4. /\ new \in [at : Locks!Locks \cup {"idle", "work", "clear"}, held : SUBSET Locks!Locks,
                  op : Locks!Ops, id : DocIds, todo : SUBSET DocIds]
      /\ new.held = v1[t].held /\ new.op = "flush" /\ new.id = i /\ new.at \in {"work", "clear"}
      /\ new.at = "clear" => v4[i]
  BY <1>2, <1>3
<1>5. LocksMoves(t, new)
  <2>1. v1' = [v1 EXCEPT ![t] = new] BY <1>1, <1>2 DEF Locks!IInv, Locks!TypeOK
  <2> HIDE DEF new
  <2> QED BY <2>1, <1>4 DEF LocksMoves
<1> HIDE DEF new
<1>6. v1'[t] = new /\ \A u \in Threads : u # t => v1'[u] = v1[u] BY <1>5, LocksMoved
<1>7. /\ v3' \in [DocIds -> 0 .. MaxVersion]
      /\ \A j \in DocIds : v3'[j] = v3[j] \/ v3'[j] = v2[j]
      /\ v4[i] /\ i \in v5 => v3'[i] = v2[i]
  BY <1>1, <1>3 DEF Locks!IInv, Locks!TypeOK
<1>8. Locks!TypeOK' BY <1>2, <1>5, <1>7 DEF LocksMoves, Locks!IInv, Locks!TypeOK
<1>9. Locks!PlaceInv' BY <1>2, <1>4, <1>6 DEF Locks!IInv, Locks!PlaceInv, Locks!Shared
<1>10. Locks!HoldersGetOn'
  <2>1. "key" \notin new.held
    BY <1>2, <1>4 DEF Locks!IInv, Locks!PlaceInv, Locks!Shared
  <2> QED BY <2>1, <1>2, <1>4, <1>5, LocksLess
<1>11. Locks!ClearsWhatIsWritten'
  <2> SUFFICES ASSUME NEW u \in Threads, v1'[u].at = "clear", v1'[u].op = "flush",
                      v1'[u].id \in v5'
               PROVE  v2'[v1'[u].id] = v3'[v1'[u].id]
    BY DEF Locks!ClearsWhatIsWritten
  <2>1. u = t BY <1>2, <1>6, LocksFlushing
  <2> QED BY <2>1, <1>2, <1>4, <1>6, <1>7
<1>12. Locks!DeferredIsKept'
  <2>1. \A u \in Threads : v1[u].at # "clear" BY <1>2, LocksFlushing
  <2> QED BY <2>1, <1>2, <1>7 DEF Locks!IInv, Locks!DeferredIsKept, Locks!TypeOK
<1> QED BY <1>8, <1>9, <1>10, <1>11, <1>12 DEF Locks!IInv

LEMMA LocksFlushClear ==
    ASSUME Locks!IInv, NEW t \in Threads, Locks!FlushClear(t) PROVE Locks!IInv'
<1> DEFINE new == [v1[t] EXCEPT !.at = "work"]
           i == v1[t].id
<1>1. /\ v1[t] \in [at : Locks!Locks \cup {"idle", "work", "clear"}, held : SUBSET Locks!Locks,
                    op : Locks!Ops, id : DocIds, todo : SUBSET DocIds]
      /\ v1[t].at = "clear" /\ v1[t].op = "flush" /\ UNCHANGED <<v2, v3, v5>>
  BY DEF Locks!IInv, Locks!TypeOK, Locks!FlushClear
<1>2. /\ LocksMoves(t, new) /\ new.at = "work" /\ new.held = v1[t].held
      /\ new.op = "flush" /\ new.id = i
  BY <1>1 DEF LocksMoves, Locks!FlushClear, Locks!Goto
<1> HIDE DEF new
<1>3. v1'[t] = new /\ \A u \in Threads : u # t => v1'[u] = v1[u] BY <1>2, LocksMoved
<1>4. v4' \in [DocIds -> BOOLEAN] /\ \A j \in DocIds : j # i => v4'[j] = v4[j]
  BY <1>1 DEF Locks!FlushClear, Locks!IInv, Locks!TypeOK
<1>5. Locks!TypeOK' BY <1>1, <1>2, <1>4 DEF LocksMoves, Locks!IInv, Locks!TypeOK
<1>6. Locks!PlaceInv' BY <1>1, <1>2, <1>3 DEF Locks!IInv, Locks!PlaceInv, Locks!Shared
<1>7. Locks!HoldersGetOn' BY <1>1, <1>2, LocksLess
<1>8. Locks!ClearsWhatIsWritten'
  BY <1>1, <1>2, <1>3 DEF Locks!IInv, Locks!ClearsWhatIsWritten
<1>9. Locks!DeferredIsKept'
  <2>1. \A u \in Threads : v1[u].at = "clear" => u = t BY <1>1, LocksFlushing
  <2>2. i \in v5 => v2[i] = v3[i] BY <1>1 DEF Locks!IInv, Locks!ClearsWhatIsWritten
  <2> QED BY <1>1, <1>4, <2>1, <2>2 DEF Locks!IInv, Locks!DeferredIsKept, Locks!TypeOK
<1> QED BY <1>5, <1>6, <1>7, <1>8, <1>9 DEF Locks!IInv

LEMMA LocksStep == ASSUME Locks!IInv, [Locks!Next]_(Locks!vars) PROVE Locks!IInv'
<1>1. CASE UNCHANGED Locks!vars
  <2>0. UNCHANGED <<v1, v2, v3, v4, v5>> BY <1>1 DEF Locks!vars
  <2>1. Locks!TypeOK' BY <2>0 DEF Locks!IInv, Locks!TypeOK
  <2>2. Locks!PlaceInv' BY <2>0 DEF Locks!IInv, Locks!PlaceInv
  <2>3. Locks!HoldersGetOn' BY <2>0 DEF Locks!IInv, Locks!HoldersGetOn, Locks!Compatible
  <2>4. Locks!ClearsWhatIsWritten' BY <2>0 DEF Locks!IInv, Locks!ClearsWhatIsWritten
  <2>5. Locks!DeferredIsKept' BY <2>0 DEF Locks!IInv, Locks!DeferredIsKept
  <2> QED BY <2>1, <2>2, <2>3, <2>4, <2>5 DEF Locks!IInv
<1>2. ASSUME NEW t \in Threads, Locks!Call(t) \/ Locks!Step(t) PROVE Locks!IInv'
  BY <1>2, LocksCall, LocksTake, LocksQuiet, LocksDefer, LocksAppend, LocksPublish,
     LocksFlushWrite, LocksFlushClear DEF Locks!Step
<1> QED BY <1>1, <1>2 DEF Locks!Next

\* Of threads that wait for one another none waits for the log, for who holds it works;
\* then none for a key, and then none for the structure.
LEMMA LocksTurn == ASSUME Locks!IInv PROVE Locks!NoCircularWait
<1> SUFFICES ASSUME NEW ts \in (SUBSET Threads) \ {{}},
                    \A t \in ts : Locks!Blocks(t) \cap ts # {}
             PROVE  FALSE
  BY DEF Locks!NoCircularWait
<1>1. \A t \in ts : \E u \in ts : v1[t].at \in v1[u].held BY DEF Locks!Blocks
<1>2. \A u \in ts : v1[u].at \in Locks!Locks
  BY <1>1 DEF Locks!IInv, Locks!TypeOK
<1>3. \A t \in ts : v1[t].at # "log"
  BY <1>1, <1>2 DEF Locks!IInv, Locks!PlaceInv, Locks!Locks
<1>4. \A t \in ts : v1[t].at # "key"
  BY <1>1, <1>2, <1>3 DEF Locks!IInv, Locks!PlaceInv, Locks!Locks
<1>5. \A t \in ts : v1[t].at # "structure"
  BY <1>1, <1>2, <1>3, <1>4 DEF Locks!IInv, Locks!PlaceInv, Locks!Locks
<1> QED BY <1>2, <1>3, <1>4, <1>5 DEF Locks!Locks

----------------------------------------------------------------------------
(* The bash of bash_repl.                                                   *)

\* What is in the pipes are lines and marks.
LEMMA ReplPipes ==
    ASSUME v2 \in 0 .. MaxCommands, Repl!PipesAreTheCalls
    PROVE  v6 \in Seq({"source", "mark"}) /\ v7 \in Seq(1 .. MaxCommands)
<1> DEFINE Texts == {"source", "mark"}
<1>1. "source" \in Texts /\ "mark" \in Texts OBVIOUS
<1> HIDE DEF Texts
<1>2. <<>> \in Seq(Texts) /\ <<"mark">> \in Seq(Texts) /\ <<"source", "mark">> \in Seq(Texts)
  BY <1>1
<1>3. v6 \in Seq(Texts) BY <1>2 DEF Repl!PipesAreTheCalls
<1>4. v7 = <<>> \/ v7 = <<v2>> BY DEF Repl!PipesAreTheCalls
<1>5. v7 = <<v2>> => v2 > 0
  <2> SUFFICES ASSUME v7 = <<v2>> PROVE v2 > 0 OBVIOUS
  <2>1. v7 # <<>> OBVIOUS
  <2> QED BY <2>1 DEF Repl!PipesAreTheCalls, Repl!TypeOK
<1> DEFINE Numbers == 1 .. MaxCommands
<1>6. v7 = <<v2>> => v2 \in Numbers BY <1>5, PartsAssumption
<1> HIDE DEF Numbers
<1>7. v7 \in Seq(Numbers)
  <2>1. CASE v7 = <<>> BY <2>1
  <2>2. CASE v7 = <<v2>> BY <1>6, <2>2
  <2> QED BY <1>4, <2>1, <2>2
<1> QED BY <1>3, <1>7 DEF Texts, Numbers

\* The types but for the pipes, which follow from what the pipes hold.
ReplShape ==
    /\ v1 \in {"none", "run", "waiting", "grace"}
    /\ v2 \in 0 .. MaxCommands /\ v3 \in BOOLEAN
    /\ v4 \in {"none", "idle", "busy", "dead"} /\ v5 \in 0 .. MaxShells
    /\ v8 \in BOOLEAN /\ v9 \in BOOLEAN
    /\ v10 \in Repl!Commands
    /\ v11 \in [of : 0 .. MaxCommands, restarted : BOOLEAN, error : BOOLEAN]
    /\ v12 \in 0 .. MaxShells

LEMMA ReplShapeIs ==
    /\ Repl!IInv => ReplShape /\ Repl!NothingIsBelievedOfNone /\ Repl!PipesAreTheCalls /\ Repl!LossIsTold
    /\ ReplShape /\ Repl!NothingIsBelievedOfNone /\ Repl!PipesAreTheCalls /\ Repl!LossIsTold => Repl!IInv
<1>1. Repl!IInv => ReplShape BY DEF Repl!IInv, Repl!TypeOK, ReplShape
<1>2. ReplShape /\ Repl!PipesAreTheCalls => Repl!TypeOK
  <2> SUFFICES ASSUME ReplShape, Repl!PipesAreTheCalls PROVE Repl!TypeOK OBVIOUS
  <2>1. v2 \in 0 .. MaxCommands BY DEF ReplShape
  <2> QED BY <2>1, ReplPipes DEF ReplShape, Repl!TypeOK
<1> QED BY <1>1, <1>2 DEF Repl!IInv

LEMMA ReplShapeNext ==
    (ReplShape /\ Repl!NothingIsBelievedOfNone /\ Repl!PipesAreTheCalls /\ Repl!LossIsTold
       => Repl!IInv)'
BY ReplShapeIs, PTL

LEMMA ReplInit == ASSUME Repl!Init PROVE Repl!IInv
<1>1. {v3, v8, v9} \subseteq BOOLEAN BY DEF Repl!Init
<1>2. v11 \in [of : 0 .. MaxCommands, restarted : BOOLEAN, error : BOOLEAN]
  BY PartsAssumption DEF Repl!Init, Repl!Returned
<1>3. v10 \in Repl!Commands BY DEF Repl!Init, Repl!Commands
<1>4. v1 = "none" /\ v2 = 0 /\ v4 = "none" /\ v5 = 0 /\ v6 = <<>> /\ v7 = <<>> /\ v12 = 0
  BY DEF Repl!Init
<1>5. ReplShape BY <1>1, <1>2, <1>3, <1>4, PartsAssumption DEF ReplShape
<1> QED
  BY <1>4, <1>5, ReplShapeIs DEF Repl!NothingIsBelievedOfNone, Repl!PipesAreTheCalls, Repl!LossIsTold

\* What a call returned, whichever way.
LEMMA ReplReturn ==
    ASSUME ReplShape, NEW of \in 0 .. MaxCommands, NEW restarted \in BOOLEAN, NEW error \in BOOLEAN,
           Repl!Return(of, restarted, error)
    PROVE  /\ v1' = "none" /\ UNCHANGED <<v2, v3, v10>>
           /\ v11' \in [of : 0 .. MaxCommands, restarted : BOOLEAN, error : BOOLEAN]
           /\ v11'.of = of
           /\ v12' = (IF restarted \/ error THEN 0 ELSE v5)
BY DEF Repl!Return, Repl!Returned

\* Between the calls a shell, or none, with nothing in its pipes.
LEMMA ReplStopped ==
    ASSUME ReplShape, Repl!Stop, v12' = 0, UNCHANGED v2, v1' \in {"none", v1},
           v1' # "none" => v2 > 0, v1' \in {"none", "run"}, UNCHANGED <<v3, v10>>,
           v11' \in [of : 0 .. MaxCommands, restarted : BOOLEAN, error : BOOLEAN]
    PROVE  Repl!IInv'
<1>1. v4' = "none" /\ v6' = <<>> /\ v7' = <<>> /\ v5' = v5 BY DEF Repl!Stop
<1>2. v8' \in BOOLEAN /\ v9' \in BOOLEAN BY DEF Repl!Stop
<1>3. ReplShape' BY <1>1, <1>2, PartsAssumption DEF ReplShape
<1> QED
  BY <1>1, <1>3, ReplShapeNext DEF Repl!NothingIsBelievedOfNone, Repl!PipesAreTheCalls, Repl!LossIsTold

LEMMA ReplStep ==
    ASSUME Repl!IInv, [Repl!Next]_(Repl!vars)
    PROVE  Repl!IInv' /\ (Repl!OutcomeIsOwn \/ UNCHANGED Repl!vars)
<1> DEFINE Good == Repl!IInv' /\ (Repl!OutcomeIsOwn \/ UNCHANGED Repl!vars)
<1> USE DEF Repl!shellVars
<1>a. /\ ReplShape /\ Repl!NothingIsBelievedOfNone /\ Repl!PipesAreTheCalls /\ Repl!LossIsTold
      /\ v2 \in 0 .. MaxCommands
  BY ReplShapeIs DEF ReplShape
<1>b. ASSUME ReplShape', Repl!NothingIsBelievedOfNone', Repl!PipesAreTheCalls', Repl!LossIsTold'
      PROVE  Repl!IInv'
  BY <1>b, ReplShapeNext
<1>1. CASE UNCHANGED Repl!vars
  BY <1>a, <1>1, <1>b
     DEF Repl!vars, ReplShape, Repl!NothingIsBelievedOfNone, Repl!PipesAreTheCalls, Repl!LossIsTold
<1>2. CASE Repl!Call
  <2>1. v2' = v2 + 1 /\ v2' \in 1 .. MaxCommands /\ v1 = "none" /\ v1' = "run"
    BY <1>2, <1>a, PartsAssumption DEF Repl!Call
  <2>2. UNCHANGED <<v4, v5, v6, v7, v8, v9, v11, v12>> /\ v3' \in BOOLEAN /\ v10' \in Repl!Commands
    BY <1>2 DEF Repl!Call
  <2>3. ReplShape' BY <1>a, <2>1, <2>2 DEF ReplShape
  <2> QED
    BY <1>a, <1>b, <2>1, <2>2, <2>3
       DEF Repl!NothingIsBelievedOfNone, Repl!PipesAreTheCalls, Repl!LossIsTold, Repl!OutcomeIsOwn
<1>3. CASE Repl!Restart
  BY <1>3, <1>a, ReplStopped DEF Repl!Restart, ReplShape, Repl!OutcomeIsOwn
<1>4. CASE Repl!Start
  <2>1. v5' = v5 + 1 /\ v5' \in 0 .. MaxShells /\ v4' = "idle" /\ v1 = "run" /\ v12 = 0
    BY <1>4, <1>a, PartsAssumption DEF Repl!Start, ReplShape, Repl!NothingIsBelievedOfNone
  <2>2. UNCHANGED <<v1, v2, v3, v6, v7, v8, v9, v10, v11, v12>> BY <1>4 DEF Repl!Start
  <2>3. ReplShape' BY <1>a, <2>1, <2>2 DEF ReplShape
  <2> QED
    BY <1>a, <1>b, <2>1, <2>2, <2>3
       DEF Repl!NothingIsBelievedOfNone, Repl!PipesAreTheCalls, Repl!LossIsTold, Repl!OutcomeIsOwn
<1>5. CASE Repl!StartFails
  <2>1. Repl!Return(v2, FALSE, TRUE) /\ UNCHANGED <<v4, v5, v6, v7, v8, v9>> /\ v4 = "none" /\ v1 = "run"
    BY <1>5 DEF Repl!StartFails
  <2>2. /\ v1' = "none" /\ UNCHANGED <<v2, v3, v10>> /\ v12' = 0 /\ v11'.of = v2
        /\ v11' \in [of : 0 .. MaxCommands, restarted : BOOLEAN, error : BOOLEAN]
    BY <1>a, <2>1, ReplReturn
  <2>3. ReplShape' BY <1>a, <2>1, <2>2, PartsAssumption DEF ReplShape
  <2> QED
    BY <1>a, <1>b, <2>1, <2>2, <2>3
       DEF Repl!NothingIsBelievedOfNone, Repl!PipesAreTheCalls, Repl!LossIsTold, Repl!OutcomeIsOwn
<1>6. CASE Repl!StageFails
  <2>1. /\ v1 = "run" /\ v1' = "none" /\ v4 # "none"
        /\ UNCHANGED <<v2, v3, v4, v5, v6, v7, v8, v9, v10, v12>>
    BY <1>6 DEF Repl!StageFails
  <2>2. /\ v11' \in [of : 0 .. MaxCommands, restarted : BOOLEAN, error : BOOLEAN] /\ v11'.of = v2
    BY <1>6, <1>a DEF Repl!StageFails, Repl!Returned
  <2>3. ReplShape' BY <1>a, <2>1, <2>2 DEF ReplShape
  <2> QED
    BY <1>a, <1>b, <2>1, <2>2, <2>3
       DEF Repl!NothingIsBelievedOfNone, Repl!PipesAreTheCalls, Repl!LossIsTold, Repl!OutcomeIsOwn
<1>7. CASE Repl!Send
  <2>1. /\ v1 = "run" /\ v1' = "waiting" /\ v4 \in {"idle", "busy"} /\ v6 = <<>> /\ v7 = <<>>
        /\ UNCHANGED <<v2, v3, v4, v5, v7, v8, v9, v10, v11, v12>>
    BY <1>7, <1>a DEF Repl!Send, Repl!PipesAreTheCalls
  <2>2. v6' = <<"source", "mark">> BY <1>7, <2>1 DEF Repl!Send
  <2>3. ReplShape' BY <1>a, <2>1 DEF ReplShape
  <2> QED
    BY <1>a, <1>b, <2>1, <2>2, <2>3
       DEF Repl!NothingIsBelievedOfNone, Repl!PipesAreTheCalls, Repl!LossIsTold, Repl!OutcomeIsOwn
\* A call that returns with its shell put away.
<1>8. ASSUME NEW restarted \in BOOLEAN, NEW error \in BOOLEAN, restarted \/ error,
             Repl!Return(v2, restarted, error), Repl!Stop
      PROVE  Good
  <2>1. /\ v1' = "none" /\ UNCHANGED <<v2, v3, v10>> /\ v12' = 0 /\ v11'.of = v2
        /\ v11' \in [of : 0 .. MaxCommands, restarted : BOOLEAN, error : BOOLEAN]
    BY <1>a, <1>8, ReplReturn
  <2> QED BY <1>8, <1>a, <2>1, ReplStopped DEF Repl!OutcomeIsOwn
<1>9. CASE Repl!SendFails \/ Repl!Died \/ Repl!GiveUp
  BY <1>8, <1>9 DEF Repl!SendFails, Repl!Died, Repl!GiveUp
<1>10. CASE Repl!Source
  <2>1. /\ v4 = "idle" /\ v6 # <<>> /\ Head(v6) = "source"
        /\ UNCHANGED <<v1, v2, v3, v5, v7, v10, v11, v12>>
    BY <1>10 DEF Repl!Source
  <2>2. v6 = <<"source", "mark">> /\ v7 = <<>> /\ v1 \in {"waiting", "grace"}
    BY <1>a, <2>1 DEF Repl!PipesAreTheCalls, ReplShape
  <2>3. v6' \in {<<"mark">>, <<>>} /\ v4' \in {"busy", "dead"}
    BY <1>10, <2>2 DEF Repl!Source
  <2>4. v8' \in BOOLEAN /\ v9' \in BOOLEAN
    BY <1>10, <1>a DEF Repl!Source, ReplShape
  <2>5. ReplShape' BY <1>a, <2>1, <2>3, <2>4 DEF ReplShape
  <2> QED
    BY <1>a, <1>b, <2>1, <2>2, <2>3, <2>5
       DEF Repl!NothingIsBelievedOfNone, Repl!PipesAreTheCalls, Repl!LossIsTold, Repl!OutcomeIsOwn
<1>11. CASE Repl!Mark
  <2>1. /\ v4 = "idle" /\ v6 # <<>> /\ Head(v6) = "mark"
        /\ UNCHANGED <<v1, v2, v3, v4, v5, v8, v9, v10, v11, v12>>
    BY <1>11 DEF Repl!Mark
  <2>2. v6 = <<"mark">> /\ v7 = <<>> /\ v1 \in {"waiting", "grace"}
    BY <1>a, <2>1 DEF Repl!PipesAreTheCalls, ReplShape
  <2>3. v6' = <<>> /\ v7' = <<v2>> BY <1>11, <2>2 DEF Repl!Mark
  <2>4. ReplShape' BY <1>a, <2>1 DEF ReplShape
  <2> QED
    BY <1>a, <1>b, <2>1, <2>2, <2>3, <2>4
       DEF Repl!NothingIsBelievedOfNone, Repl!PipesAreTheCalls, Repl!LossIsTold, Repl!OutcomeIsOwn
<1>12. CASE Repl!CommandEnds \/ Repl!Interrupt
  <2>1. /\ UNCHANGED <<v2, v3, v5, v6, v7, v8, v9, v10, v11, v12>>
        /\ v4' \in {v4, "idle"} /\ (v4' # v4 => v4 = "busy")
        /\ v1' = v1 \/ (v1 = "waiting" /\ v1' = "grace")
    BY <1>12 DEF Repl!CommandEnds, Repl!Interrupt
  <2>2. ReplShape' BY <1>a, <2>1 DEF ReplShape
  <2> QED
    BY <1>a, <1>b, <2>1, <2>2
       DEF Repl!NothingIsBelievedOfNone, Repl!PipesAreTheCalls, Repl!LossIsTold, Repl!OutcomeIsOwn
<1>13. CASE Repl!Killed
  <2>1. /\ UNCHANGED <<v1, v2, v3, v5, v7, v8, v10, v11, v12>> /\ v4' = "dead" /\ v6' = <<>>
        /\ v4 # "none"
    BY <1>13 DEF Repl!Killed
  <2>2. v9' \in BOOLEAN BY <1>13 DEF Repl!Killed
  <2>3. ReplShape' BY <1>a, <2>1, <2>2 DEF ReplShape
  <2> QED
    BY <1>a, <1>b, <2>1, <2>3
       DEF Repl!NothingIsBelievedOfNone, Repl!PipesAreTheCalls, Repl!LossIsTold, Repl!OutcomeIsOwn
\* The marker is that of the call in hand, and the last thing in the pipes.
<1>14. CASE Repl!Marker
  <2>1. /\ v1 \in {"waiting", "grace"} /\ v7 # <<>> /\ UNCHANGED <<v4, v5, v6, v8, v9>>
        /\ v7' = Tail(v7) /\ Repl!Return(Head(v7), FALSE, FALSE)
    BY <1>14 DEF Repl!Marker
  <2>2. v6 = <<>> /\ v7 = <<v2>> BY <1>a, <2>1 DEF Repl!PipesAreTheCalls
  <2>3. Head(v7) = v2 /\ v7' = <<>> BY <2>1, <2>2
  <2>4. /\ v1' = "none" /\ UNCHANGED <<v2, v3, v10>> /\ v12' = v5 /\ v11'.of = v2
        /\ v11' \in [of : 0 .. MaxCommands, restarted : BOOLEAN, error : BOOLEAN]
    BY <1>a, <2>1, <2>3, ReplReturn
  <2>5. v4 # "none" BY <1>a, <2>1 DEF Repl!NothingIsBelievedOfNone
  <2>6. ReplShape' BY <1>a, <2>1, <2>4 DEF ReplShape
  <2> QED
    BY <1>a, <1>b, <2>1, <2>2, <2>3, <2>4, <2>5, <2>6
       DEF Repl!NothingIsBelievedOfNone, Repl!PipesAreTheCalls, Repl!LossIsTold, Repl!OutcomeIsOwn
<1> QED
  BY <1>1, <1>2, <1>3, <1>4, <1>5, <1>6, <1>7, <1>9, <1>10, <1>11, <1>12, <1>13, <1>14
     DEF Repl!Next, Repl!CallerStep, Repl!ShellStep, Repl!Idle

----------------------------------------------------------------------------
(* The shells.                                                             *)

LEMMA ShellInit == ASSUME Shell!Init PROVE Shell!IInv
<1>1. {v2, v5, v6} \subseteq BOOLEAN BY DEF Shell!Init
<1>2. /\ v1 \in {"alive", "deaf"} /\ v3 = "poll" /\ v4 = "open" /\ v7 = 0 /\ v8 = 0
      /\ Shell!ReapedOnce
  BY DEF Shell!Init, Shell!ReapedOnce
<1> QED BY <1>1, <1>2 DEF Shell!IInv, Shell!TypeOK, Shell!NoStraySignal

LEMMA ShellStep == ASSUME Shell!IInv, [Shell!Next]_(Shell!vars) PROVE Shell!IInv'
<1> USE DEF Shell!IInv, Shell!TypeOK, Shell!ReapedOnce, Shell!NoStraySignal
<1>1. CASE UNCHANGED Shell!vars BY <1>1 DEF Shell!vars
<1>2. CASE Shell!ShellExits BY <1>2 DEF Shell!ShellExits
<1>3. CASE Shell!LastUserLeaves BY <1>3 DEF Shell!LastUserLeaves
<1>4. CASE Shell!SeesStop \/ Shell!SeesEnd BY <1>4 DEF Shell!SeesStop, Shell!SeesEnd
<1>5. CASE Shell!DecideWho BY <1>5 DEF Shell!DecideWho
<1>6. CASE Shell!Reap BY <1>6 DEF Shell!Reap
<1>7. CASE Shell!Destroy \/ Shell!Join
  <2>1. v5' \in BOOLEAN BY <1>7 DEF Shell!Destroy, Shell!Join
  <2>2. /\ UNCHANGED <<v1, v2, v3, v6, v7, v8>>
        /\ v4' = "join" \/ (v4' = "stop" /\ v3 = "done")
    BY <1>7 DEF Shell!Destroy, Shell!Join
  <2> QED BY <2>1, <2>2
<1>8. CASE Shell!StopChild BY <1>8 DEF Shell!StopChild
<1>9. CASE Shell!ReapOrKill BY <1>9 DEF Shell!ReapOrKill
<1> QED
  BY <1>1, <1>2, <1>3, <1>4, <1>5, <1>6, <1>7, <1>8, <1>9
     DEF Shell!Next, Shell!Reader, Shell!Owner, Shell!Closed

----------------------------------------------------------------------------
(* The index of commands.                                                  *)

Endings == {"no", "signalled", "joins", "alone", "exited"}
Places == {"idle", "started", "build", "open", "write", "rename", "swap", "ended"}

\* Whoever calls the tool is not the worker, and no word for the lock.
LEMMA SearchFacts ==
    /\ "rescan" \notin Callers /\ "free" \notin Callers
    /\ BashIndex!Actors = Callers \cup {"rescan"} /\ BashIndex!Worker = "rescan"
    /\ 0 \notin BashIndex!Inodes /\ 1 \in BashIndex!Inodes
    /\ MaxInstalls \in Nat /\ MaxInstalls > 0 /\ BashIndex!Mixed = MaxInstalls + 1
<1>1. BashIndex!Actors = Callers \cup {"rescan"} /\ BashIndex!Worker = "rescan"
  BY DEF BashIndex!Actors, BashIndex!Worker
<1>2. IsFiniteSet(Callers \cup {"rescan"})
  BY SearchAssumption, FS_AddElement
<1>3. PICK n \in Nat : n = Cardinality(BashIndex!Actors) BY <1>1, <1>2, FS_CardinalityType
<1>4. 0 \notin BashIndex!Inodes /\ 1 \in BashIndex!Inodes
  <2>0. BashIndex!Cardinality(BashIndex!Actors) = Cardinality(BashIndex!Actors)
    BY DEF BashIndex!Cardinality, Cardinality
  <2>1. BashIndex!Inodes = 1 .. n + 2 BY <1>3, <2>0 DEF BashIndex!Inodes
  <2> QED BY <2>1
<1>5. /\ MaxInstalls \in Nat /\ MaxInstalls > 0 /\ BashIndex!Mixed = MaxInstalls + 1
      /\ "rescan" \notin Callers /\ "free" \notin Callers
  BY SearchAssumption DEF BashIndex!Mixed
<1> QED BY <1>1, <1>4, <1>5

\* The types of the index, with the words for what the module calls them.
IndexTypes ==
    /\ v3 \in 1 .. MaxInstalls /\ v4 \in 0 .. MaxInstalls /\ v13 \in 0 .. v3
    /\ v5 \in BOOLEAN /\ v15 \in Endings /\ v14 \in Nat /\ v6 \in Callers \cup {"free"}
    /\ v7 \in [BashIndex!Actors -> Places] /\ v8 \in [BashIndex!Actors -> 0 .. MaxInstalls]
    /\ v9 \in [BashIndex!Inodes -> 0 .. MaxInstalls + 1]
    /\ v10 \in BashIndex!Inodes \cup {0} /\ v11 \in BashIndex!Inodes \cup {0}

IndexOrder ==
    /\ v7["rescan"] = "idle" <=> v13 = 0
    /\ v13 # 0 => v5
    /\ v15 = "joins" => v7["rescan"] # "idle"
    /\ v15 \in {"alone", "exited"} => v7["rescan"] \in {"idle", "started", "ended"}

LEMMA IndexInvIs ==
    BashIndex!IInv <=> IndexTypes /\ IndexOrder /\ BashIndex!RefreshInv
<1>1. BashIndex!TypeOK /\ BashIndex!WorkerInv => IndexTypes /\ IndexOrder
  BY SearchFacts DEF BashIndex!TypeOK, BashIndex!WorkerInv, IndexTypes, IndexOrder, Places, Endings
<1>2. IndexTypes /\ IndexOrder => BashIndex!TypeOK
  BY SearchFacts DEF BashIndex!TypeOK, IndexTypes, IndexOrder, Places
<1>3. IndexTypes /\ IndexOrder => BashIndex!WorkerInv
  BY SearchFacts DEF BashIndex!WorkerInv, IndexTypes, IndexOrder, Places, Endings
<1> QED BY <1>1, <1>2, <1>3 DEF BashIndex!IInv

LEMMA IndexInvNext ==
    (IndexTypes /\ IndexOrder /\ BashIndex!RefreshInv => BashIndex!IInv)'
BY IndexInvIs, PTL

LEMMA CommandsInit == ASSUME BashIndex!IndexInit PROVE BashIndex!IInv
<1> USE SearchFacts DEF BashIndex!IndexInit, BashIndex!Nothing
<1>1. v9 \in [BashIndex!Inodes -> 0 .. MaxInstalls + 1] OBVIOUS
<1>a. v7 = [t \in BashIndex!Actors |-> "idle"] /\ v8 = [t \in BashIndex!Actors |-> 0]
  OBVIOUS
<1>2. v7 \in [BashIndex!Actors -> Places] /\ v8 \in [BashIndex!Actors -> 0 .. MaxInstalls]
  BY <1>a DEF Places
<1>3. \A t \in BashIndex!Actors : v7[t] = "idle" BY ONLY <1>a
<1>b. /\ v3 \in 1 .. MaxInstalls /\ v4 \in 0 .. MaxInstalls /\ v13 \in 0 .. v3
      /\ v5 \in BOOLEAN /\ v15 \in Endings /\ v14 \in Nat /\ v6 \in Callers \cup {"free"}
  <2>1. v3 = 1 /\ v4 = 0 /\ v13 = 0 /\ v14 = 0 /\ v5 = FALSE /\ v15 = "no" /\ v6 = "free"
    OBVIOUS
  <2>2. MaxInstalls \in Nat /\ MaxInstalls > 0 OBVIOUS
  <2>3. v3 \in 1 .. MaxInstalls /\ v4 \in 0 .. MaxInstalls /\ v13 \in 0 .. v3 /\ v14 \in Nat
    BY ONLY <2>1, <2>2
  <2>4. v5 \in BOOLEAN /\ v15 \in Endings /\ v6 \in Callers \cup {"free"}
    BY ONLY <2>1 DEF Endings
  <2> QED BY ONLY <2>3, <2>4
<1>c. v10 \in BashIndex!Inodes \cup {0} /\ v11 \in BashIndex!Inodes \cup {0} OBVIOUS
<1>4. IndexTypes BY ONLY <1>1, <1>2, <1>b, <1>c DEF IndexTypes
<1>5. IndexOrder
  <2>1. v7["rescan"] = "idle" /\ v13 = 0 /\ v15 = "no" BY <1>3
  <2> QED BY ONLY <2>1 DEF IndexOrder
<1>6. BashIndex!RefreshInv BY <1>3 DEF BashIndex!RefreshInv
<1> QED BY <1>4, <1>5, <1>6, IndexInvIs

\* Where everybody is after somebody went somewhere.
LEMMA GoIs ==
    ASSUME NEW t \in BashIndex!Actors, NEW place \in Places, IndexTypes,
           BashIndex!Go(t, place)
    PROVE  /\ v7' \in [BashIndex!Actors -> Places]
           /\ \A u \in BashIndex!Actors : v7'[u] = IF u = t THEN place ELSE v7[u]
BY DEF BashIndex!Go, IndexTypes

\* An index is built of what is installed, or of nothing.
LEMMA BuiltIs ==
    ASSUME NEW t \in BashIndex!Actors, IndexTypes, BashIndex!BuildIndex(t)
    PROVE  /\ v8' \in [BashIndex!Actors -> 0 .. MaxInstalls]
           /\ v8'[t] \in 0 .. MaxInstalls /\ v8'[t] \in {v3, 0}
<1>1. v8 \in [BashIndex!Actors -> 0 .. MaxInstalls] /\ v3 \in 1 .. MaxInstalls BY DEF IndexTypes
<1>2. PICK build \in {v3, 0} : v8' = [v8 EXCEPT ![t] = build]
  BY DEF BashIndex!BuildIndex, BashIndex!Nothing
<1>3. build \in 0 .. MaxInstalls BY <1>1, <1>2, SearchFacts
<1> HIDE DEF IndexTypes
<1> QED BY ONLY <1>1, <1>2, <1>3, t \in BashIndex!Actors

\* A search, answered from the cache or by an index built here.
LEMMA SearchKeeps ==
    ASSUME BashIndex!IInv, NEW t \in Callers, BashIndex!Search(t) PROVE BashIndex!IInv'
<1>1. IndexTypes /\ IndexOrder /\ BashIndex!RefreshInv BY IndexInvIs
<1>2. /\ v7[t] = "idle" /\ v6 = "free" /\ ~v5 /\ v15 # "exited" /\ v13 = 0
      /\ v3' = v3 /\ v9' = v9 /\ v10' = v10 /\ v11' = v11 /\ v14' = v14 /\ v15' = v15
  BY <1>1 DEF BashIndex!Search, IndexTypes, IndexOrder
<1>3. t \in BashIndex!Actors /\ "rescan" \in BashIndex!Actors /\ t # "rescan" BY SearchFacts
<1>4. CASE BashIndex!CacheReads
  <2>1. /\ v4' = v9[v11] /\ v5' = TRUE /\ v13' = v3 /\ v6' = v6 /\ v8' = v8
        /\ v7' = [v7 EXCEPT ![t] = "idle",
                            !["rescan"] = IF @ = "idle" THEN "started" ELSE @]
    BY <1>4, SearchFacts DEF BashIndex!Search, BashIndex!StartRescan
  <2>2. v7["rescan"] = "idle" BY <1>1, <1>2 DEF IndexOrder
  <2>3. /\ v7' \in [BashIndex!Actors -> Places] /\ v7'["rescan"] = "started"
        /\ \A u \in Callers : v7'[u] = v7[u]
    BY <1>1, <1>2, <1>3, <2>1, <2>2, SearchFacts DEF IndexTypes, Places
  <2>4. v4' \in 0 .. MaxInstalls
    <3>1. v11 \in BashIndex!Inodes /\ v9[v11] # MaxInstalls + 1
      BY <1>1, <1>4, SearchFacts DEF BashIndex!CacheReads, IndexTypes
    <3>2. v9[v11] \in 0 .. MaxInstalls + 1 BY <1>1, <3>1 DEF IndexTypes
    <3> QED BY <2>1, <3>1, <3>2, SearchFacts
  <2>5. IndexTypes' BY <1>1, <1>2, <2>1, <2>3, <2>4 DEF IndexTypes
  <2>6. v13' # 0 BY <1>1, <2>1 DEF IndexTypes
  <2>7. IndexOrder'
    <3>1. v7'["rescan"] = "started" /\ v13' # 0 /\ v5' = TRUE BY <2>1, <2>3, <2>6
    <3> QED BY ONLY <3>1 DEF IndexOrder
  <2>8. BashIndex!RefreshInv'
    <3>1. v14 = 0 => \A u \in Callers : v7[u] = "idle"
      BY <1>1, <1>2, SearchFacts DEF BashIndex!RefreshInv
    <3> QED BY <1>2, <2>3, <3>1, SearchFacts DEF BashIndex!RefreshInv
  <2> QED BY <2>5, <2>7, <2>8, IndexInvNext
<1>5. CASE ~BashIndex!CacheReads
  <2>1. /\ v6' = t /\ v4' = v8'[t] /\ BashIndex!BuildIndex(t) /\ v5' = v5 /\ v13' = v13
        /\ BashIndex!Go(t, "open")
    BY <1>5 DEF BashIndex!Search
  <2>2. /\ v7' \in [BashIndex!Actors -> Places]
        /\ \A u \in BashIndex!Actors : v7'[u] = IF u = t THEN "open" ELSE v7[u]
    <3>1. "open" \in Places BY DEF Places
    <3> QED BY <1>1, <1>3, <2>1, <3>1, GoIs
  <2>3. v8' \in [BashIndex!Actors -> 0 .. MaxInstalls] /\ v4' \in 0 .. MaxInstalls
    BY <1>1, <1>3, <2>1, BuiltIs
  <2>5. IndexTypes' BY <1>1, <1>2, <2>1, <2>2, <2>3 DEF IndexTypes
  <2>6. IndexOrder' BY <1>1, <1>2, <1>3, <2>1, <2>2, SearchFacts DEF IndexOrder
  <2>7. BashIndex!RefreshInv'
    <3>1. v14 = 0 => \A u \in Callers : v7[u] = "idle"
      BY <1>1, <1>2, SearchFacts DEF BashIndex!RefreshInv
    <3> QED BY <1>2, <2>1, <2>2, <3>1, SearchFacts DEF BashIndex!RefreshInv
  <2> QED BY <2>5, <2>6, <2>7, IndexInvNext
<1> QED BY <1>4, <1>5

LEMMA ScanKeeps ==
    ASSUME BashIndex!IInv, NEW t \in Callers, BashIndex!Scan(t) PROVE BashIndex!IInv'
<1>1. IndexTypes /\ IndexOrder /\ BashIndex!RefreshInv BY IndexInvIs
<1>2. /\ v7[t] = "idle" /\ BashIndex!BuildIndex(t) /\ BashIndex!Go(t, "open")
      /\ UNCHANGED <<v3, v4, v5, v6, v9, v10, v11, v13, v15>>
  BY DEF BashIndex!Scan
<1>3. t \in BashIndex!Actors /\ "rescan" \in BashIndex!Actors /\ t # "rescan" BY SearchFacts
<1>4. /\ v7' \in [BashIndex!Actors -> Places]
      /\ \A u \in BashIndex!Actors : v7'[u] = IF u = t THEN "open" ELSE v7[u]
  <2>1. "open" \in Places BY DEF Places
  <2> QED BY <1>1, <1>2, <1>3, <2>1, GoIs
<1>5. v8' \in [BashIndex!Actors -> 0 .. MaxInstalls] BY <1>1, <1>2, <1>3, BuiltIs
<1>8. v14' \in Nat /\ v14' # 0 BY <1>1 DEF BashIndex!Scan, IndexTypes
<1>6. IndexTypes' BY <1>1, <1>2, <1>4, <1>5, <1>8 DEF IndexTypes
<1>7. IndexOrder' BY <1>1, <1>2, <1>3, <1>4, SearchFacts DEF IndexOrder
<1>9. BashIndex!RefreshInv' BY <1>8 DEF BashIndex!RefreshInv
<1> QED BY <1>6, <1>7, <1>9, IndexInvNext

\* A step of somebody who builds and writes, that is neither the first nor the last.
LEMMA WritesOn ==
    ASSUME BashIndex!IInv, NEW t \in BashIndex!Actors,
           v7[t] \in {"open", "write", "rename"},
           NEW place \in {"write", "rename", "swap"}, BashIndex!Go(t, place),
           UNCHANGED <<v3, v4, v5, v6, v8, v13, v14, v15>>,
           v9' \in [BashIndex!Inodes -> 0 .. MaxInstalls + 1],
           v10' \in BashIndex!Inodes \cup {0}, v11' \in BashIndex!Inodes \cup {0}
    PROVE  BashIndex!IInv'
<1>1. IndexTypes /\ IndexOrder /\ BashIndex!RefreshInv BY IndexInvIs
<1>2. /\ v7' \in [BashIndex!Actors -> Places]
      /\ \A u \in BashIndex!Actors : v7'[u] = IF u = t THEN place ELSE v7[u]
  BY <1>1, GoIs DEF Places
<1>3. IndexTypes' BY <1>1, <1>2 DEF IndexTypes
<1>4. \A u \in Callers : u \in BashIndex!Actors BY SearchFacts
<1>5. \A u \in BashIndex!Actors : v7'[u] = "idle" <=> v7[u] = "idle" BY <1>2
<1>6. \A u \in BashIndex!Actors : v7'[u] = "ended" <=> v7[u] = "ended" BY <1>2
<1>7. IndexOrder'
  <2>1. "rescan" \in BashIndex!Actors BY SearchFacts
  <2>2. v7'["rescan"] \in {"idle", "started", "ended"} <=> v7["rescan"] \in {"idle", "started", "ended"}
    BY ONLY <1>2, <2>1, v7[t] \in {"open", "write", "rename"}, place \in {"write", "rename", "swap"}
  <2>3. v7'["rescan"] = "idle" <=> v7["rescan"] = "idle" BY <1>5, <2>1
  <2> QED BY <1>1, <2>2, <2>3 DEF IndexOrder
<1>8. \A u \in BashIndex!Actors :
          v7'[u] \in {"open", "write", "rename", "swap"} => v7[u] \in {"open", "write", "rename", "swap"}
  BY <1>2
<1>9. BashIndex!RefreshInv'
  BY <1>1, <1>4, <1>5, <1>6, <1>8, SearchFacts DEF BashIndex!RefreshInv, BashIndex!mStop,
     BashIndex!Nothing
<1> QED BY <1>3, <1>7, <1>9, IndexInvNext

LEMMA WritesKeep ==
    ASSUME BashIndex!IInv, NEW t \in BashIndex!Actors,
           BashIndex!Open(t) \/ BashIndex!Write(t) \/ BashIndex!Rename(t)
    PROVE  BashIndex!IInv'
<1>1. IndexTypes BY IndexInvIs
<1>2. CASE BashIndex!Open(t)
  <2>1. PICK i \in BashIndex!Inodes : v10' = i /\ v9' = [v9 EXCEPT ![i] = 0]
    BY <1>2 DEF BashIndex!Open, BashIndex!Nothing
  <2>2. v9' \in [BashIndex!Inodes -> 0 .. MaxInstalls + 1]
    BY <1>1, <2>1, SearchFacts DEF IndexTypes
  <2>3. /\ v7[t] = "open" /\ BashIndex!Go(t, "write")
        /\ UNCHANGED <<v3, v4, v5, v6, v8, v11, v13, v14, v15>>
    BY <1>2 DEF BashIndex!Open
  <2> QED BY <1>1, <2>1, <2>2, <2>3, WritesOn DEF IndexTypes
<1>3. CASE BashIndex!Write(t)
  <2>1. /\ v7[t] = "write" /\ BashIndex!Go(t, "rename")
        /\ UNCHANGED <<v3, v4, v5, v6, v8, v10, v11, v13, v14, v15>>
    BY <1>3 DEF BashIndex!Write
  <2>2. \E x \in 0 .. MaxInstalls + 1 : v9' = [v9 EXCEPT ![v12[t]] = x]
    <3>1. v8[t] \in 0 .. MaxInstalls + 1 /\ BashIndex!Mixed \in 0 .. MaxInstalls + 1
      BY <1>1, SearchFacts DEF IndexTypes
    <3> QED BY <1>3, <3>1 DEF BashIndex!Write
  <2>3. v9' \in [BashIndex!Inodes -> 0 .. MaxInstalls + 1] BY <1>1, <2>2 DEF IndexTypes
  <2> QED BY <1>1, <2>1, <2>3, WritesOn DEF IndexTypes
<1>4. CASE BashIndex!Rename(t)
  <2>1. /\ v7[t] = "rename" /\ BashIndex!Go(t, "swap")
        /\ UNCHANGED <<v3, v4, v5, v6, v8, v9, v13, v14, v15>>
    BY <1>4 DEF BashIndex!Rename
  <2>2. v10' \in BashIndex!Inodes \cup {0} /\ v11' \in BashIndex!Inodes \cup {0}
    BY <1>1, <1>4 DEF BashIndex!Rename, IndexTypes
  <2> QED BY <1>1, <2>1, <2>2, WritesOn DEF IndexTypes
<1> QED BY <1>2, <1>3, <1>4

\* What was built is taken over under the lock.
LEMMA SwapKeeps ==
    ASSUME BashIndex!IInv, NEW t \in BashIndex!Actors, BashIndex!Swap(t)
    PROVE  BashIndex!IInv'
<1>1. IndexTypes /\ IndexOrder /\ BashIndex!RefreshInv BY IndexInvIs
<1> DEFINE place == IF t = "rescan" THEN "ended" ELSE "idle"
<1>2. /\ v7[t] = "swap" /\ v6 \in {"free", t} /\ v4' = v8[t] /\ v6' = "free"
      /\ v5' = (v5 \/ t # "rescan") /\ BashIndex!Go(t, place)
      /\ UNCHANGED <<v3, v8, v9, v10, v11, v13, v14, v15>>
  BY SearchFacts DEF BashIndex!Swap
<1>3. /\ v7' \in [BashIndex!Actors -> Places]
      /\ \A u \in BashIndex!Actors : v7'[u] = IF u = t THEN place ELSE v7[u]
  BY <1>1, <1>2, GoIs DEF Places
<1>4. v5' \in BOOLEAN /\ (v5 => v5') BY <1>1, <1>2 DEF IndexTypes
<1>5. IndexTypes' BY <1>1, <1>2, <1>3, <1>4 DEF IndexTypes
<1>6. "rescan" \in BashIndex!Actors /\ \A u \in Callers : u \in BashIndex!Actors /\ u # "rescan"
  BY SearchFacts
<1>7. IndexOrder'
  <2>1. CASE t = "rescan"
    <3>1. v7'["rescan"] = "ended" /\ v7["rescan"] = "swap" BY <1>2, <1>3, <1>6, <2>1
    <3> QED BY <1>1, <1>2, <1>4, <3>1 DEF IndexOrder
  <2>2. CASE t # "rescan"
    <3>1. v7'["rescan"] = v7["rescan"] BY <1>3, <1>6, <2>2
    <3> QED BY <1>1, <1>2, <1>4, <3>1 DEF IndexOrder
  <2> QED BY <2>1, <2>2
<1>8. BashIndex!RefreshInv'
  <2> SUFFICES ASSUME v14 = 0 PROVE BashIndex!RefreshInv'
    BY <1>2 DEF BashIndex!RefreshInv
  <2>1. \A u \in Callers : v7[u] # "idle" => v6 = u BY <1>1 DEF BashIndex!RefreshInv
  <2>2. \A u \in Callers : u # t => v7[u] = "idle" BY <1>2, <2>1, SearchFacts
  <2>3. \A u \in Callers : v7'[u] = "idle" BY <1>3, <1>6, <2>2
  <2>4. CASE t = "rescan"
    <3>1. v7'["rescan"] = "ended" /\ v4' = v8["rescan"] BY <1>2, <1>3, <2>4
    <3>2. v13 # 0 => v8["rescan"] >= v13
      BY <1>1, <1>2, <2>4, SearchFacts DEF BashIndex!RefreshInv
    <3> QED BY <1>2, <2>3, <3>1, <3>2, SearchFacts DEF BashIndex!RefreshInv
  <2>5. CASE t # "rescan"
    <3>1. v13 = 0 BY <1>1, <1>2, <1>6, <2>5, SearchFacts DEF BashIndex!RefreshInv
    <3> QED BY <1>2, <2>3, <3>1 DEF BashIndex!RefreshInv
  <2> QED BY <2>4, <2>5
<1> QED BY <1>5, <1>7, <1>8, IndexInvNext

LEMMA RescanKeeps ==
    ASSUME BashIndex!IInv, BashIndex!Rescan PROVE BashIndex!IInv'
<1>1. IndexTypes /\ IndexOrder /\ BashIndex!RefreshInv BY IndexInvIs
<1>2. /\ v7["rescan"] = "started" /\ UNCHANGED <<v3, v4, v5, v6, v8, v9, v10, v11, v13, v14, v15>>
      /\ BashIndex!Go("rescan", IF BashIndex!mStop THEN "ended" ELSE "build")
  BY SearchFacts DEF BashIndex!Rescan, BashIndex!fileVars
<1>3. PICK place \in {"build", "ended"} :
          /\ BashIndex!Go("rescan", place)
          /\ IF BashIndex!mStop THEN place = "ended" ELSE place = "build"
  BY <1>2
<1>4. "rescan" \in BashIndex!Actors /\ \A u \in Callers : u \in BashIndex!Actors /\ u # "rescan"
  BY SearchFacts
<1>5. /\ v7' \in [BashIndex!Actors -> Places] /\ v7'["rescan"] = place
      /\ \A u \in Callers : v7'[u] = v7[u]
  BY <1>1, <1>3, <1>4, GoIs DEF Places
<1>6. IndexTypes' BY <1>1, <1>2, <1>5 DEF IndexTypes
<1>7. IndexOrder' BY <1>1, <1>2, <1>3, <1>5 DEF IndexOrder, BashIndex!mStop
<1>8. BashIndex!RefreshInv'
  BY <1>1, <1>2, <1>3, <1>5, SearchFacts DEF BashIndex!RefreshInv, BashIndex!mStop
<1> QED BY <1>6, <1>7, <1>8, IndexInvNext

\* What is built is newer than what was served, unless nothing was found.
LEMMA BuildKeeps ==
    ASSUME BashIndex!IInv, BashIndex!Build PROVE BashIndex!IInv'
<1>1. IndexTypes /\ IndexOrder /\ BashIndex!RefreshInv BY IndexInvIs
<1>2. /\ v7["rescan"] = "build" /\ UNCHANGED <<v3, v4, v5, v6, v9, v10, v11, v13, v14, v15>>
      /\ BashIndex!BuildIndex("rescan")
      /\ BashIndex!Go("rescan", IF BashIndex!mStop \/ v8'["rescan"] = 0 THEN "ended" ELSE "open")
  BY SearchFacts DEF BashIndex!Build, BashIndex!fileVars, BashIndex!Nothing
<1>3. PICK place \in {"open", "ended"} :
          /\ BashIndex!Go("rescan", place)
          /\ IF BashIndex!mStop \/ v8'["rescan"] = 0 THEN place = "ended" ELSE place = "open"
  BY <1>2
<1>4. "rescan" \in BashIndex!Actors /\ \A u \in Callers : u \in BashIndex!Actors /\ u # "rescan"
  BY SearchFacts
<1>5. /\ v7' \in [BashIndex!Actors -> Places] /\ v7'["rescan"] = place
      /\ \A u \in Callers : v7'[u] = v7[u]
  BY <1>1, <1>3, <1>4, GoIs DEF Places
<1>6. v8' \in [BashIndex!Actors -> 0 .. MaxInstalls] /\ v8'["rescan"] \in {v3, 0}
  BY <1>1, <1>2, <1>4, BuiltIs
<1>7. IndexTypes' BY <1>1, <1>2, <1>5, <1>6 DEF IndexTypes
<1>8. IndexOrder' BY <1>1, <1>2, <1>3, <1>5 DEF IndexOrder, BashIndex!mStop
<1>9. v8'["rescan"] # 0 => v8'["rescan"] >= v13'
  <2>1. v3 >= v13 BY <1>1 DEF IndexTypes
  <2> QED BY <1>2, <1>6, <2>1
<1>10. BashIndex!RefreshInv'
  <2> SUFFICES ASSUME v14' = 0 PROVE BashIndex!RefreshInv' BY DEF BashIndex!RefreshInv
  <2>1. /\ \A u \in Callers : v7[u] # "idle" => v6 = u
        /\ v13 # 0 => \A u \in Callers : v7[u] = "idle"
    BY <1>1, <1>2 DEF BashIndex!RefreshInv
  <2>2. /\ place = "open" => v8'["rescan"] >= v13'
        /\ place = "ended" => v15' # "no" \/ v8'["rescan"] = 0
    BY <1>2, <1>3, <1>9 DEF BashIndex!mStop
  <2> QED BY <1>2, <1>5, <2>1, <2>2, SearchFacts
       DEF BashIndex!RefreshInv, BashIndex!mStop, BashIndex!Nothing
<1> QED BY <1>7, <1>8, <1>10, IndexInvNext

\* Something is installed; the process goes on to its end, whatever the callers do.
LEMMA OutsideKeeps ==
    ASSUME BashIndex!IInv,
           BashIndex!Install \/ BashIndex!Stop \/ BashIndex!TakeRescan \/ BashIndex!Exit
    PROVE  BashIndex!IInv'
<1>1. IndexTypes /\ IndexOrder /\ BashIndex!RefreshInv BY IndexInvIs
<1>2. UNCHANGED <<v4, v5, v6, v7, v8, v9, v10, v11, v13, v14>>
  BY DEF BashIndex!Install, BashIndex!Stop, BashIndex!TakeRescan, BashIndex!Exit,
     BashIndex!fileVars
<1>3. CASE BashIndex!Install
  <2>1. v3' \in 1 .. MaxInstalls /\ v13 \in 0 .. v3' /\ UNCHANGED v15
    BY <1>1, <1>3, SearchFacts DEF BashIndex!Install, IndexTypes
  <2>2. IndexTypes' BY <1>1, <1>2, <2>1 DEF IndexTypes
  <2>3. IndexOrder' BY <1>1, <1>2, <2>1 DEF IndexOrder
  <2>4. BashIndex!RefreshInv'
    BY <1>1, <1>2, <2>1 DEF BashIndex!RefreshInv, BashIndex!mStop, BashIndex!Nothing
  <2> QED BY <2>2, <2>3, <2>4, IndexInvNext
<1>4. CASE BashIndex!Stop \/ BashIndex!TakeRescan \/ BashIndex!Exit
  <2>1. /\ v3' = v3 /\ v15' \in Endings /\ v15' # "no"
        /\ v15' = "joins" => v7["rescan"] # "idle"
        /\ v15' = "alone" => v7["rescan"] = "idle"
        /\ v15' = "exited" => v15 = "alone" \/ v7["rescan"] = "ended"
    BY <1>4, SearchFacts DEF BashIndex!Stop, BashIndex!TakeRescan, BashIndex!Exit,
       BashIndex!Joined, Endings
  <2>2. IndexTypes' BY <1>1, <1>2, <2>1 DEF IndexTypes
  <2>3. IndexOrder'
    <3>1. v15' = "exited" => v7["rescan"] \in {"idle", "started", "ended"}
      BY <1>1, <2>1 DEF IndexOrder
    <3> QED BY <1>1, <1>2, <2>1, <3>1 DEF IndexOrder
  <2>4. BashIndex!RefreshInv'
    BY <1>1, <1>2, <2>1 DEF BashIndex!RefreshInv, BashIndex!mStop, BashIndex!Nothing
  <2> QED BY <2>2, <2>3, <2>4, IndexInvNext
<1> QED BY <1>3, <1>4

LEMMA CommandsStep ==
    ASSUME BashIndex!IInv, [BashIndex!IndexNext]_(BashIndex!indexVars) PROVE BashIndex!IInv'
<1>1. CASE UNCHANGED BashIndex!indexVars
  <2>1. IndexTypes /\ IndexOrder /\ BashIndex!RefreshInv BY IndexInvIs
  <2>2. UNCHANGED <<v3, v4, v5, v6, v7, v8, v9, v10, v11, v13, v14, v15>>
    BY <1>1 DEF BashIndex!indexVars
  <2>3. IndexTypes' BY <2>1, <2>2 DEF IndexTypes
  <2>4. IndexOrder' BY <2>1, <2>2 DEF IndexOrder
  <2>5. BashIndex!RefreshInv'
    BY <2>1, <2>2 DEF BashIndex!RefreshInv, BashIndex!mStop, BashIndex!Nothing
  <2> QED BY <2>3, <2>4, <2>5, IndexInvNext
<1>2. CASE BashIndex!IndexNext
  BY <1>2, SearchKeeps, ScanKeeps, WritesKeep, SwapKeeps, RescanKeeps, BuildKeeps,
     OutsideKeeps
     DEF BashIndex!IndexNext
<1> QED BY <1>1, <1>2

LEMMA CommandsHold ==
    ASSUME BashIndex!IInv
    PROVE  BashIndex!TypeOK /\ BashIndex!RefreshedBehindTheCaller /\ BashIndex!ExitIsQuiet
<1>1. IndexTypes /\ IndexOrder /\ BashIndex!RefreshInv BY IndexInvIs
<1>2. BashIndex!TypeOK BY DEF BashIndex!IInv
<1>3. BashIndex!RefreshedBehindTheCaller
  BY <1>1, SearchFacts DEF IndexOrder, BashIndex!RefreshInv, BashIndex!RefreshedBehindTheCaller,
     BashIndex!mStop, BashIndex!Nothing
<1>4. BashIndex!ExitIsQuiet BY <1>1, SearchFacts DEF IndexOrder, BashIndex!ExitIsQuiet
<1> QED BY <1>2, <1>3, <1>4

----------------------------------------------------------------------------
(* The transcript.                                                         *)

\* The tree and its tables: what events are shown in is there.
TreeIsSound ==
    /\ v2 \in [Subs -> SUBSET View!Workers] /\ v3 \subseteq Subs
    /\ v4 \subseteq View!Workers /\ v5 \subseteq Subs /\ v6 \subseteq Subs
    /\ View!RoutesAreLive

Doings == {"off", "prepare", "think", "call", "published", "over", "save"}

\* Who works.
WorkIsAwaited ==
    /\ v10 \in [View!Workers -> Doings]
    /\ v9 \in BOOLEAN /\ v6 \subseteq Subs /\ v11 \subseteq Subs
    /\ View!TurnsAreWaitedFor /\ View!GridIsNotStranded

\* The threads, and what they use.
ThreadsAreKnown ==
    /\ v12 \in [MemoryOps -> {"off", "work", "post", "over"}]
    /\ v8 \subseteq View!PendingOps
    /\ v13 \in Nat /\ v14 \in Nat
    /\ View!ThreadsAreCounted /\ View!FrameOutlivesThreads

LEMMA ViewIs == View!IInv <=> TreeIsSound /\ WorkIsAwaited /\ ThreadsAreKnown
<1>1. v8 \subseteq View!PendingOps => v8 \subseteq MemoryOps BY DEF View!PendingOps
<1> QED
  BY <1>1 DEF View!IInv, View!TypeOK, TreeIsSound, WorkIsAwaited, ThreadsAreKnown, Doings

LEMMA ViewIsNext == (TreeIsSound /\ WorkIsAwaited /\ ThreadsAreKnown => View!IInv)'
BY ViewIs, PTL

LEMMA RootWorks == Root \in View!Workers /\ Subs \subseteq View!Workers /\ Root \notin Subs
BY PartsAssumption DEF View!Workers

\* A step that leaves the tree alone.
LEMMA TreeStays ==
    ASSUME TreeIsSound, UNCHANGED v2, v3' \subseteq v3 \cup v5,
           v4' \subseteq v4, v5' \subseteq v5, v6' \subseteq v6
    PROVE  TreeIsSound'
BY DEF TreeIsSound, View!RoutesAreLive

LEMMA TreeStep == ASSUME TreeIsSound, View!Next PROVE TreeIsSound'
<1> USE DEF View!treeVars, View!tableVars
<1>1. ASSUME NEW first, View!StartTurn(first) PROVE TreeIsSound'
  BY <1>1, TreeStays DEF View!StartTurn
<1>2. CASE View!Prepared \/ View!SaveBegins \/ View!EndTurn
  BY <1>2, TreeStays DEF View!Prepared, View!SaveBegins, View!EndTurn
<1>3. CASE View!TurnThreadEnds \/ View!Quit \/ View!Return
  BY <1>3, TreeStays DEF View!TurnThreadEnds, View!Quit, View!Return
<1>4. ASSUME NEW a \in View!Workers, View!Call(a) \/ View!Result(a) PROVE TreeIsSound'
  BY <1>4, TreeStays DEF View!Call, View!Result
<1>5. ASSUME NEW c \in Subs, View!Publish(c) PROVE TreeIsSound'
  BY <1>5, TreeStays DEF View!Publish
<1>6. ASSUME NEW c \in Subs, View!EmitDone(c) PROVE TreeIsSound'
  BY <1>6, TreeStays DEF View!EmitDone
<1>7. ASSUME NEW o \in MemoryOps, View!StartOp(o) \/ View!Answer(o) \/ View!OpThreadEnds(o)
      PROVE  TreeIsSound'
  BY <1>7, TreeStays DEF View!StartOp, View!Answer, View!OpThreadEnds
<1>8. CASE View!Draw BY <1>8, TreeStays DEF View!Draw
<1>9. CASE View!Reset
  <2>1. /\ v2' = [c \in Subs |-> {}] /\ v3' = {} /\ v5' = {} /\ v4' = {Root} /\ v6' = {}
    BY <1>9 DEF View!Reset
  <2> QED BY <2>1, RootWorks DEF TreeIsSound, View!RoutesAreLive
<1>10. ASSUME NEW a \in View!Workers, NEW c \in Subs, View!Spawn(a, c) PROVE TreeIsSound'
  <2> DEFINE list == View!ListOf(a)
  <2>1. CASE View!Up
    <3>0. list \in View!Workers
      BY <1>10, RootWorks DEF View!ListOf
    <3>2. /\ v2' = [v2 EXCEPT ![c] = {list} \cup IF list = Root THEN {} ELSE v2[list]]
          /\ v4' = v4 \cup {c} /\ v5' = v5 \cup {c} /\ v6' = v6 \cup {c} /\ v3' = v3
      BY <1>10, <2>1 DEF View!Spawn
    <3>3. list # Root => list \in Subs BY <3>0 DEF View!Workers
    <3> HIDE DEF list
    <3>4. /\ v2' \in [Subs -> SUBSET View!Workers] /\ v2'[c] # {}
          /\ \A d \in Subs : d # c => v2'[d] = v2[d]
      BY <3>0, <3>2, <3>3 DEF TreeIsSound
    <3>5. View!RoutesAreLive' BY <3>2, <3>4 DEF TreeIsSound, View!RoutesAreLive
    <3> QED BY <3>2, <3>4, <3>5, RootWorks DEF TreeIsSound
  <2>2. CASE ~View!Up BY <1>10, <2>2, TreeStays DEF View!Spawn
  <2> QED BY <2>1, <2>2
\* What a summary clears is in no table.
<1>11. ASSUME NEW a \in View!Workers, View!Summarize(a) PROVE TreeIsSound'
  <2> DEFINE list == View!ListOf(a)
             lost == {c \in Subs : list \in v2[c]}
  <2>1. /\ v2' = [c \in Subs |-> IF c \in lost THEN {} ELSE v2[c]]
        /\ v3' = v3 \ lost
        /\ v5' \subseteq v5 \ lost
        /\ v4' = {Root} \/ v4' = v4 \ lost
        /\ v6' \subseteq v6
    BY <1>11 DEF View!Summarize, View!Forgotten
  <2> HIDE DEF lost
  <2>2. View!RoutesAreLive' BY <2>1, RootWorks DEF TreeIsSound, View!RoutesAreLive
  <2> QED BY <2>1, <2>2, RootWorks DEF TreeIsSound
<1> QED
  BY <1>1, <1>2, <1>3, <1>4, <1>5, <1>6, <1>7, <1>8, <1>9, <1>10, <1>11
     DEF View!Next, View!AgentStep

\* One agent goes somewhere else.
LEMMA OneGoes ==
    ASSUME WorkIsAwaited, NEW a \in View!Workers, NEW where \in Doings, View!Go(a, where)
    PROVE  /\ v10' \in [View!Workers -> Doings]
           /\ v10'[a] = where /\ \A b \in View!Workers : b # a => v10'[b] = v10[b]
BY DEF WorkIsAwaited, View!Go

\* A step that leaves the agents alone, and adds no pane.
LEMMA WorkStays ==
    ASSUME WorkIsAwaited, UNCHANGED <<v9, v10, v11>>, v6' \subseteq v6 PROVE WorkIsAwaited'
BY DEF WorkIsAwaited, View!TurnsAreWaitedFor, View!GridIsNotStranded, View!Working

\* Within a turn the root goes on.
LEMMA RootGoesOn ==
    ASSUME WorkIsAwaited, NEW where \in {"prepare", "think", "call", "save"},
           View!Go(Root, where), v9' = TRUE, v6' \subseteq v6, v11' \subseteq Subs,
           where = "prepare" => v10[Root] = "off" /\ UNCHANGED v11
    PROVE  WorkIsAwaited'
<1>1. where \in Doings BY DEF Doings
<1>2. /\ v10' \in [View!Workers -> Doings]
      /\ v10'[Root] = where /\ \A b \in View!Workers : b # Root => v10'[b] = v10[b]
  BY <1>1, RootWorks, OneGoes
<1>3. where = "prepare" => (View!Working \cap Subs)' \subseteq v11'
  BY <1>2, RootWorks DEF WorkIsAwaited, View!TurnsAreWaitedFor, View!Working
<1>4. View!TurnsAreWaitedFor' BY <1>2, <1>3 DEF View!TurnsAreWaitedFor
<1> QED BY <1>2, <1>4 DEF WorkIsAwaited, View!GridIsNotStranded

\* A subagent goes on: out of work, or when it works or was missed.
LEMMA SubGoesOn ==
    ASSUME WorkIsAwaited, NEW c \in Subs, NEW where \in Doings, View!Go(c, where),
           UNCHANGED v9, v11 \subseteq v11', v11' \subseteq Subs,
           where \in {"published", "over"} \/ c \in View!Working
             \/ (v10[Root] \in {"off", "prepare"} => c \in v11'),
           v6' \subseteq v6 \cup {c}, v9 \/ v6' \subseteq v6 \/ c \in v11'
    PROVE  WorkIsAwaited'
<1>1. /\ v10' \in [View!Workers -> Doings]
      /\ v10'[c] = where /\ \A b \in View!Workers : b # c => v10'[b] = v10[b]
  BY RootWorks, OneGoes
<1>2. v10'[Root] = v10[Root] BY <1>1, RootWorks
<1>3. ASSUME v10[Root] \in {"off", "prepare"} PROVE (View!Working \cap Subs)' \subseteq v11'
  <2> SUFFICES ASSUME NEW b \in Subs, b \in View!Working' PROVE b \in v11'
    OBVIOUS
  <2>1. CASE b # c
    <3>1. b \in View!Working BY <1>1, <2>1, RootWorks DEF View!Working
    <3> QED BY <1>3, <3>1 DEF WorkIsAwaited, View!TurnsAreWaitedFor
  <2>2. CASE b = c
    <3>1. where \notin {"published", "over"} BY <1>1, <2>2 DEF View!Working
    <3> QED BY <1>3, <2>2, <3>1 DEF WorkIsAwaited, View!TurnsAreWaitedFor
  <2> QED BY <2>1, <2>2
<1>4. View!TurnsAreWaitedFor'
  BY <1>2, <1>3 DEF WorkIsAwaited, View!TurnsAreWaitedFor
<1>5. View!GridIsNotStranded' BY DEF WorkIsAwaited, View!GridIsNotStranded
<1> QED BY <1>1, <1>4, <1>5 DEF WorkIsAwaited

LEMMA WorkStep == ASSUME WorkIsAwaited, View!Next PROVE WorkIsAwaited'
<1> USE DEF View!treeVars, View!tableVars, View!agentVars
<1>0. /\ v9 <=> v10[Root] # "off"
      /\ v10[Root] \in {"off", "prepare"} => View!Working \cap Subs \subseteq v11
      /\ v11 \subseteq Subs /\ v9 \in BOOLEAN
  BY DEF WorkIsAwaited, View!TurnsAreWaitedFor
<1>1. ASSUME NEW first \in {"prepare", "think"}, View!StartTurn(first) PROVE WorkIsAwaited'
  <2>1. View!Go(Root, first) /\ ~v9 /\ v9' = TRUE /\ UNCHANGED <<v6, v11>>
    BY <1>1 DEF View!StartTurn
  <2> QED BY <1>0, <2>1, RootGoesOn
<1>2. CASE View!Prepared \/ View!SaveBegins
  <2>1. v9 /\ UNCHANGED <<v6, v9>> /\ v11' \subseteq Subs
        /\ \E where \in {"think", "save"} : View!Go(Root, where)
    BY <1>0, <1>2 DEF View!Prepared, View!SaveBegins
  <2> QED BY <1>0, <2>1, RootGoesOn
<1>3. CASE View!EndTurn
  <2>1. /\ View!Go(Root, "off") /\ v9' = FALSE /\ v6' = {} /\ v11' = v11
        /\ View!TreeSaved \/ v10[Root] = "prepare"
    BY <1>3 DEF View!EndTurn
  <2>2. "off" \in Doings BY DEF Doings
  <2>3. /\ v10' \in [View!Workers -> Doings]
        /\ v10'[Root] = "off" /\ \A b \in View!Workers : b # Root => v10'[b] = v10[b]
    BY <2>1, <2>2, RootWorks, OneGoes
  <2>4. View!Working \cap Subs \subseteq v11
    BY <1>0, <2>1 DEF View!TreeSaved, View!Working
  <2>5. (View!Working \cap Subs)' \subseteq v11'
    BY <2>1, <2>3, <2>4, RootWorks DEF View!Working
  <2>6. View!TurnsAreWaitedFor' BY <2>1, <2>3, <2>5 DEF View!TurnsAreWaitedFor
  <2> QED BY <1>0, <2>1, <2>3, <2>6 DEF WorkIsAwaited, View!GridIsNotStranded
<1>4. CASE View!TurnThreadEnds \/ View!Quit \/ View!Return \/ View!Draw \/ View!Reset
  BY <1>4, WorkStays
     DEF View!TurnThreadEnds, View!Quit, View!Return, View!Draw, View!Reset
<1>5. ASSUME NEW a \in View!Workers, View!Summarize(a) PROVE WorkIsAwaited'
  BY <1>5, WorkStays DEF View!Summarize
<1>6. ASSUME NEW a \in View!Workers, View!Call(a) \/ View!Result(a) PROVE WorkIsAwaited'
  <2>1. /\ UNCHANGED <<v6, v9, v11>> /\ v10[a] \in {"think", "call"}
        /\ \E where \in {"think", "call"} : View!Go(a, where)
    BY <1>6 DEF View!Call, View!Result
  <2>2. a \in View!Working BY <2>1 DEF View!Working
  <2>3. CASE a = Root
    <3>1. v9' = TRUE BY <1>0, <2>1, <2>3
    <3> QED BY <1>0, <2>1, <2>3, <3>1, RootGoesOn
  <2>4. CASE a \in Subs
    <3>1. {"think", "call"} \subseteq Doings BY DEF Doings
    <3> QED BY <1>0, <2>1, <2>2, <2>4, <3>1, SubGoesOn
  <2> QED BY <2>3, <2>4 DEF View!Workers
<1>7. ASSUME NEW c \in Subs, View!Publish(c) \/ View!EmitDone(c) PROVE WorkIsAwaited'
  <2>1. /\ UNCHANGED <<v9, v11>> /\ v6' \subseteq v6
        /\ \E where \in {"published", "over"} : View!Go(c, where)
    BY <1>7 DEF View!Publish, View!EmitDone
  <2>2. {"published", "over"} \subseteq Doings BY DEF Doings
  <2> QED BY <1>0, <2>1, <2>2, SubGoesOn
<1>8. ASSUME NEW o \in MemoryOps, View!StartOp(o) \/ View!Answer(o) \/ View!OpThreadEnds(o)
      PROVE  WorkIsAwaited'
  BY <1>8, WorkStays DEF View!StartOp, View!Answer, View!OpThreadEnds
<1>9. ASSUME NEW a \in View!Workers, NEW c \in Subs, View!Spawn(a, c) PROVE WorkIsAwaited'
  <2>1. /\ UNCHANGED v9 /\ v6' \subseteq v6 \cup {c} /\ v10[a] = "call" /\ View!Go(c, "think")
        /\ (v11' = v11 /\ a \notin v11) \/ v11' = v11 \cup {c}
    BY <1>9 DEF View!Spawn, View!Overlooked
  <2>2. "think" \in Doings BY DEF Doings
  <2>3. v10[Root] \in {"off", "prepare"} => c \in v11'
    <3>1. SUFFICES ASSUME v10[Root] \in {"off", "prepare"} PROVE c \in v11'
      OBVIOUS
    <3>2. a \in Subs /\ a \in View!Working BY <2>1, <3>1 DEF View!Workers, View!Working
    <3>3. a \in v11 BY <1>0, <3>1, <3>2
    <3> QED BY <2>1, <3>3
  <2>4. v9 \/ c \in v11' BY <1>0, <2>3
  <2> QED BY <1>0, <2>1, <2>2, <2>3, <2>4, SubGoesOn
<1> QED
  BY <1>1, <1>2, <1>3, <1>4, <1>5, <1>6, <1>7, <1>8, <1>9 DEF View!Next, View!AgentStep

\* The commands with a thread.
Busy == {o \in MemoryOps : View!InFlight(o)}

LEMMA BusyAreCounted ==
    /\ IsFiniteSet(Busy) /\ Cardinality(Busy) \in Nat
    /\ View!ThreadsAreCounted <=> v14 = v13 + Cardinality(Busy) + (IF v10[Root] = "off" THEN 0 ELSE 1)
<1>1. IsFiniteSet(Busy) BY PartsAssumption, FS_Subset DEF Busy
<1>2. Cardinality(Busy) \in Nat BY <1>1, FS_CardinalityType
<1>3. View!Cardinality(Busy) = Cardinality(Busy) BY DEF View!Cardinality, Cardinality
<1> QED BY <1>1, <1>2, <1>3 DEF View!ThreadsAreCounted, Busy

LEMMA BusyNext ==
    (/\ IsFiniteSet(Busy) /\ Cardinality(Busy) \in Nat
     /\ View!ThreadsAreCounted
          <=> v14 = v13 + Cardinality(Busy) + (IF v10[Root] = "off" THEN 0 ELSE 1))'
BY BusyAreCounted, PTL

LEMMA BusyGrows ==
    ASSUME NEW o \in MemoryOps, v12[o] = "off", v12' = [v12 EXCEPT ![o] = "work"],
           v12 \in [MemoryOps -> {"off", "work", "post", "over"}]
    PROVE  Cardinality(Busy') = Cardinality(Busy) + 1
<1>1. Busy' = Busy \cup {o} /\ o \notin Busy BY DEF Busy, View!InFlight
<1> QED BY <1>1, BusyAreCounted, FS_AddElement

LEMMA BusyShrinks ==
    ASSUME NEW o \in MemoryOps, v12[o] = "post", v12' = [v12 EXCEPT ![o] = "over"],
           v12 \in [MemoryOps -> {"off", "work", "post", "over"}]
    PROVE  Cardinality(Busy') = Cardinality(Busy) - 1 /\ Cardinality(Busy) > 0
<1>1. Busy' = Busy \ {o} /\ o \in Busy BY DEF Busy, View!InFlight
<1>2. Cardinality(Busy') = Cardinality(Busy) - 1 BY <1>1, BusyAreCounted, FS_RemoveElement
<1>3. Cardinality(Busy') \in Nat BY BusyNext
<1> QED BY <1>2, <1>3, BusyAreCounted

\* A step that leaves the threads alone.
LEMMA ThreadsStay ==
    ASSUME ThreadsAreKnown, UNCHANGED <<v1, v12, v13, v14>>, v10'[Root] = "off" <=> v10[Root] = "off",
           v8' \subseteq v8, v15' # "returned"
    PROVE  ThreadsAreKnown'
<1>1. Busy' = Busy BY DEF Busy, View!InFlight
<1>2. View!ThreadsAreCounted' BY <1>1, BusyAreCounted, BusyNext DEF ThreadsAreKnown
<1> QED BY <1>2 DEF ThreadsAreKnown, View!PendingOps, View!FrameOutlivesThreads

\* Whether the root is off changes with the turn only.
LEMMA TurnStays ==
    ASSUME WorkIsAwaited, NEW a \in View!Workers, NEW where \in Doings, View!Go(a, where),
           a = Root => v10[Root] # "off" /\ where # "off"
    PROVE  v10'[Root] = "off" <=> v10[Root] = "off"
BY OneGoes, RootWorks

LEMMA ThreadsStep ==
    ASSUME ThreadsAreKnown, WorkIsAwaited, View!Next PROVE ThreadsAreKnown'
<1> USE DEF View!treeVars, View!tableVars, View!agentVars, View!pointerVars, View!threadVars,
            View!Up, View!Alive
<1>0. /\ v13 \in Nat /\ v14 = v13 + Cardinality(Busy) + (IF v10[Root] = "off" THEN 0 ELSE 1)
      /\ Cardinality(Busy) \in Nat /\ v14 \in Nat
      /\ v12 \in [MemoryOps -> {"off", "work", "post", "over"}]
      /\ v8 \subseteq View!PendingOps
  BY BusyAreCounted DEF ThreadsAreKnown
<1>1. ASSUME NEW first \in {"prepare", "think"}, View!StartTurn(first)
      PROVE  ThreadsAreKnown'
  <2>0. first \in Doings BY DEF Doings
  <2>1. /\ v14' = v14 + 1 /\ v10[Root] = "off" /\ v10'[Root] = first
        /\ UNCHANGED <<v12, v13, v8>> /\ v15' = "up"
    BY <1>1, <2>0, RootWorks, OneGoes DEF View!StartTurn, WorkIsAwaited, View!TurnsAreWaitedFor
  <2>2. Busy' = Busy BY <2>1 DEF Busy, View!InFlight
  <2>3. View!ThreadsAreCounted' BY <1>0, <2>1, <2>2, BusyNext
  <2> QED BY <1>0, <2>1, <2>3 DEF ThreadsAreKnown, View!PendingOps, View!FrameOutlivesThreads
<1>2. CASE View!EndTurn
  <2>0. "off" \in Doings BY DEF Doings
  <2>1. /\ v13' = v13 + 1 /\ v10[Root] # "off" /\ v10'[Root] = "off"
        /\ UNCHANGED <<v12, v14, v8, v15>> /\ v15 # "returned"
    BY <1>2, <2>0, RootWorks, OneGoes DEF View!EndTurn, View!TreeSaved
  <2>2. Busy' = Busy BY <2>1 DEF Busy, View!InFlight
  <2>3. View!ThreadsAreCounted' BY <1>0, <2>1, <2>2, BusyNext
  <2> QED BY <1>0, <2>1, <2>3 DEF ThreadsAreKnown, View!PendingOps, View!FrameOutlivesThreads
<1>3. CASE View!TurnThreadEnds
  <2>1. /\ v13 > 0 /\ v13' = v13 - 1 /\ v14' = v14 - 1 /\ UNCHANGED <<v8, v10, v12, v15>>
        /\ v15 # "returned"
    BY <1>3 DEF View!TurnThreadEnds
  <2>2. Busy' = Busy BY <2>1 DEF Busy, View!InFlight
  <2>3. View!ThreadsAreCounted' /\ v13' \in Nat /\ v14' \in Nat BY <1>0, <2>1, <2>2, BusyNext
  <2> QED BY <1>0, <2>1, <2>3 DEF ThreadsAreKnown, View!PendingOps, View!FrameOutlivesThreads
<1>4. ASSUME NEW a \in View!Workers, View!Summarize(a) PROVE ThreadsAreKnown'
  BY <1>4, ThreadsStay DEF View!Summarize
<1>5. CASE View!Prepared \/ View!SaveBegins
  <2>1. /\ v10[Root] # "off" /\ \E where \in {"think", "save"} : View!Go(Root, where)
        /\ UNCHANGED <<v1, v8, v12, v13, v14, v15>> /\ v15 # "returned"
    BY <1>5 DEF View!Prepared, View!SaveBegins
  <2>2. {"think", "save"} \subseteq Doings BY DEF Doings
  <2>3. v10'[Root] = "off" <=> v10[Root] = "off" BY <2>1, <2>2, RootWorks, TurnStays
  <2> QED BY <2>1, <2>3, ThreadsStay
<1>6. ASSUME NEW a \in View!Workers, View!Call(a) \/ View!Result(a) PROVE ThreadsAreKnown'
  <2>1. /\ v10[a] # "off" /\ \E where \in {"think", "call"} : View!Go(a, where)
        /\ UNCHANGED <<v1, v8, v12, v13, v14, v15>> /\ v15 # "returned"
    BY <1>6 DEF View!Call, View!Result
  <2>2. {"think", "call"} \subseteq Doings BY DEF Doings
  <2>3. v10'[Root] = "off" <=> v10[Root] = "off" BY <2>1, <2>2, TurnStays
  <2> QED BY <2>1, <2>3, ThreadsStay
<1>7. ASSUME NEW a \in View!Workers, NEW c \in Subs, View!Spawn(a, c) PROVE ThreadsAreKnown'
  <2>1. /\ View!Go(c, "think")
        /\ UNCHANGED <<v1, v8, v12, v13, v14, v15>> /\ v15 # "returned"
    BY <1>7 DEF View!Spawn
  <2>2. "think" \in Doings BY DEF Doings
  <2>3. v10'[Root] = "off" <=> v10[Root] = "off" BY <2>1, <2>2, RootWorks, TurnStays
  <2> QED BY <2>1, <2>3, ThreadsStay
<1>8. ASSUME NEW c \in Subs, View!Publish(c) \/ View!EmitDone(c) PROVE ThreadsAreKnown'
  <2>1. /\ \E where \in {"published", "over"} : View!Go(c, where)
        /\ UNCHANGED <<v1, v8, v12, v13, v14, v15>> /\ v15 # "returned"
    BY <1>8 DEF View!Publish, View!EmitDone
  <2>2. {"published", "over"} \subseteq Doings BY DEF Doings
  <2>3. v10'[Root] = "off" <=> v10[Root] = "off" BY <2>1, <2>2, RootWorks, TurnStays
  <2> QED BY <2>1, <2>3, ThreadsStay
<1>9. ASSUME NEW o \in MemoryOps, View!StartOp(o) PROVE ThreadsAreKnown'
  <2>1. /\ v12[o] = "off" /\ v12' = [v12 EXCEPT ![o] = "work"] /\ v14' = v14 + 1
        /\ UNCHANGED <<v10, v13, v15>> /\ v15 = "up" /\ v8' \subseteq v8 \cup {o}
    BY <1>9 DEF View!StartOp
  <2>a. Cardinality(Busy') = Cardinality(Busy) + 1 BY <1>0, <2>1, BusyGrows
  <2>b. v14' \in Nat BY <1>0, <2>1
  <2>2. View!ThreadsAreCounted' BY <1>0, <2>1, <2>a, <2>b, BusyNext
  <2>3. v8' \subseteq View!PendingOps' BY <1>0, <2>1 DEF View!PendingOps
  <2> QED BY <1>0, <2>1, <2>2, <2>b, <2>3 DEF ThreadsAreKnown, View!FrameOutlivesThreads
<1>10. ASSUME NEW o \in MemoryOps, View!Answer(o) PROVE ThreadsAreKnown'
  <2>1. /\ v12[o] = "work" /\ v12' = [v12 EXCEPT ![o] = "post"] /\ UNCHANGED <<v10, v13, v14, v15>>
        /\ v15 # "returned" /\ v8' = v8 \ {o}
    BY <1>10 DEF View!Answer
  <2>2. Busy' = Busy BY <1>0, <2>1 DEF Busy, View!InFlight
  <2>3. View!ThreadsAreCounted' BY <1>0, <2>1, <2>2, BusyNext
  <2>4. v8' \subseteq View!PendingOps' BY <1>0, <2>1 DEF View!PendingOps
  <2> QED BY <1>0, <2>1, <2>3, <2>4 DEF ThreadsAreKnown, View!FrameOutlivesThreads
<1>11. ASSUME NEW o \in MemoryOps, View!OpThreadEnds(o) PROVE ThreadsAreKnown'
  <2>1. /\ v12[o] = "post" /\ v12' = [v12 EXCEPT ![o] = "over"]
        /\ v14' = IF v14 > 0 THEN v14 - 1 ELSE 0
        /\ UNCHANGED <<v8, v10, v13, v15>> /\ v15 # "returned"
    BY <1>11 DEF View!OpThreadEnds
  <2>a. Cardinality(Busy') = Cardinality(Busy) - 1 /\ Cardinality(Busy) > 0
    BY <1>0, <2>1, BusyShrinks
  <2>b. v14' = v14 - 1 /\ v14' \in Nat BY <1>0, <2>1, <2>a
  <2>2. View!ThreadsAreCounted' BY <1>0, <2>1, <2>a, <2>b, BusyNext
  <2>3. v8' \subseteq View!PendingOps' BY <1>0, <2>1 DEF View!PendingOps
  <2> QED BY <1>0, <2>1, <2>2, <2>b, <2>3 DEF ThreadsAreKnown, View!FrameOutlivesThreads
<1>12. CASE View!Reset \/ View!Draw \/ View!Quit
  BY <1>12, ThreadsStay DEF View!Reset, View!Draw, View!Quit
\* sp returns when the count says that nobody is left.
<1>13. CASE View!Return
  <2>1. UNCHANGED <<v1, v8, v10, v12, v13, v14>> /\ v15' \in {"returned", "exited"}
        /\ (v1 = "sp" /\ v15' = "returned" => v14 = 0)
    BY <1>13 DEF View!Return
  <2>2. Busy' = Busy BY <2>1 DEF Busy, View!InFlight
  <2>3. View!ThreadsAreCounted' BY <1>0, <2>1, <2>2, BusyNext
  <2>4. v14 = 0 => v13 = 0 /\ Cardinality(Busy) = 0 /\ v10[Root] = "off" BY <1>0
  <2>5. v14 = 0 => Busy = {} BY <2>4, BusyAreCounted, FS_EmptySet
  <2>6. View!FrameOutlivesThreads'
    BY <2>1, <2>4, <2>5 DEF Busy, View!InFlight, View!FrameOutlivesThreads
  <2> QED BY <1>0, <2>1, <2>3, <2>6 DEF ThreadsAreKnown, View!PendingOps
<1> QED
  BY <1>1, <1>2, <1>3, <1>4, <1>5, <1>6, <1>7, <1>8, <1>9, <1>10, <1>11, <1>12, <1>13
     DEF View!Next, View!AgentStep

LEMMA ViewInit == ASSUME View!Init PROVE View!IInv
<1>1. TreeIsSound
  BY RootWorks DEF View!Init, TreeIsSound, View!RoutesAreLive
<1>2. v10 = [a \in View!Workers |-> "off"] /\ v10[Root] = "off" /\ v11 = {}
  BY RootWorks DEF View!Init
<1>3. v10 \in [View!Workers -> Doings] /\ View!Working = {}
  BY <1>2 DEF Doings, View!Working
<1>4. WorkIsAwaited
  BY <1>2, <1>3 DEF View!Init, WorkIsAwaited, View!TurnsAreWaitedFor, View!GridIsNotStranded
<1>5. Busy = {} BY DEF View!Init, Busy, View!InFlight
<1>6. v13 = 0 /\ v14 = 0 /\ v8 = {} /\ v15 = "up" BY DEF View!Init
<1>7. View!ThreadsAreCounted BY <1>2, <1>5, <1>6, BusyAreCounted, FS_EmptySet
<1>8. v12 \in [MemoryOps -> {"off", "work", "post", "over"}] BY DEF View!Init
<1>9. ThreadsAreKnown BY <1>6, <1>7, <1>8 DEF ThreadsAreKnown, View!FrameOutlivesThreads
<1> QED BY <1>1, <1>4, <1>9, ViewIs

LEMMA ViewStep ==
    ASSUME View!IInv, [View!Next]_(View!vars)
    PROVE  View!IInv' /\ View!ResetOnlyWhenQuiet
<1>0. TreeIsSound /\ WorkIsAwaited /\ ThreadsAreKnown BY ViewIs
<1>1. ASSUME UNCHANGED View!vars PROVE View!IInv'
  <2>1. UNCHANGED <<v1, v2, v3, v4, v5, v6, v8, v9, v10, v11, v12, v13, v14, v15>>
    BY <1>1
       DEF View!vars, View!treeVars, View!tableVars, View!agentVars, View!pointerVars, View!threadVars
  <2>2. TreeIsSound' BY <1>0, <2>1 DEF TreeIsSound, View!RoutesAreLive
  <2>3. WorkIsAwaited' BY <1>0, <2>1, WorkStays
  <2>4. ThreadsAreKnown'
    <3>1. Busy' = Busy BY <2>1 DEF Busy, View!InFlight
    <3>2. View!ThreadsAreCounted' BY <1>0, <2>1, <3>1, BusyAreCounted, BusyNext DEF ThreadsAreKnown
    <3> QED BY <1>0, <2>1, <3>2 DEF ThreadsAreKnown, View!PendingOps, View!FrameOutlivesThreads,
            View!InFlight
  <2> QED BY <2>2, <2>3, <2>4, ViewIsNext
<1>2. ASSUME View!Next PROVE View!IInv'
  BY <1>0, <1>2, TreeStep, WorkStep, ThreadsStep, ViewIsNext
\* No turn is waited for, so the root is off, and who works was missed.
<1>3. View!ResetOnlyWhenQuiet
  <2> SUFFICES ASSUME View!Reset
               PROVE  View!Working \subseteq v11 /\ (v1 = "sp" => v8 = {})
    BY DEF View!ResetOnlyWhenQuiet
  <2>1. ~v9 /\ (v1 = "sp" => View!PendingOps = {}) BY DEF View!Reset, View!MayReset
  <2>2. v10[Root] = "off" /\ View!Working \cap Subs \subseteq v11
    BY <1>0, <2>1 DEF WorkIsAwaited, View!TurnsAreWaitedFor
  <2>3. View!Working \subseteq Subs BY <2>2 DEF View!Working, View!Workers
  <2>4. v1 = "sp" => v8 = {} BY <1>0, <2>1 DEF ThreadsAreKnown
  <2> QED BY <2>2, <2>3, <2>4
<1> QED BY <1>1, <1>2, <1>3

----------------------------------------------------------------------------
(* The prompt of m8trixsh.                                                  *)

LEMMA TrixshInit == ASSUME Trixsh!Init PROVE Trixsh!IInv
<1>1. v7 \in Seq({"text", "/reset", "/quit"}) BY DEF Trixsh!Init
<1>2. v4 \in BOOLEAN /\ v6 \in BOOLEAN BY DEF Trixsh!Init
<1>3. v3 \in [mode : {"none", "shell", "ai", "ai-ask"}, redraw : BOOLEAN]
  BY DEF Trixsh!Init, Trixsh!NoWrite
<1>4. Trixsh!FileIsCurrent
  BY DEF Trixsh!Init, Trixsh!FileIsCurrent, Trixsh!Shown, Trixsh!NoWrite
<1>5. /\ v1 = "Shell" /\ v2 = "shell" /\ v5 = "shell" /\ v9 = "none" /\ v10 = NoOne
      /\ v13 = "up"
  BY DEF Trixsh!Init
<1> QED BY <1>1, <1>2, <1>3, <1>4, <1>5 DEF Trixsh!IInv, Trixsh!TypeOK

LEMMA TrixshTag == ASSUME Trixsh!IInv PROVE Trixsh!TagSettles
BY DEF Trixsh!IInv, Trixsh!FileIsCurrent, Trixsh!Shown, Trixsh!TagSettles, Trixsh!Free

\* What the steps leave alone when only lines, answers and turns move.
LEMMA TrixshPromptStays ==
    ASSUME Trixsh!IInv, Trixsh!Free, UNCHANGED <<v1, v2, v3, v4, v5, v6, v8>>, Trixsh!TypeOK',
           (v9' = "none" => v10' = NoOne) \/ v13' # "up"
    PROVE  Trixsh!IInv'
BY DEF Trixsh!IInv, Trixsh!FileIsCurrent, Trixsh!Shown, Trixsh!AiTag, Trixsh!Free

LEMMA TrixshStep == ASSUME Trixsh!IInv, [Trixsh!Next]_(Trixsh!vars) PROVE Trixsh!IInv'
<1> USE DEF Trixsh!IInv, Trixsh!TypeOK, Trixsh!FileIsCurrent, Trixsh!Shown, Trixsh!AiTag,
            Trixsh!NoWrite
<1>1. CASE UNCHANGED Trixsh!vars
  BY <1>1 DEF Trixsh!vars, Trixsh!promptVars, Trixsh!askVars, Trixsh!turnVars, Trixsh!counters
<1>2. CASE Trixsh!Toggle
  BY <1>2 DEF Trixsh!Toggle, Trixsh!Free, Trixsh!SetMode, Trixsh!askVars, Trixsh!turnVars
<1>3. CASE Trixsh!WriteMode
  BY <1>3 DEF Trixsh!WriteMode, Trixsh!askVars, Trixsh!turnVars, Trixsh!counters
<1>4. CASE Trixsh!Reply
  <2>1. /\ v9' = "none" /\ v10' = NoOne /\ UNCHANGED <<v1, v4, v5, v7, v13>>
        /\ v3 = Trixsh!NoWrite /\ v6' \in BOOLEAN
    BY <1>4 DEF Trixsh!Reply, Trixsh!Free
  <2>2. CASE v1 = "Ai"
    <3>1. v2' = "empty" /\ v3' = [mode |-> "ai", redraw |-> FALSE] /\ v6' = TRUE /\ v8' = FALSE
      BY <1>4, <2>2 DEF Trixsh!Reply, Trixsh!SetMode
    <3> QED BY <2>1, <2>2, <3>1
  <2>3. CASE v1 # "Ai"
    <3>1. v2' = v2 /\ v3' = v3 /\ v1 = "Shell" BY <1>4, <2>3 DEF Trixsh!Reply
    <3>2. v6' = v6 BY <1>4, <2>3 DEF Trixsh!Reply
    <3> QED BY <2>1, <3>1, <3>2
  <2> QED BY <2>2, <2>3
<1>5. CASE Trixsh!EndTurn
  BY <1>5, TrixshPromptStays DEF Trixsh!EndTurn, Trixsh!promptVars, Trixsh!askVars, Trixsh!counters
<1>6. ASSUME NEW a \in Askers, Trixsh!Ask(a) PROVE Trixsh!IInv'
  <2>1. /\ v9' = "open" /\ v10' = a /\ UNCHANGED <<v1, v4, v5, v7>> /\ v8' = TRUE
        /\ v13' \in {v13, "terminated"} /\ v3 = Trixsh!NoWrite /\ v6' \in BOOLEAN
    BY <1>6 DEF Trixsh!Ask, Trixsh!Free
  <2>2. CASE v1 = "Ai"
    <3>1. v2' = "empty" /\ v3' = [mode |-> "ai-ask", redraw |-> FALSE] /\ v6' = TRUE
      BY <1>6, <2>2 DEF Trixsh!Ask, Trixsh!SetMode
    <3> QED BY <2>1, <2>2, <3>1
  <2>3. CASE v1 # "Ai"
    <3>1. v2' = v2 /\ v3' = v3 /\ v1 = "Shell" BY <1>6, <2>3 DEF Trixsh!Ask
    <3>2. v6' = v6 BY <1>6, <2>3 DEF Trixsh!Ask
    <3> QED BY <2>1, <3>1, <3>2
  <2> QED BY <2>2, <2>3
<1>7. CASE Trixsh!HandleLine
  <2>1. v7' \in Seq({"text", "/reset", "/quit"}) BY <1>7 DEF Trixsh!HandleLine
  <2>2. Trixsh!Free /\ UNCHANGED <<v1, v2, v3, v4, v5, v6, v8, v10>>
    BY <1>7 DEF Trixsh!HandleLine, Trixsh!promptVars, Trixsh!counters
  <2>3. v13' \in {"up", "left", "terminated"} /\ v9' \in {"none", "open", "kept"}
    BY <1>7 DEF Trixsh!HandleLine, Trixsh!SetValue
  <2>4. (v9' = "none" => v10' = NoOne) \/ v13' # "up"
    BY <1>7, <2>2 DEF Trixsh!HandleLine, Trixsh!SetValue, Trixsh!Free
  <2>5. Trixsh!TypeOK' BY <2>1, <2>2, <2>3
  <2> QED BY <2>2, <2>4, <2>5, TrixshPromptStays
<1>8. CASE Trixsh!SendRedraw
  BY <1>8 DEF Trixsh!SendRedraw, Trixsh!Free, Trixsh!askVars, Trixsh!turnVars, Trixsh!counters
<1>9. CASE Trixsh!Leave
  BY <1>9, TrixshPromptStays DEF Trixsh!Leave, Trixsh!promptVars, Trixsh!turnVars, Trixsh!counters
<1>10. CASE Trixsh!Redraw
  BY <1>10 DEF Trixsh!Redraw, Trixsh!ReadMode, Trixsh!askVars, Trixsh!turnVars, Trixsh!counters
<1>11. ASSUME NEW line \in {"text", "/reset", "/quit"}, Trixsh!Enter(line) PROVE Trixsh!IInv'
  <2>1. v7' \in Seq({"text", "/reset", "/quit"}) BY <1>11 DEF Trixsh!Enter
  <2>2. UNCHANGED <<v1, v2, v3, v4, v6, v8, v9, v10, v13>> /\ v5' = Trixsh!ReadMode
    BY <1>11 DEF Trixsh!Enter, Trixsh!askVars
  <2> QED BY <2>1, <2>2 DEF Trixsh!ReadMode
<1> QED
  BY <1>1, <1>2, <1>3, <1>4, <1>5, <1>6, <1>7, <1>8, <1>9, <1>10, <1>11 DEF Trixsh!Next

----------------------------------------------------------------------------
(* The boxes of m8's screen.                                               *)

LEMMA InputInit == ASSUME Input!Init PROVE Input!IInv
<1>1. Input!Empty \in Input!Contents BY DEF Input!Contents
<1>2. v2 \in Seq(Input!Contents) /\ Len(v2) = 0 BY DEF Input!Init
<1> QED
  BY <1>1, <1>2
     DEF Input!Init, Input!IInv, Input!Shape, Input!DraftIsKept, Input!AtDraft,
         Input!AnswersItsQuestion

\* What the answer box does leaves the message box alone.
LEMMA InputAnswering ==
    ASSUME Input!IInv, UNCHANGED <<v1, v2, v3, v4, v11>>, v9'.of = v8',
           DOMAIN v10' = 1 .. MaxAsked, Input!AnswersItsQuestion'
    PROVE  Input!IInv'
BY DEF Input!IInv, Input!Shape, Input!DraftIsKept, Input!AtDraft

LEMMA InputSync == ASSUME Input!IInv, Input!Sync PROVE v9'.of = v8' /\ v8' = v6
BY DEF Input!IInv, Input!Sync

LEMMA InputRecall ==
    ASSUME Input!IInv, Input!RecallPrevious \/ Input!RecallNext, UNCHANGED v10
    PROVE  Input!DraftIsKept' /\ Input!Shape'
<1> USE DEF Input!IInv, Input!Shape, Input!DraftIsKept, Input!AtDraft
<1>1. CASE Input!RecallPrevious
  BY <1>1 DEF Input!RecallPrevious, Input!DraftSaved
<1>2. CASE Input!RecallNext
  BY <1>2 DEF Input!RecallNext
<1> QED BY <1>1, <1>2

LEMMA InputSend ==
    ASSUME Input!IInv, Input!SendMessage
    PROVE  (Input!DraftIsKept' /\ Input!Shape') \/ v10' # v10
<1> DEFINE longer == Append(v2, v1)
<1>1. v1 \in Input!Contents /\ v2 \in Seq(Input!Contents)
  BY DEF Input!IInv, Input!Shape
<1>2. longer \in Seq(Input!Contents) /\ longer # <<>> BY <1>1, AppendProperties
<1>3. Tail(longer) \in Seq(Input!Contents) BY <1>2
<1>4. v2' = longer \/ v2' = Tail(longer)
  BY DEF Input!SendMessage, Input!Submit, Input!Remember
<1> HIDE DEF longer
<1>5. v2' \in Seq(Input!Contents) /\ Input!Empty \in Input!Contents BY <1>2, <1>3, <1>4 DEF Input!Contents
<1>6. v3' = Len(v2') + 1 /\ v4' = Input!Empty /\ v11' = v1'
  BY DEF Input!SendMessage, Input!Submit
<1>7. v1' \in Input!Contents
  BY <1>1 DEF Input!SendMessage, Input!RunCommand, Input!StartFromCommand, Input!StartFromMessage,
     Input!Contents
<1>8. Len(v2') \in Nat BY <1>5
<1> QED BY <1>5, <1>6, <1>7, <1>8 DEF Input!IInv, Input!Shape, Input!DraftIsKept, Input!AtDraft

LEMMA InputStep == ASSUME Input!IInv, [Input!Next]_(Input!vars) PROVE Input!IInv'
<1>1. CASE UNCHANGED Input!vars
  BY <1>1 DEF Input!vars, Input!messageVars, Input!IInv, Input!Shape, Input!DraftIsKept,
     Input!AtDraft, Input!AnswersItsQuestion
<1>2. CASE Input!MessageKey
  <2>1. v10' = v10 /\ v9'.of = v8' BY <1>2, InputSync DEF Input!MessageKey, Input!MessageMode
  <2>2. ASSUME NEW text \in Input!Contents, Input!TypeMessage(text)
        PROVE  (Input!DraftIsKept' /\ Input!Shape') \/ v10' # v10
    BY <2>2 DEF Input!TypeMessage, Input!IInv, Input!Shape, Input!DraftIsKept, Input!AtDraft
  <2>3. Input!DraftIsKept' /\ Input!Shape'
    BY <1>2, <2>1, <2>2, InputRecall, InputSend DEF Input!MessageKey, Input!Contents
  <2> QED BY <2>1, <2>3 DEF Input!IInv, Input!AnswersItsQuestion
<1>3. ASSUME NEW text \in Input!Texts, Input!TypeAnswer(text) PROVE Input!IInv'
  BY <1>3, InputAnswering
     DEF Input!TypeAnswer, Input!messageVars, Input!IInv, Input!Shape, Input!AnswersItsQuestion
<1>4. CASE Input!Return
  <2>1. v9'.of = v8' /\ v8' = v6 /\ UNCHANGED <<v1, v2, v3, v4, v11>>
    BY <1>4, InputSync DEF Input!Return, Input!AnswerMode, Input!messageVars
  <2>2. v10' = [v10 EXCEPT ![v6] = v6] BY <1>4, <2>1 DEF Input!Return
  <2>3. DOMAIN v10' = 1 .. MaxAsked /\ Input!AnswersItsQuestion'
    BY <2>2 DEF Input!IInv, Input!Shape, Input!AnswersItsQuestion
  <2> QED BY <2>1, <2>3, InputAnswering
<1>5. CASE Input!Dismiss \/ Input!Draw
  <2>1. v9'.of = v8' /\ UNCHANGED <<v1, v2, v3, v4, v10, v11>>
    BY <1>5, InputSync DEF Input!Dismiss, Input!Draw, Input!AnswerMode, Input!messageVars
  <2> QED BY <2>1, InputAnswering DEF Input!IInv, Input!Shape, Input!AnswersItsQuestion
<1>6. CASE Input!TurnEnds \/ Input!Ask \/ Input!Withdraw
  BY <1>6, InputAnswering
     DEF Input!TurnEnds, Input!Ask, Input!Withdraw, Input!messageVars, Input!IInv, Input!Shape,
         Input!AnswersItsQuestion
<1> QED BY <1>1, <1>2, <1>3, <1>4, <1>5, <1>6 DEF Input!Next

----------------------------------------------------------------------------
(* The terminal pane.                                                      *)

\* Lines in the order they came, none later than the last.
InOrder(lines, last) ==
    /\ \A i, j \in DOMAIN lines : i < j => lines[i] < lines[j]
    /\ \A i \in DOMAIN lines : lines[i] \in 1 .. last

LEMMA OneMoreLine ==
    ASSUME NEW lines \in Seq(Nat), NEW last \in Nat, InOrder(lines, last)
    PROVE  /\ Append(lines, last + 1) \in Seq(Nat)
           /\ Len(Append(lines, last + 1)) = Len(lines) + 1
           /\ \A i \in 1 .. Len(lines) : Append(lines, last + 1)[i] = lines[i]
           /\ Append(lines, last + 1)[Len(lines) + 1] = last + 1
           /\ InOrder(Append(lines, last + 1), last + 1)
<1> DEFINE more == Append(lines, last + 1)
<1>1. /\ more \in Seq(Nat) /\ Len(more) = Len(lines) + 1
      /\ \A i \in 1 .. Len(lines) : more[i] = lines[i]
      /\ more[Len(lines) + 1] = last + 1
  OBVIOUS
<1>2. DOMAIN more = 1 .. Len(lines) + 1 /\ DOMAIN lines = 1 .. Len(lines) /\ Len(lines) \in Nat
  BY <1>1
<1> HIDE DEF more
<1>3. InOrder(more, last + 1)
  <2>1. ASSUME NEW i \in DOMAIN more, NEW j \in DOMAIN more, i < j PROVE more[i] < more[j]
    <3>1. i \in 1 .. Len(lines) /\ more[i] = lines[i] /\ lines[i] \in 1 .. last
      BY <1>1, <1>2, <2>1 DEF InOrder
    <3>2. CASE j = Len(lines) + 1 BY <1>1, <3>1, <3>2
    <3>3. CASE j # Len(lines) + 1
      <4>1. j \in 1 .. Len(lines) /\ more[j] = lines[j] BY <1>1, <1>2, <3>3
      <4> QED BY <1>2, <2>1, <3>1, <4>1 DEF InOrder
    <3> QED BY <3>2, <3>3
  <2>2. ASSUME NEW i \in DOMAIN more PROVE more[i] \in 1 .. last + 1
    <3>1. CASE i = Len(lines) + 1 BY <1>1, <3>1
    <3>2. CASE i # Len(lines) + 1 BY <1>1, <1>2, <3>2 DEF InOrder
    <3> QED BY <3>1, <3>2
  <2> QED BY <2>1, <2>2 DEF InOrder
<1> QED BY <1>1, <1>3 DEF more

LEMMA WithoutTheFirst ==
    ASSUME NEW lines \in Seq(Nat), lines # <<>>, NEW last \in Nat, InOrder(lines, last)
    PROVE  /\ Tail(lines) \in Seq(Nat) /\ Len(Tail(lines)) = Len(lines) - 1
           /\ \A i \in 1 .. Len(lines) - 1 : Tail(lines)[i] = lines[i + 1]
           /\ InOrder(Tail(lines), last)
<1> DEFINE rest == Tail(lines)
<1>1. /\ rest \in Seq(Nat) /\ Len(rest) = Len(lines) - 1 /\ Len(lines) \in Nat /\ Len(lines) > 0
      /\ \A i \in 1 .. Len(lines) - 1 : rest[i] = lines[i + 1]
  OBVIOUS
<1>2. DOMAIN rest = 1 .. Len(lines) - 1 /\ DOMAIN lines = 1 .. Len(lines) BY <1>1
<1> HIDE DEF rest
<1>3. \A i \in DOMAIN rest : i + 1 \in DOMAIN lines /\ rest[i] = lines[i + 1] BY <1>1, <1>2
<1>4. InOrder(rest, last)
  <2>1. ASSUME NEW i \in DOMAIN rest, NEW j \in DOMAIN rest, i < j PROVE rest[i] < rest[j]
    <3>1. i + 1 < j + 1 BY <1>2, <2>1
    <3> QED BY <1>3, <3>1 DEF InOrder
  <2> QED BY <1>3, <2>1 DEF InOrder
<1> QED BY <1>1, <1>4 DEF rest

LEMMA TheFirstLines ==
    ASSUME NEW lines \in Seq(Nat), NEW last \in Nat, InOrder(lines, last), NEW n \in 0 .. Len(lines)
    PROVE  /\ SubSeq(lines, 1, n) \in Seq(Nat) /\ Len(SubSeq(lines, 1, n)) = n
           /\ InOrder(SubSeq(lines, 1, n), last)
<1> DEFINE some == SubSeq(lines, 1, n)
<1>1. /\ some \in Seq(Nat) /\ Len(some) = n /\ Len(lines) \in Nat
      /\ \A i \in 1 .. n : some[i] = lines[i]
  OBVIOUS
<1>2. DOMAIN some = 1 .. n /\ DOMAIN lines = 1 .. Len(lines) BY <1>1
<1> HIDE DEF some
<1>3. InOrder(some, last) BY <1>1, <1>2 DEF InOrder
<1> QED BY <1>1, <1>3 DEF some

LEMMA LinesAreNumbers ==
    ASSUME NEW lines \in Seq(Nat), NEW last \in Nat, NEW most \in Nat, last <= most,
           InOrder(lines, last)
    PROVE  lines \in Seq(1 .. most)
<1> DEFINE Numbers == 1 .. most
<1>1. \A i \in DOMAIN lines : lines[i] \in Numbers BY DEF InOrder
<1> HIDE DEF Numbers
<1>2. lines \in Seq(Numbers) BY <1>1
<1> QED BY <1>2 DEF Numbers

LEMMA NumbersAreNatural ==
    ASSUME NEW most \in Nat, NEW lines \in Seq(1 .. most)
    PROVE  /\ lines \in Seq(Nat) /\ Len(lines) \in Nat /\ DOMAIN lines = 1 .. Len(lines)
           /\ \A i \in DOMAIN lines : lines[i] \in 1 .. most
<1> DEFINE Numbers == 1 .. most
<1>1. Numbers \subseteq Nat OBVIOUS
<1>2. lines \in Seq(Numbers) OBVIOUS
<1> HIDE DEF Numbers
<1>3. lines \in Seq(Nat) /\ \A i \in DOMAIN lines : lines[i] \in Numbers BY <1>1, <1>2
<1> QED BY <1>3 DEF Numbers

\* The types of the pane, from its lines' order.
PaneShape ==
    /\ v1 \in Seq(Nat) /\ Len(v1) <= ScrollbackLimit /\ InOrder(v1, v9) /\ v9 \in 0 .. MaxPushed
    /\ v2 \in 0 .. Len(v1) /\ v3 \in 1 .. MaxRows
    /\ v4 \in Seq(1 .. MaxPushed) /\ v5 \in BOOLEAN
    /\ v6 \in Seq({7, 5171} \X (1 .. 2))

LEMMA PaneShapeIs ==
    /\ Terminal!IInv => PaneShape /\ Terminal!PiecesAreTheCommands /\ Terminal!CommandsComeWhole
    /\ PaneShape /\ Terminal!PiecesAreTheCommands /\ Terminal!CommandsComeWhole => Terminal!IInv
<1> USE DEF PaneShape, Terminal!IInv, Terminal!TypeOK, Terminal!LinesAreInOrder
<1>1. ASSUME Terminal!IInv PROVE PaneShape
  <2>1. v1 \in Seq(Nat) /\ Len(v1) \in Nat /\ \A i \in DOMAIN v1 : v1[i] \in 1 .. MaxPushed
    BY <1>1, NumbersAreNatural, PartsAssumption
  <2>2. InOrder(v1, v9) BY <1>1, <2>1 DEF InOrder
  <2>3. v2 \in 0 .. Len(v1) BY <1>1, <2>1, PartsAssumption
  <2> QED BY <1>1, <2>1, <2>2, <2>3
<1>2. ASSUME PaneShape PROVE Terminal!TypeOK /\ Terminal!LinesAreInOrder
  <2>0. v1 \in Seq(Nat) /\ InOrder(v1, v9) /\ v9 \in Nat /\ v9 <= MaxPushed /\ MaxPushed \in Nat
    BY <1>2, PartsAssumption
  <2>1. v1 \in Seq(1 .. MaxPushed) BY <2>0, LinesAreNumbers
  <2>2. Len(v1) \in Nat /\ v2 \in 0 .. ScrollbackLimit /\ v2 <= Len(v1)
    BY <1>2, PartsAssumption
  <2>3. Terminal!LinesAreInOrder BY <1>2, <2>2, PartsAssumption DEF InOrder
  <2> QED BY <1>2, <2>1, <2>2, <2>3
<1> QED BY <1>1, <1>2

LEMMA PaneShapeNext ==
    (PaneShape /\ Terminal!PiecesAreTheCommands /\ Terminal!CommandsComeWhole => Terminal!IInv)'
BY PaneShapeIs, PTL

LEMMA TerminalInit == ASSUME Terminal!Init PROVE Terminal!IInv
<1>1. /\ v1 = <<>> /\ v2 = 0 /\ v3 = 1 /\ v4 = <<>> /\ v6 = <<>> /\ v7 = <<0, 0>>
      /\ v8 = <<0, <<>>>> /\ v9 = 0 /\ v5 \in BOOLEAN
  BY DEF Terminal!Init
<1>2. v1 \in Seq(Nat) /\ Len(v1) = 0 /\ InOrder(v1, v9) BY <1>1 DEF InOrder
<1> DEFINE Numbers == 1 .. MaxPushed
           Pieces == {7, 5171} \X (1 .. 2)
<1> HIDE DEF Numbers, Pieces
<1>3. v4 \in Seq(Numbers) /\ v6 \in Seq(Pieces) BY <1>1
<1>4. PaneShape BY <1>1, <1>2, <1>3, PartsAssumption DEF PaneShape, Numbers, Pieces
<1>5. Terminal!PiecesAreTheCommands /\ Terminal!CommandsComeWhole
  BY <1>1 DEF Terminal!PiecesAreTheCommands, Terminal!CommandsComeWhole
<1> QED BY <1>4, <1>5, PaneShapeIs

\* What the pane's lines do leaves the commands alone, and the other way round.
LEMMA PaneMoves ==
    ASSUME Terminal!IInv, UNCHANGED <<v6, v7, v8>>, PaneShape' PROVE Terminal!IInv'
<1>1. Terminal!PiecesAreTheCommands' /\ Terminal!CommandsComeWhole'
  BY PaneShapeIs DEF Terminal!PiecesAreTheCommands, Terminal!CommandsComeWhole
<1> QED BY <1>1, PaneShapeNext

LEMMA ClampIs ==
    ASSUME NEW n \in Int, NEW hi \in Nat
    PROVE  /\ Terminal!Clamp(n, 0, hi) \in 0 .. hi
           /\ n \in 0 .. hi => Terminal!Clamp(n, 0, hi) = n
           /\ n > hi => Terminal!Clamp(n, 0, hi) = hi
BY DEF Terminal!Clamp

\* A line more, and the oldest one less when there are too many.
LEMMA PaneKept ==
    ASSUME Terminal!IInv, Terminal!Push
    PROVE  /\ v1' \in Seq(Nat) /\ Len(v1') <= ScrollbackLimit /\ InOrder(v1', v9')
           /\ v9' = v9 + 1 /\ v9' \in 0 .. MaxPushed
           /\ \/ /\ Len(v1') = Len(v1) + 1
                 /\ \A i \in 1 .. Len(v1) : v1'[i] = v1[i]
              \/ /\ Len(v1') = Len(v1) /\ Len(v1) = ScrollbackLimit
                 /\ \A i \in 1 .. Len(v1) - 1 : v1'[i] = v1[i + 1]
                 /\ Len(v1) > 0 => v1'[Len(v1)] = v9 + 1
<1> DEFINE more == Append(v1, v9 + 1)
<1>0. PaneShape BY PaneShapeIs
<1>1. v9' = v9 + 1 /\ v9' \in 0 .. MaxPushed /\ v9 \in Nat /\ v1 \in Seq(Nat) /\ Len(v1) \in Nat
  <2>1. v9' = v9 + 1 /\ v9 < MaxPushed BY DEF Terminal!Push
  <2>2. v9 \in 0 .. MaxPushed /\ v1 \in Seq(Nat) BY <1>0 DEF PaneShape
  <2>3. MaxPushed \in Nat BY PartsAssumption
  <2>4. v9 \in Nat /\ v9' \in 0 .. MaxPushed BY <2>1, <2>2, <2>3
  <2>5. Len(v1) \in Nat BY <2>2
  <2> QED BY <2>1, <2>2, <2>4, <2>5
<1>2. /\ more \in Seq(Nat) /\ Len(more) = Len(v1) + 1
      /\ \A i \in 1 .. Len(v1) : more[i] = v1[i]
      /\ more[Len(v1) + 1] = v9 + 1
      /\ InOrder(more, v9 + 1)
  BY <1>0, <1>1, OneMoreLine DEF PaneShape
<1>3. v1' = IF Len(more) > ScrollbackLimit THEN Tail(more) ELSE more
  BY DEF Terminal!Push
<1> HIDE DEF more
<1>4. CASE Len(more) > ScrollbackLimit
  <2>1. more # <<>> BY <1>1, <1>2
  <2>2. /\ Tail(more) \in Seq(Nat) /\ Len(Tail(more)) = Len(more) - 1
        /\ \A i \in 1 .. Len(more) - 1 : Tail(more)[i] = more[i + 1]
        /\ InOrder(Tail(more), v9 + 1)
    BY <1>1, <1>2, <2>1, WithoutTheFirst
  <2>0. ScrollbackLimit \in Nat /\ Len(v1) <= ScrollbackLimit
    BY <1>0, PartsAssumption DEF PaneShape
  <2>3. v1' = Tail(more) /\ Len(v1) = ScrollbackLimit BY <1>1, <1>2, <1>3, <1>4, <2>0
  <2>5. \A i \in 1 .. Len(v1) : v1'[i] = more[i + 1] BY <1>1, <1>2, <2>2, <2>3
  <2>6. ASSUME NEW i \in 1 .. Len(v1) - 1 PROVE v1'[i] = v1[i + 1]
    <3>1. i \in 1 .. Len(v1) /\ i + 1 \in 1 .. Len(v1) BY <1>1
    <3> QED BY <1>2, <2>5, <3>1
  <2>7. Len(v1) > 0 => v1'[Len(v1)] = v9 + 1 BY <1>1, <1>2, <2>5
  <2>8. Len(v1') = Len(v1) BY <1>1, <1>2, <2>2, <2>3
  <2>9. v1' \in Seq(Nat) /\ Len(v1') <= ScrollbackLimit /\ InOrder(v1', v9')
    BY <1>1, <2>0, <2>2, <2>3, <2>8
  <2> QED BY <1>1, <2>3, <2>6, <2>7, <2>8, <2>9
<1>5. CASE ~(Len(more) > ScrollbackLimit)
  BY <1>1, <1>2, <1>3, <1>5, PartsAssumption
<1> QED BY <1>4, <1>5

LEMMA TerminalPush ==
    ASSUME Terminal!IInv, Terminal!Push PROVE Terminal!IInv' /\ Terminal!ViewStaysPut
<1>0. PaneShape BY PaneShapeIs
<1>1. /\ v1' \in Seq(Nat) /\ Len(v1') <= ScrollbackLimit /\ InOrder(v1', v9')
      /\ v9' = v9 + 1 /\ v9' \in 0 .. MaxPushed /\ v9 \in Nat
      /\ Len(v1') \in Nat /\ Len(v1) \in Nat /\ DOMAIN v1' = 1 .. Len(v1') /\ DOMAIN v1 = 1 .. Len(v1)
  <2>1. v1 \in Seq(Nat) /\ v9 \in Nat BY <1>0, PartsAssumption DEF PaneShape
  <2> QED BY <2>1, PaneKept
<1>2. v2' = (IF v2 > 0 THEN Terminal!Clamp(v2 + 1, 0, Len(v1')) ELSE 0) /\ v2 \in 0 .. Len(v1)
  BY <1>0 DEF Terminal!Push, Terminal!Follow, PaneShape
<1>3. v2' \in 0 .. Len(v1') BY <1>1, <1>2, ClampIs
<1>4. v5' \in BOOLEAN /\ UNCHANGED <<v3, v4, v6, v7, v8>>
  BY DEF Terminal!Push, Terminal!oscVars
<1>5. PaneShape' BY <1>0, <1>1, <1>3, <1>4 DEF PaneShape
<1>6. ASSUME v2 > 0, \E i \in DOMAIN v1' : v1'[i] = Terminal!Top PROVE Terminal!Top' = Terminal!Top
  <2>1. Terminal!Top = v1[Len(v1) - v2 + 1] /\ Terminal!Top' = v1'[Len(v1') - v2' + 1]
    BY DEF Terminal!Top
  <2>2. v2' = Terminal!Clamp(v2 + 1, 0, Len(v1')) BY <1>2, <1>6
  <2>3. CASE Len(v1') = Len(v1) + 1 /\ \A i \in 1 .. Len(v1) : v1'[i] = v1[i]
    <3>1. v2' = v2 + 1 BY <1>1, <1>2, <2>2, <2>3, ClampIs
    <3>a. v2 \in 0 .. Len(v1) /\ v2 > 0 /\ Len(v1) \in Nat /\ Len(v1') = Len(v1) + 1
      BY <1>1, <1>2, <1>6, <2>3
    <3>2. Len(v1') - v2' + 1 = Len(v1) - v2 + 1 /\ Len(v1) - v2 + 1 \in 1 .. Len(v1)
      BY <3>a, <3>1
    <3> QED BY <2>1, <2>3, <3>2
  <2>4. CASE /\ Len(v1') = Len(v1) /\ Len(v1) = ScrollbackLimit
             /\ \A i \in 1 .. Len(v1) - 1 : v1'[i] = v1[i + 1]
             /\ Len(v1) > 0 => v1'[Len(v1)] = v9 + 1
    <3>a. v2 \in 0 .. Len(v1) /\ Len(v1) \in Nat BY <1>1, <1>2
    <3>0. v2 < Len(v1) \/ v2 = Len(v1) BY <3>a
    <3>1. CASE v2 < Len(v1)
      <4>0. v2 + 1 \in 0 .. Len(v1') /\ Len(v1') \in Nat BY <1>1, <1>2, <2>4, <3>1
      <4>1. v2' = v2 + 1 BY <2>2, <4>0, ClampIs
      <4>2. Len(v1') - v2' + 1 = Len(v1) - v2 /\ Len(v1) - v2 \in 1 .. Len(v1) - 1
        BY <1>1, <1>2, <1>6, <2>4, <3>1, <4>1
      <4> QED BY <2>1, <2>4, <4>2
    \* The line that goes is the first: what stays came later.
    <3>2. CASE v2 = Len(v1)
      <4>1. Terminal!Top = v1[1] /\ 1 \in DOMAIN v1 BY <1>1, <1>2, <1>6, <2>1, <3>2
      <4>2. PICK i \in DOMAIN v1' : v1'[i] = v1[1] BY <1>6, <4>1
      <4>3. v1[1] \in 1 .. v9 BY <1>0, <4>1 DEF PaneShape, InOrder
      <4>4. CASE i = Len(v1) BY <1>1, <1>6, <2>4, <3>2, <4>2, <4>3, <4>4
      <4>5. CASE i # Len(v1)
        <5>1. i \in 1 .. Len(v1) - 1 /\ i + 1 \in DOMAIN v1 /\ 1 < i + 1 BY <1>1, <2>4, <4>2, <4>5
        <5>2. v1[1] < v1[i + 1] BY <1>0, <4>1, <5>1 DEF PaneShape, InOrder
        <5>3. v1'[i] = v1[i + 1] BY <2>4, <5>1
        <5> QED BY <4>2, <4>3, <5>2, <5>3
      <4> QED BY <4>4, <4>5
    <3> QED BY <3>0, <3>1, <3>2
  <2> QED BY <2>3, <2>4, PaneKept
<1> QED BY <1>4, <1>5, <1>6, PaneMoves DEF Terminal!ViewStaysPut

LEMMA TerminalPane ==
    ASSUME Terminal!IInv,
           \/ \E rows \in 1 .. MaxRows : Terminal!SetSize(rows)
           \/ \E delta \in {-1, 1} : Terminal!ScrollView(delta)
           \/ Terminal!ResetView \/ Terminal!RebuildGrid
    PROVE  Terminal!IInv'
<1>0. PaneShape /\ v1 \in Seq(Nat) /\ Len(v1) \in Nat /\ v2 \in 0 .. Len(v1) /\ v9 \in Nat
      /\ Len(v1) <= ScrollbackLimit /\ ScrollbackLimit \in Nat /\ v3 \in 1 .. MaxRows /\ MaxRows \in Nat
      /\ DOMAIN v1 = 1 .. Len(v1)
  <2>1. PaneShape BY PaneShapeIs
  <2> QED BY <2>1, PartsAssumption DEF PaneShape
<1>1. ASSUME NEW rows \in 1 .. MaxRows, Terminal!SetSize(rows) PROVE Terminal!IInv'
  <2> DEFINE back == IF rows > v3 THEN Terminal!Clamp(rows - v3, 0, Len(v1)) ELSE 0
  <2>1. back \in 0 .. Len(v1)
    <3>1. rows - v3 \in Int BY <1>0
    <3>2. Terminal!Clamp(rows - v3, 0, Len(v1)) \in 0 .. Len(v1) BY <1>0, <3>1, ClampIs
    <3>3. 0 \in 0 .. Len(v1) BY <1>0
    <3> QED BY <3>2, <3>3
  <2>2. v1' = SubSeq(v1, 1, Len(v1) - back) /\ v2' = 0 /\ v3' = rows /\ v5' \in BOOLEAN
        /\ UNCHANGED <<v4, v6, v7, v8, v9>>
    BY <1>1 DEF Terminal!SetSize, Terminal!oscVars
  <2> HIDE DEF back
  <2>3. Len(v1) - back \in 0 .. Len(v1) BY <1>0, <2>1
  <2>4. InOrder(v1, v9) BY <1>0 DEF PaneShape
  <2>5. v1' \in Seq(Nat) /\ Len(v1') = Len(v1) - back /\ InOrder(v1', v9)
    BY <1>0, <2>2, <2>3, <2>4, TheFirstLines
  <2>6. Len(v1') <= ScrollbackLimit /\ 0 \in 0 .. Len(v1') BY <1>0, <2>3, <2>5
  <2>7. PaneShape' BY <1>0, <2>2, <2>5, <2>6 DEF PaneShape
  <2> QED BY <2>2, <2>7, PaneMoves
<1>2. ASSUME NEW delta \in {-1, 1}, Terminal!ScrollView(delta) PROVE Terminal!IInv'
  <2>1. v2' = Terminal!Clamp(v2 + delta, 0, Len(v1)) /\ v5' \in BOOLEAN
        /\ UNCHANGED <<v1, v3, v4, v6, v7, v8, v9>>
    BY <1>2 DEF Terminal!ScrollView, Terminal!oscVars
  <2>2. v2 + delta \in Int BY <1>0
  <2>3. v2' \in 0 .. Len(v1) BY <1>0, <2>1, <2>2, ClampIs
  <2>4. PaneShape' BY <1>0, <2>1, <2>3 DEF PaneShape
  <2> QED BY <2>1, <2>4, PaneMoves
<1>3. CASE Terminal!ResetView
  <2>1. v2' = 0 /\ v5' \in BOOLEAN /\ UNCHANGED <<v1, v3, v4, v6, v7, v8, v9>>
    BY <1>3 DEF Terminal!ResetView, Terminal!oscVars
  <2>2. 0 \in 0 .. Len(v1) BY <1>0
  <2>3. PaneShape' BY <1>0, <2>1, <2>2 DEF PaneShape
  <2> QED BY <2>1, <2>3, PaneMoves
<1>4. CASE Terminal!RebuildGrid
  <2> DEFINE back == Terminal!Clamp(v2, 0, Len(v1))
             shown == Terminal!Clamp(back, 0, v3)
             Numbers == 1 .. MaxPushed
  <2>1. back = v2 /\ v2 \in Nat BY <1>0, ClampIs
  <2>2. shown \in 0 .. v3 /\ (back <= v3 => shown = back) /\ (back > v3 => shown = v3)
    <3>1. v3 \in Nat /\ back \in Int BY <1>0, <2>1
    <3>2. back <= v3 => back \in 0 .. v3 BY <1>0, <2>1
    <3> HIDE DEF back
    <3>3. /\ shown \in 0 .. v3
          /\ back \in 0 .. v3 => shown = back
          /\ back > v3 => shown = v3
      BY <3>1, ClampIs
    <3> QED BY <3>2, <3>3
  <2>3. v4' = [r \in 1 .. shown |-> v1[Len(v1) - back + r]] /\ v5' \in BOOLEAN
        /\ UNCHANGED <<v1, v2, v3, v6, v7, v8, v9>>
    BY <1>4 DEF Terminal!RebuildGrid, Terminal!oscVars
  <2> HIDE DEF back, shown
  <2>4. \A r \in 1 .. shown : Len(v1) - back + r \in DOMAIN v1 BY <1>0, <2>1, <2>2
  <2>5. \A i \in DOMAIN v1 : v1[i] \in Numbers
    <3>1. \A i \in DOMAIN v1 : v1[i] \in 1 .. v9 BY <1>0 DEF PaneShape, InOrder
    <3>2. v9 \in 0 .. MaxPushed BY <1>0 DEF PaneShape
    <3> QED BY <3>1, <3>2, PartsAssumption
  <2> HIDE DEF Numbers
  <2>6. shown \in Nat BY <1>0, <2>2
  <2>7. v4' \in [1 .. shown -> Numbers] BY <2>3, <2>4, <2>5
  <2>8. v4' \in Seq(Numbers) BY <2>6, <2>7
  <2>9. PaneShape' BY <1>0, <2>3, <2>8 DEF PaneShape, Numbers
  <2> QED BY <2>3, <2>9, PaneMoves
<1> QED BY <1>1, <1>2, <1>3, <1>4

\* A piece more of a command.
LEMMA OnePieceMore ==
    ASSUME NEW cmd, NEW n \in Nat
    PROVE  Append([i \in 1 .. n |-> <<cmd, i>>], <<cmd, n + 1>>) = [i \in 1 .. n + 1 |-> <<cmd, i>>]
OBVIOUS

LEMMA TerminalOsc ==
    ASSUME Terminal!IInv, NEW cmd \in {7, 5171}, NEW initial \in BOOLEAN, NEW final \in BOOLEAN,
           Terminal!Osc(cmd, initial, final)
    PROVE  Terminal!IInv'
<1> DEFINE n == IF initial THEN 0 ELSE v7[2]
           at == <<cmd, n + 1>>
           old == [i \in 1 .. n |-> <<cmd, i>>]
           accum == [i \in 1 .. n + 1 |-> <<cmd, i>>]
           Pieces == {7, 5171} \X (1 .. 2)
<1>0. PaneShape /\ Terminal!PiecesAreTheCommands /\ Terminal!CommandsComeWhole BY PaneShapeIs
<1>1. /\ n \in 0 .. 1
      /\ (IF initial THEN <<>> ELSE v6) = old
      /\ (IF initial THEN <<cmd, 1>> ELSE <<v7[1], v7[2] + 1>>) = at
  <2>1. CASE initial BY <2>1
  <2>2. CASE ~initial
    <3>1. v7[1] = cmd /\ v7 \in {7, 5171} \X (1 .. 2) /\ v6 = [i \in 1 .. v7[2] |-> <<v7[1], i>>]
      BY <1>0, <2>2 DEF Terminal!Osc, Terminal!PiecesAreTheCommands
    <3>2. v7[2] + 1 <= 2 BY <2>2 DEF Terminal!Osc
    <3> QED BY <2>2, <3>1, <3>2
  <2> QED BY <2>1, <2>2
<1>2. Append(old, at) = accum BY <1>1, OnePieceMore
<1>3. /\ v7' = IF final THEN <<0, 0>> ELSE at
      /\ v6' = IF final THEN <<>> ELSE accum
      /\ v8' = IF final THEN <<cmd, accum>> ELSE v8
      /\ UNCHANGED <<v1, v2, v3, v4, v5, v9>>
  <2> DEFINE place == IF initial THEN <<cmd, 1>> ELSE <<v7[1], v7[2] + 1>>
             before == IF initial THEN <<>> ELSE v6
             more == IF place[1] \in {7, 5171} THEN Append(before, place) ELSE v6
  <2>1. /\ v7' = IF final THEN <<0, 0>> ELSE place
        /\ v6' = IF final /\ cmd \in {7, 5171} THEN <<>> ELSE more
        /\ v8' = IF final /\ cmd \in {7, 5171} THEN <<cmd, more>> ELSE v8
        /\ UNCHANGED <<v1, v2, v3, v4, v5, v9>>
    BY DEF Terminal!Osc, Terminal!Before
  <2> HIDE DEF n
  <2>2. place = at /\ before = old /\ at[1] = cmd BY <1>1
  <2> HIDE DEF place, before, accum, old, at
  <2>3. more = accum BY <1>2, <2>2
  <2> HIDE DEF more
  <2> QED BY <2>1, <2>2, <2>3
<1>4. at \in Pieces /\ n + 1 \in 1 .. 2 BY <1>1
<1>5. v6' \in Seq(Pieces)
  <2>1. \A i \in 1 .. n + 1 : <<cmd, i>> \in Pieces BY <1>1
  <2> HIDE DEF Pieces, n
  <2>2. accum \in Seq(Pieces) BY <1>1, <2>1
  <2> QED BY <1>3, <2>2
<1>6. PaneShape' BY <1>0, <1>3, <1>5 DEF PaneShape
<1>7. Terminal!PiecesAreTheCommands'
  <2>1. CASE final BY <1>3, <2>1 DEF Terminal!PiecesAreTheCommands
  <2>2. CASE ~final
    <3>1. v7' = at /\ v6' = accum /\ at[1] = cmd /\ at[2] = n + 1 BY <1>3, <2>2
    <3> HIDE DEF n
    <3> QED BY <1>4, <3>1 DEF Terminal!PiecesAreTheCommands
  <2> QED BY <2>1, <2>2
<1>8. Terminal!CommandsComeWhole'
  <2>1. CASE final
    <3>1. v8'[1] = cmd /\ v8'[2] = accum BY <1>3, <2>1
    <3> HIDE DEF n
    <3> QED BY <1>4, <3>1 DEF Terminal!CommandsComeWhole
  <2>2. CASE ~final BY <1>0, <1>3, <2>2 DEF Terminal!CommandsComeWhole
  <2> QED BY <2>1, <2>2
<1> QED BY <1>6, <1>7, <1>8, PaneShapeNext

LEMMA TerminalStep ==
    ASSUME Terminal!IInv, [Terminal!Next]_(Terminal!vars)
    PROVE  Terminal!IInv' /\ (Terminal!ViewStaysPut \/ UNCHANGED Terminal!vars)
<1>1. CASE UNCHANGED Terminal!vars
  <2>1. PaneShape' BY <1>1, PaneShapeIs DEF Terminal!vars, Terminal!oscVars, PaneShape
  <2>2. UNCHANGED <<v6, v7, v8>> BY <1>1 DEF Terminal!vars, Terminal!oscVars
  <2> QED BY <1>1, <2>1, <2>2, PaneMoves
<1>2. CASE Terminal!Push BY <1>2, TerminalPush
<1>3. ASSUME ~Terminal!Push PROVE Terminal!ViewStaysPut BY <1>3 DEF Terminal!ViewStaysPut
<1>4. CASE Terminal!OscCutShort
  <2>1. UNCHANGED <<v1, v2, v3, v4, v5, v6, v8, v9>> /\ v7' = <<0, 0>>
    BY <1>4 DEF Terminal!OscCutShort
  <2>2. PaneShape' BY <2>1, PaneShapeIs DEF PaneShape
  <2>3. Terminal!PiecesAreTheCommands' /\ Terminal!CommandsComeWhole'
    BY <2>1, PaneShapeIs DEF Terminal!PiecesAreTheCommands, Terminal!CommandsComeWhole
  <2> QED BY <1>2, <1>3, <2>2, <2>3, PaneShapeNext
<1>5. CASE \/ \E rows \in 1 .. MaxRows : Terminal!SetSize(rows)
           \/ \E delta \in {-1, 1} : Terminal!ScrollView(delta)
           \/ Terminal!ResetView \/ Terminal!RebuildGrid
  BY <1>2, <1>3, <1>5, TerminalPane
<1>6. ASSUME NEW cmd \in {7, 5171}, NEW initial \in BOOLEAN, NEW final \in BOOLEAN,
             Terminal!Osc(cmd, initial, final)
      PROVE  Terminal!IInv' /\ (Terminal!ViewStaysPut \/ UNCHANGED Terminal!vars)
  BY <1>2, <1>3, <1>6, TerminalOsc
<1> QED BY <1>1, <1>2, <1>4, <1>5, <1>6 DEF Terminal!Next

----------------------------------------------------------------------------
(* Lists, one behind the other.                                            *)

LEMMA Least ==
    ASSUME NEW T, T \subseteq Nat, T # {}
    PROVE  \E x \in T : \A y \in T : x <= y
<1>1. IsWellFoundedOn(OpToRel(<, Nat), Nat) BY NatLessThanWellFounded
<1>2. PICK x \in T : \A y \in T : <<y, x>> \notin OpToRel(<, Nat)
  BY <1>1, WFMin
<1>3. \A y, z \in Nat : y < z => <<y, z>> \in OpToRel(<, Nat) BY DEF OpToRel
<1>4. \A y \in T : ~(y < x) BY <1>2, <1>3
<1>5. \A y \in T : x <= y BY <1>4
<1> QED BY <1>5

IsFlat(g, s) ==
    /\ g = [i \in 1..Len(s) |-> g[i]]
    /\ \A i \in 1..Len(s) : g[i] = IF i = 1 THEN s[1] ELSE g[i - 1] \o s[i]

LEMMA FlatExists ==
    ASSUME NEW s
    PROVE  \A n \in Nat : \E g : /\ g = [i \in 1..n |-> g[i]]
                                 /\ \A i \in 1..n : g[i] = IF i = 1 THEN s[1] ELSE g[i - 1] \o s[i]
<1> DEFINE Upto(g, n) == /\ g = [i \in 1..n |-> g[i]]
                         /\ \A i \in 1..n : g[i] = IF i = 1 THEN s[1] ELSE g[i - 1] \o s[i]
           T == {n \in Nat : ~ \E g : Upto(g, n)}
<1> SUFFICES ASSUME T # {} PROVE FALSE
  OBVIOUS
<1>1. PICK n \in T : \A m \in T : n <= m BY Least
<1>2. n # 0
  <2>1. Upto([i \in 1..0 |-> s[1]], 0) OBVIOUS
  <2> QED BY <2>1
<1>3. PICK g : Upto(g, n - 1)
  <2>1. n - 1 \in Nat /\ ~(n <= n - 1) BY <1>1, <1>2
  <2>2. n - 1 \notin T BY <1>1, <2>1
  <2> QED BY <2>1, <2>2
<1> DEFINE h == [i \in 1..n |-> IF i < n THEN g[i] ELSE IF n = 1 THEN s[1] ELSE g[n - 1] \o s[n]]
<1>4. \A i \in 1..n : h[i] = IF i = 1 THEN s[1] ELSE h[i - 1] \o s[i]
  <2> TAKE i \in 1..n
  <2>1. CASE i = n
    <3>1. i # 1 => i - 1 \in 1..n /\ i - 1 < n BY <2>1
    <3>2. i # 1 => h[i - 1] = g[i - 1] BY <3>1
    <3> QED BY <2>1, <3>2
  <2>2. CASE i < n
    <3>1. i \in 1..n - 1 /\ h[i] = g[i] BY <2>2
    <3>2. i # 1 => i - 1 \in 1..n - 1 /\ h[i - 1] = g[i - 1] BY <2>2
    <3> QED BY <1>3, <3>1, <3>2
  <2> QED BY <2>1, <2>2
<1>5. h = [i \in 1..n |-> h[i]] OBVIOUS
<1>6. Upto(h, n) BY <1>4, <1>5
<1> QED BY <1>6

LEMMA Flattened ==
    ASSUME NEW s, Len(s) \in Nat
    PROVE  /\ Len(s) = 0 => Loading!FlattenSeq(s) = s
           /\ Len(s) # 0 => \E g : IsFlat(g, s) /\ Loading!FlattenSeq(s) = g[Len(s)]
<1>1. ASSUME Len(s) # 0 PROVE \E g : IsFlat(g, s) /\ Loading!FlattenSeq(s) = g[Len(s)]
  <2> DEFINE P(g) == g = [i \in 1..Len(s) |->
                            IF i = 1 THEN s[i] ELSE g[i - 1] \o s[i]]
             f == CHOOSE g : P(g)
  <2>1. PICK g : IsFlat(g, s) BY FlatExists DEF IsFlat
  <2>2. P(g)
    <3>1. \A i \in 1..Len(s) : g[i] = IF i = 1 THEN s[i] ELSE g[i - 1] \o s[i]
      BY <2>1 DEF IsFlat
    <3> QED BY <2>1, <3>1 DEF IsFlat
  <2>3. P(f) BY <2>2
  <2>4. Loading!FlattenSeq(s) = f[Len(s)] BY <1>1 DEF Loading!FlattenSeq
  <2> HIDE DEF f
  <2>5. IsFlat(f, s)
    <3>1. \A i \in 1..Len(s) : f[i] = IF i = 1 THEN s[1] ELSE f[i - 1] \o s[i]
      BY <2>3
    <3>2. f = [i \in 1..Len(s) |-> f[i]] BY <2>3
    <3> QED BY <3>1, <3>2 DEF IsFlat
  <2> QED BY <2>4, <2>5
<1>2. Len(s) = 0 => Loading!FlattenSeq(s) = s BY DEF Loading!FlattenSeq
<1> QED BY <1>1, <1>2

\* `out` is what f picks of the first n of `list`: all that is in T, in order.
Picks(f, out, list, T, n) ==
    /\ f \in [1..Len(out) -> 1..n]
    /\ \A k \in 1..Len(out) : out[k] = list[f[k]] /\ list[f[k]] \in T
    /\ \A k, l \in 1..Len(out) : k < l => f[k] < f[l]
    /\ \A i \in 1..n : list[i] \in T => \E k \in 1..Len(out) : f[k] = i

LEMMA OnePickMore ==
    ASSUME NEW X, NEW T, NEW m \in Nat, NEW list, NEW out \in Seq(X), NEW f,
           Picks(f, out, list, T, m), list[m + 1] \in T, list[m + 1] \in X
    PROVE  /\ out \o <<list[m + 1]>> \in Seq(X)
           /\ \E g : Picks(g, out \o <<list[m + 1]>>, list, T, m + 1)
<1> DEFINE more == out \o <<list[m + 1]>>
           g == [k \in 1..Len(out) + 1 |-> IF k = Len(out) + 1 THEN m + 1 ELSE f[k]]
<1>1. /\ Len(out) \in Nat /\ more \in Seq(X) /\ Len(more) = Len(out) + 1
      /\ \A k \in 1..Len(out) : more[k] = out[k]
      /\ more[Len(out) + 1] = list[m + 1]
  OBVIOUS
<1>2. \A k \in 1..Len(out) : f[k] \in 1..m BY DEF Picks
<1>3. \A k \in 1..Len(out) + 1 : (k \in 1..Len(out) /\ k # Len(out) + 1) \/ k = Len(out) + 1
  BY <1>1
<1>4. (\A k \in 1..Len(out) : g[k] = f[k]) /\ g[Len(out) + 1] = m + 1 BY <1>1
<1>g. DOMAIN g = 1..Len(out) + 1 /\ g = [k \in 1..Len(out) + 1 |-> g[k]] OBVIOUS
<1> HIDE DEF more, g
<1>5. \A k \in 1..Len(out) + 1 : g[k] \in 1..m + 1
  <2> TAKE k \in 1..Len(out) + 1
  <2>1. CASE k \in 1..Len(out)
    <3>1. PICK x \in 1..m : x = f[k] BY <1>2, <2>1
    <3> QED BY <1>4, <2>1, <3>1
  <2>2. CASE k = Len(out) + 1 BY <1>4, <2>2
  <2> QED BY <1>3, <2>1, <2>2
<1>6. g \in [1..Len(more) -> 1..m + 1] BY <1>1, <1>g, <1>5
<1>7. \A k \in 1..Len(more) : more[k] = list[g[k]] /\ list[g[k]] \in T
  <2> TAKE k \in 1..Len(more)
  <2>1. CASE k \in 1..Len(out) BY <1>1, <1>4, <2>1 DEF Picks
  <2>2. CASE k = Len(out) + 1 BY <1>1, <1>4, <2>2
  <2> QED BY <1>1, <1>3, <2>1, <2>2
<1>8. \A k, l \in 1..Len(more) : k < l => g[k] < g[l]
  <2> TAKE k, l \in 1..Len(more)
  <2> HAVE k < l
  <2>1. k \in 1..Len(out) BY <1>1
  <2>2. CASE l \in 1..Len(out)
    <3>1. f[k] < f[l] BY <2>1, <2>2 DEF Picks
    <3> QED BY <1>4, <2>1, <2>2, <3>1
  <2>3. CASE l = Len(out) + 1
    <3>1. PICK x \in 1..m : x = f[k] BY <1>2, <2>1
    <3> QED BY <1>4, <2>1, <2>3, <3>1
  <2> QED BY <1>1, <1>3, <2>2, <2>3
<1>9. ASSUME NEW i \in 1..m + 1, list[i] \in T PROVE \E k \in 1..Len(more) : g[k] = i
  <2>1. CASE i \in 1..m
    <3>1. PICK k \in 1..Len(out) : f[k] = i BY <1>9, <2>1 DEF Picks
    <3>2. k \in 1..Len(more) BY <1>1
    <3> QED BY <1>4, <3>1, <3>2
  <2>2. CASE i = m + 1
    <3>1. Len(out) + 1 \in 1..Len(more) BY <1>1
    <3> QED BY <1>4, <2>2, <3>1
  <2> QED BY <2>1, <2>2
<1>10. Picks(g, more, list, T, m + 1) BY <1>6, <1>7, <1>8, <1>9 DEF Picks
<1> QED BY <1>1, <1>10 DEF more

LEMMA NothingMore ==
    ASSUME NEW X, NEW T, NEW m \in Nat, NEW list, NEW out \in Seq(X), NEW f,
           Picks(f, out, list, T, m), list[m + 1] \notin T
    PROVE  Picks(f, out, list, T, m + 1)
<1>1. \A k \in 1..Len(out) : f[k] \in 1..m BY DEF Picks
<1>2. f \in [1..Len(out) -> 1..m + 1] BY <1>1 DEF Picks
<1>3. \A i \in 1..m + 1 : i \in 1..m \/ i = m + 1 OBVIOUS
<1> QED BY <1>2, <1>3 DEF Picks

\* What Among keeps of a list.
LEMMA AmongPicks ==
    ASSUME NEW X, NEW T, NEW list \in Seq(X)
    PROVE  /\ Loading!Among(list, T) \in Seq(X)
           /\ \E f : Picks(f, Loading!Among(list, T), list, T, Len(list))
<1> DEFINE n == Len(list)
           ones == [i \in DOMAIN list |-> IF list[i] \in T THEN <<list[i]>> ELSE <<>>]
           all1 == Loading!Among(list, T)
<1>0. n \in Nat /\ DOMAIN list = 1..n /\ \A i \in 1..n : list[i] \in X OBVIOUS
<1>1. all1 = Loading!FlattenSeq(ones) BY DEF Loading!Among
<1>2. DOMAIN ones = 1..n
      /\ \A i \in 1..n : ones[i] = IF list[i] \in T THEN <<list[i]>> ELSE <<>>
  BY <1>0
<1>3. ones \in Seq(Seq(X))
  <2>1. \A i \in 1..n : ones[i] \in Seq(X) BY <1>0, <1>2
  <2>2. ones = [i \in 1..n |-> ones[i]] BY <1>0
  <2> HIDE DEF ones
  <2>3. ones \in [1..n -> Seq(X)] BY <2>1, <2>2
  <2> QED BY <1>0, <2>3
<1>4. Len(ones) = n BY <1>0, <1>2, <1>3
<1> HIDE DEF ones, all1, n
<1>5. CASE n = 0
  <2>1. all1 = ones /\ ones = <<>> BY <1>1, <1>3, <1>4, <1>5, Flattened
  <2>2. Picks(<<>>, all1, list, T, n) BY <1>5, <2>1 DEF Picks
  <2>3. all1 \in Seq(X) BY <2>1
  <2> QED BY <2>2, <2>3 DEF all1, n
<1>6. CASE n # 0
  <2>1. PICK g : IsFlat(g, ones) /\ all1 = g[n] BY <1>0, <1>1, <1>4, <1>6, Flattened
  <2> DEFINE Right(i) == g[i] \in Seq(X) /\ \E f : Picks(f, g[i], list, T, i)
  <2>2. Right(1)
    <3>1. 1 \in 1..n BY <1>0, <1>6
    <3>2. g[1] = IF list[1] \in T THEN <<list[1]>> ELSE <<>>
      BY <1>2, <1>4, <2>1, <3>1 DEF IsFlat
    <3>3. <<>> \in Seq(X) /\ Len(<<>>) = 0 /\ Picks(<<>>, <<>>, list, T, 0) BY DEF Picks
    <3>4. CASE list[1] \in T
      <4>1. list[0 + 1] \in T /\ list[0 + 1] \in X BY <1>0, <3>1, <3>4
      <4>2. /\ <<>> \o <<list[0 + 1]>> \in Seq(X)
            /\ \E f : Picks(f, <<>> \o <<list[0 + 1]>>, list, T, 0 + 1)
        BY <3>3, <4>1, OnePickMore
      <4>3. <<>> \o <<list[0 + 1]>> = <<list[1]>> OBVIOUS
      <4> QED BY <3>2, <3>4, <4>2, <4>3
    <3>5. CASE list[1] \notin T
      <4>1. list[0 + 1] \notin T BY <3>5
      <4>2. Picks(<<>>, <<>>, list, T, 0 + 1) BY <3>3, <4>1, NothingMore
      <4> QED BY <3>2, <3>3, <3>5, <4>2
    <3> QED BY <3>4, <3>5
  <2>3. ASSUME NEW i \in 2..n, Right(i - 1) PROVE Right(i)
    <3>1. PICK m \in 1..n : m = i - 1 /\ i = m + 1 BY <1>0
    <3>2. i \in 1..n /\ i # 1 /\ m \in Nat BY <1>0, <3>1
    <3>3. g[i] = g[m] \o ones[i] BY <1>4, <2>1, <3>1, <3>2 DEF IsFlat
    <3>4. PICK f : Picks(f, g[m], list, T, m) BY <2>3, <3>1
    <3>5. g[m] \in Seq(X) BY <2>3, <3>1
    <3>6. CASE list[i] \in T
      <4>1. list[m + 1] \in T /\ list[m + 1] \in X BY <1>0, <3>1, <3>2, <3>6
      <4>2. /\ g[m] \o <<list[m + 1]>> \in Seq(X)
            /\ \E h : Picks(h, g[m] \o <<list[m + 1]>>, list, T, m + 1)
        BY <3>2, <3>4, <3>5, <4>1, OnePickMore
      <4>3. ones[i] = <<list[m + 1]>> BY <1>2, <3>1, <3>2, <3>6
      <4> QED BY <3>1, <3>3, <4>2, <4>3
    <3>7. CASE list[i] \notin T
      <4>1. ones[i] = <<>> BY <1>2, <3>2, <3>7
      <4>2. g[i] = g[m] BY <3>3, <3>5, <4>1
      <4>3. Picks(f, g[m], list, T, m + 1) BY <3>1, <3>2, <3>4, <3>5, <3>7, NothingMore
      <4> QED BY <3>1, <3>5, <4>2, <4>3
    <3> QED BY <3>6, <3>7
  <2> DEFINE Wrong == {i \in 1..n : ~Right(i)}
  <2>4. Wrong = {}
    <3> HIDE DEF Right
    <3> SUFFICES ASSUME Wrong # {} PROVE FALSE
      OBVIOUS
    <3>0. Wrong \subseteq Nat BY <1>0
    <3>1. PICK i \in Wrong : \A j \in Wrong : i <= j BY <3>0, Least
    <3>2. i \in 2..n BY <1>0, <2>2
    <3>3. i - 1 \in 1..n /\ i - 1 \notin Wrong BY <1>0, <3>1, <3>2
    <3>4. Right(i - 1) BY <3>3
    <3> QED BY <2>3, <3>2, <3>4
  <2>5. Right(n)
    <3> HIDE DEF Right
    <3> QED BY <1>0, <1>6, <2>4
  <2> QED BY <2>1, <2>5 DEF all1, n
<1> QED BY <1>5, <1>6

----------------------------------------------------------------------------
(* The names of a catalog.                                                 *)

\* g lists the tools of the first 0, 1, .. n servers.
ListsUpTo(g, n, of) ==
    /\ g = [m \in 0..n |-> g[m]]
    /\ \A m \in 0..n :
          g[m] = IF m = 0 THEN <<>>
                 ELSE g[m - 1] \o [j \in 1..Len(of[ServerOrder[m]]) |->
                                      Catalog!Tool(ServerOrder[m], of[ServerOrder[m]][j])]

LEMMA ListsExist == ASSUME NEW of PROVE \A n \in Nat : \E g : ListsUpTo(g, n, of)
<1> DEFINE More(s, m) == s \o [j \in 1..Len(of[ServerOrder[m]]) |->
                                  Catalog!Tool(ServerOrder[m], of[ServerOrder[m]][j])]
           T == {n \in Nat : ~ \E g : ListsUpTo(g, n, of)}
<1>0. \A g, n : ListsUpTo(g, n, of) <=> /\ g = [m \in 0..n |-> g[m]]
                                        /\ \A m \in 0..n :
                                              g[m] = IF m = 0 THEN <<>> ELSE More(g[m - 1], m)
  BY DEF ListsUpTo
<1> HIDE DEF More
<1> SUFFICES ASSUME T # {} PROVE FALSE
  OBVIOUS
<1>1. PICK n \in T : \A m \in T : n <= m BY Least
<1>2. n # 0
  <2> DEFINE g == [m \in 0..0 |-> <<>>]
  <2>1. g = [m \in 0..0 |-> g[m]] /\ \A m \in 0..0 : m = 0 /\ g[m] = <<>> OBVIOUS
  <2> HIDE DEF g
  <2>2. ListsUpTo(g, 0, of) BY <1>0, <2>1
  <2> QED BY <2>2
<1>3. PICK g : ListsUpTo(g, n - 1, of)
  <2>1. n - 1 \in Nat /\ ~(n <= n - 1) BY <1>1, <1>2
  <2>2. n - 1 \notin T BY <1>1, <2>1
  <2> QED BY <2>1, <2>2
<1> DEFINE h == [m \in 0..n |-> IF m < n THEN g[m] ELSE More(g[n - 1], n)]
<1>4. \A m \in 0..n : h[m] = IF m = 0 THEN <<>> ELSE More(h[m - 1], m)
  <2> TAKE m \in 0..n
  <2>1. CASE m = n
    <3>1. n - 1 \in 0..n /\ n - 1 < n /\ ~(n < n) BY <1>2
    <3>2. h[n - 1] = g[n - 1] /\ h[n] = More(g[n - 1], n) BY <3>1
    <3> QED BY <1>2, <2>1, <3>2
  <2>2. CASE m < n
    <3>1. m \in 0..n - 1 /\ h[m] = g[m] BY <2>2
    <3>2. m # 0 => m - 1 \in 0..n /\ m - 1 < n BY <2>2
    <3>3. m # 0 => h[m - 1] = g[m - 1] BY <3>2
    <3> QED BY <1>0, <1>3, <3>1, <3>3
  <2> QED BY <2>1, <2>2
<1>5. h = [m \in 0..n |-> h[m]] OBVIOUS
<1> HIDE DEF h
<1>6. ListsUpTo(h, n, of) BY <1>0, <1>4, <1>5
<1> QED BY <1>6

Entries == [server : Catalog!ServerNames, tool : DOMAIN Sanitized]

LEMMA ListedTools ==
    ASSUME NEW of \in [Catalog!ServerNames -> Seq(DOMAIN Sanitized)]
    PROVE  Catalog!Listed(of) \in Seq(Entries)
<1> DEFINE N == Len(ServerOrder)
           P(g) == g = [n \in 0..N |->
                          IF n = 0 THEN <<>>
                          ELSE g[n - 1] \o [j \in 1..Len(of[ServerOrder[n]]) |->
                                               Catalog!Tool(ServerOrder[n], of[ServerOrder[n]][j])]]
           f == CHOOSE g : P(g)
<1>1. N \in Nat /\ DOMAIN ServerOrder = 1..N BY CatalogAssumption
<1>2. PICK g : ListsUpTo(g, N, of) BY <1>1, ListsExist
<1>3. P(g)
  <2>1. g = [n \in 0..N |-> g[n]]
        /\ \A n \in 0..N : g[n] = IF n = 0 THEN <<>>
                                  ELSE g[n - 1] \o [j \in 1..Len(of[ServerOrder[n]]) |->
                                           Catalog!Tool(ServerOrder[n], of[ServerOrder[n]][j])]
    BY <1>2 DEF ListsUpTo
  <2> QED BY <2>1
<1>4. P(f) BY <1>3
<1>5. Catalog!Listed(of) = f[N] BY DEF Catalog!Listed
<1> HIDE DEF f
<1>6. \A n \in 0..N : f[n] = IF n = 0 THEN <<>>
                             ELSE f[n - 1] \o [j \in 1..Len(of[ServerOrder[n]]) |->
                                           Catalog!Tool(ServerOrder[n], of[ServerOrder[n]][j])]
  BY <1>4
<1>7. f[0] \in Seq(Entries)
  <2>1. 0 \in 0..N BY <1>1
  <2>2. f[0] = <<>> BY <1>6, <2>1
  <2>3. <<>> \in Seq(Entries) OBVIOUS
  <2> QED BY <2>2, <2>3
<1>8. ASSUME NEW n \in 1..N, f[n - 1] \in Seq(Entries) PROVE f[n] \in Seq(Entries)
  <2> DEFINE s == ServerOrder[n]
             more == [j \in 1..Len(of[s]) |-> Catalog!Tool(s, of[s][j])]
  <2>1. s \in Catalog!ServerNames BY <1>1 DEF Catalog!ServerNames
  <2>2. of[s] \in Seq(DOMAIN Sanitized) BY <2>1
  <2>3. Len(of[s]) \in Nat /\ \A j \in 1..Len(of[s]) : of[s][j] \in DOMAIN Sanitized BY <2>2
  <2>4. \A j \in 1..Len(of[s]) : Catalog!Tool(s, of[s][j]) \in Entries
    BY <2>1, <2>3 DEF Catalog!Tool, Entries
  <2>5. more \in [1..Len(of[s]) -> Entries] BY <2>4
  <2> HIDE DEF more
  <2>6. more \in Seq(Entries) BY <2>3, <2>5
  <2>7. f[n] = f[n - 1] \o more
    <3>1. n \in 0..N /\ n # 0 BY <1>1
    <3> QED BY <1>6, <3>1 DEF more
  <2> QED BY <1>8, <2>6, <2>7
<1> HIDE DEF N
<1> DEFINE Wrong == {n \in 0..N : f[n] \notin Seq(Entries)}
<1>9. Wrong = {}
  <2> SUFFICES ASSUME Wrong # {} PROVE FALSE
    OBVIOUS
  <2>0. Wrong \subseteq Nat BY <1>1
  <2>1. PICK n \in Wrong : \A m \in Wrong : n <= m BY <2>0, Least
  <2>2. n \in 1..N
    <3>1. n # 0 BY <1>7, <2>1
    <3> QED BY <1>1, <2>1, <3>1
  <2>3. n - 1 \in 0..N /\ n - 1 \notin Wrong BY <1>1, <2>1, <2>2
  <2>4. f[n - 1] \in Seq(Entries) BY <2>3
  <2> QED BY <1>8, <2>1, <2>2, <2>4
<1> QED BY <1>1, <1>5, <1>9 DEF N

\* g names the first 0, 1, .. n tools of a list, one after the other.
NamesUpTo(g, n, list) ==
    /\ g = [m \in 0..n |-> g[m]]
    /\ \A m \in 0..n :
          g[m] = IF m = 0 THEN <<>>
                 ELSE Append(g[m - 1], Catalog!Named(list[m], Catalog!Exposed(g[m - 1])))

LEMMA NamesExist == ASSUME NEW list PROVE \A n \in Nat : \E g : NamesUpTo(g, n, list)
<1> DEFINE More(s, m) == Append(s, Catalog!Named(list[m], Catalog!Exposed(s)))
           T == {n \in Nat : ~ \E g : NamesUpTo(g, n, list)}
<1>0. \A g, n : NamesUpTo(g, n, list) <=> /\ g = [m \in 0..n |-> g[m]]
                                          /\ \A m \in 0..n :
                                                g[m] = IF m = 0 THEN <<>> ELSE More(g[m - 1], m)
  BY DEF NamesUpTo
<1> HIDE DEF More
<1> SUFFICES ASSUME T # {} PROVE FALSE
  OBVIOUS
<1>1. PICK n \in T : \A m \in T : n <= m BY Least
<1>2. n # 0
  <2> DEFINE g == [m \in 0..0 |-> <<>>]
  <2>1. g = [m \in 0..0 |-> g[m]] /\ \A m \in 0..0 : m = 0 /\ g[m] = <<>> OBVIOUS
  <2> HIDE DEF g
  <2>2. NamesUpTo(g, 0, list) BY <1>0, <2>1
  <2> QED BY <2>2
<1>3. PICK g : NamesUpTo(g, n - 1, list)
  <2>1. n - 1 \in Nat /\ ~(n <= n - 1) BY <1>1, <1>2
  <2>2. n - 1 \notin T BY <1>1, <2>1
  <2> QED BY <2>1, <2>2
<1> DEFINE h == [m \in 0..n |-> IF m < n THEN g[m] ELSE More(g[n - 1], n)]
<1>4. \A m \in 0..n : h[m] = IF m = 0 THEN <<>> ELSE More(h[m - 1], m)
  <2> TAKE m \in 0..n
  <2>1. CASE m = n
    <3>1. n - 1 \in 0..n /\ n - 1 < n /\ ~(n < n) BY <1>2
    <3>2. h[n - 1] = g[n - 1] /\ h[n] = More(g[n - 1], n) BY <3>1
    <3> QED BY <1>2, <2>1, <3>2
  <2>2. CASE m < n
    <3>1. m \in 0..n - 1 /\ h[m] = g[m] BY <2>2
    <3>2. m # 0 => m - 1 \in 0..n /\ m - 1 < n BY <2>2
    <3>3. m # 0 => h[m - 1] = g[m - 1] BY <3>2
    <3> QED BY <1>0, <1>3, <3>1, <3>3
  <2> QED BY <2>1, <2>2
<1>5. h = [m \in 0..n |-> h[m]] OBVIOUS
<1> HIDE DEF h
<1>6. NamesUpTo(h, n, list) BY <1>0, <1>4, <1>5
<1> QED BY <1>6

\* One more tool: its name is plain only where no tool before it has that name.
LEMMA OneNameMore ==
    ASSUME NEW X, NEW before \in Seq(X), NEW tool, Catalog!NamesTell(before),
           Catalog!Named(tool, Catalog!Exposed(before)) \in X
    PROVE  LET more == Append(before, Catalog!Named(tool, Catalog!Exposed(before)))
           IN more \in Seq(X) /\ Catalog!NamesTell(more)
<1> DEFINE name == Catalog!ExposedToolName(tool.server, tool.tool)
           last == Catalog!Named(tool, Catalog!Exposed(before))
           n == Len(before)
           more == Append(before, last)
<1>1. /\ n \in Nat /\ DOMAIN before = 1..n
      /\ more \in Seq(X) /\ DOMAIN more = 1..n + 1
      /\ \A i \in 1..n : more[i] = before[i]
      /\ more[n + 1] = last
      /\ \A i \in 1..n + 1 : i \in 1..n \/ i = n + 1
  OBVIOUS
<1>2. /\ last.server = tool.server /\ last.tool = tool.tool
      /\ last.exposed = IF name \in Catalog!Exposed(before)
                        THEN <<name[1], name[2], <<tool.server, tool.tool>>>> ELSE name
  BY DEF Catalog!Named, Catalog!UniqueName
<1>3. name = <<Sanitized[tool.server], Sanitized[tool.tool], <<>>>>
  BY DEF Catalog!ExposedToolName
<1>4. last = Catalog!Entry(last.server, last.tool, last.exposed)
  BY DEF Catalog!Named, Catalog!Entry
<1>5. Catalog!IsPlain(last) \/ Catalog!IsSuffixed(last)
  BY <1>2, <1>3, <1>4 DEF Catalog!IsPlain, Catalog!IsSuffixed, Catalog!ExposedToolName
<1>6. Catalog!IsPlain(last) => last.exposed \notin Catalog!Exposed(before)
  <2> SUFFICES ASSUME Catalog!IsPlain(last), name \in Catalog!Exposed(before) PROVE FALSE
    BY <1>2
  <2>1. last.exposed = name
    BY <1>2 DEF Catalog!IsPlain, Catalog!Entry, Catalog!ExposedToolName
  <2>2. <<>> # <<tool.server, tool.tool>> OBVIOUS
  <2>3. last.exposed[3] = <<tool.server, tool.tool>> BY <1>2
  <2>4. name[3] = <<>> BY <1>3
  <2> QED BY <2>1, <2>2, <2>3, <2>4
<1>7. \A i \in 1..n : before[i].exposed \in Catalog!Exposed(before) BY <1>1 DEF Catalog!Exposed
<1> HIDE DEF last, more, name, n
<1>8. ASSUME NEW i \in DOMAIN more PROVE Catalog!IsPlain(more[i]) \/ Catalog!IsSuffixed(more[i])
  <2>1. CASE i \in 1..n BY <1>1, <2>1 DEF Catalog!NamesTell
  <2>2. CASE i = n + 1 BY <1>1, <1>5, <2>2
  <2> QED BY <1>1, <1>8, <2>1, <2>2
<1>9. ASSUME NEW i \in DOMAIN more, NEW j \in DOMAIN more, i < j, Catalog!IsPlain(more[j])
      PROVE  more[i].exposed # more[j].exposed
  <2>1. i \in 1..n BY <1>1, <1>9
  <2>2. CASE j \in 1..n
    <3>1. Catalog!IsPlain(before[j]) BY <1>1, <1>9, <2>2
    <3> QED BY <1>1, <1>9, <2>1, <2>2, <3>1 DEF Catalog!NamesTell
  <2>3. CASE j = n + 1
    <3>1. Catalog!IsPlain(last) BY <1>1, <1>9, <2>3
    <3> QED BY <1>1, <1>6, <1>7, <2>1, <2>3, <3>1
  <2> QED BY <1>1, <1>9, <2>2, <2>3
<1>10. Catalog!NamesTell(more) BY <1>8, <1>9 DEF Catalog!NamesTell
<1> QED BY <1>1, <1>10 DEF more, last

LEMMA FinalizedTells ==
    ASSUME NEW list, Len(list) \in Nat
    PROVE  \E X : Catalog!Finalize(list) \in Seq(X) /\ Catalog!NamesTell(Catalog!Finalize(list))
<1> DEFINE N == Len(list)
           P(g) == g = [n \in 0..N |->
                          IF n = 0 THEN <<>>
                          ELSE Append(g[n - 1], Catalog!Named(list[n], Catalog!Exposed(g[n - 1])))]
           f == CHOOSE g : P(g)
<1>1. PICK g : NamesUpTo(g, N, list) BY NamesExist
<1>2. P(g)
  <2>1. g = [n \in 0..N |-> g[n]]
        /\ \A n \in 0..N :
              g[n] = IF n = 0 THEN <<>>
                     ELSE Append(g[n - 1], Catalog!Named(list[n], Catalog!Exposed(g[n - 1])))
    BY <1>1 DEF NamesUpTo
  <2> QED BY <2>1
<1>3. P(f) BY <1>2
<1>4. Catalog!Finalize(list) = f[N] BY DEF Catalog!Finalize
<1> HIDE DEF f
<1>5. \A n \in 0..N : f[n] = IF n = 0 THEN <<>>
                             ELSE Append(f[n - 1], Catalog!Named(list[n], Catalog!Exposed(f[n - 1])))
  BY <1>3
<1> DEFINE X == {Catalog!Named(list[n], Catalog!Exposed(f[n - 1])) : n \in 1..N}
           Right(n) == f[n] \in Seq(X) /\ Catalog!NamesTell(f[n])
<1>6. Right(0)
  <2>1. f[0] = <<>> BY <1>5
  <2> QED BY <2>1 DEF Catalog!NamesTell
<1>7. ASSUME NEW n \in 1..N, Right(n - 1) PROVE Right(n)
  <2>1. n \in 0..N /\ n # 0 OBVIOUS
  <2>2. f[n] = Append(f[n - 1], Catalog!Named(list[n], Catalog!Exposed(f[n - 1]))) BY <1>5, <2>1
  <2>3. Catalog!Named(list[n], Catalog!Exposed(f[n - 1])) \in X OBVIOUS
  <2> HIDE DEF X
  <2> QED BY <1>7, <2>2, <2>3, OneNameMore
<1> DEFINE Wrong == {n \in 0..N : ~Right(n)}
<1> HIDE DEF Right
<1>8. Wrong = {}
  <2> SUFFICES ASSUME Wrong # {} PROVE FALSE
    OBVIOUS
  <2>0. Wrong \subseteq Nat OBVIOUS
  <2>1. PICK n \in Wrong : \A m \in Wrong : n <= m BY <2>0, Least
  <2>2. n \in 1..N BY <1>6, <2>1
  <2>3. n - 1 \in 0..N /\ n - 1 \notin Wrong BY <2>1, <2>2
  <2> QED BY <1>7, <2>1, <2>2, <2>3
<1>9. Right(N) BY <1>8
<1> QED BY <1>4, <1>9 DEF Right

\* Two tools are called by one name only when they are one tool of one server.
LEMMA NamesFind ==
    ASSUME NEW catalog, NEW i \in Nat, NEW j \in Nat, Catalog!NamesTell(catalog),
           i \in DOMAIN catalog, j \in DOMAIN catalog,
           catalog[i].exposed = catalog[j].exposed, i < j
    PROVE  catalog[i] = catalog[j]
<1>1. Catalog!IsSuffixed(catalog[j]) BY DEF Catalog!NamesTell
<1>2. catalog[j].exposed[3] = <<catalog[j].server, catalog[j].tool>>
  BY <1>1 DEF Catalog!IsSuffixed, Catalog!Entry
<1>3. ~Catalog!IsPlain(catalog[i])
  <2> SUFFICES ASSUME Catalog!IsPlain(catalog[i]) PROVE FALSE
    OBVIOUS
  <2>1. catalog[i].exposed[3] = <<>>
    BY DEF Catalog!IsPlain, Catalog!Entry, Catalog!ExposedToolName
  <2>2. <<>> # <<catalog[j].server, catalog[j].tool>> OBVIOUS
  <2> QED BY <1>2, <2>1, <2>2
<1>4. Catalog!IsSuffixed(catalog[i]) BY <1>3 DEF Catalog!NamesTell
<1>5. catalog[i].exposed[3] = <<catalog[i].server, catalog[i].tool>>
  BY <1>4 DEF Catalog!IsSuffixed, Catalog!Entry
<1>6. catalog[i].server = catalog[j].server /\ catalog[i].tool = catalog[j].tool
  BY <1>2, <1>5
<1> QED BY <1>1, <1>4, <1>6 DEF Catalog!IsSuffixed

\* by_exposed has every name, and what it has for the name of a tool is that tool.
LEMMA CatalogHolds == Catalog!IInv => Catalog!EveryToolIsFound
<1> SUFFICES ASSUME Catalog!IInv, NEW i \in DOMAIN v2
             PROVE  Catalog!Find(v2, v2[i].exposed) = v2[i]
  BY DEF Catalog!EveryToolIsFound
<1> DEFINE n == Len(v2)
           name == v2[i].exposed
           Last(k) == v2[k].exposed = name /\ \A j \in k + 1..n : v2[j].exposed # name
           T == {m \in Nat : m < n /\ v2[n - m].exposed = name}
<1>1. n \in Nat /\ DOMAIN v2 = 1..n BY DEF Catalog!IInv
<1> HIDE DEF n
<1>2. i \in Nat /\ n - i \in Nat /\ n - i < n /\ n - (n - i) = i BY <1>1
<1>3. n - i \in T BY <1>2
<1>4. PICK m \in T : \A x \in T : m <= x BY <1>3, Least
<1>5. n - m \in DOMAIN v2 /\ Last(n - m)
  <2>1. m \in Nat /\ m < n /\ v2[n - m].exposed = name BY <1>4
  <2>2. ASSUME NEW j \in n - m + 1..n PROVE v2[j].exposed # name
    <3>1. n - j \in Nat /\ n - j < n /\ ~(m <= n - j) /\ n - (n - j) = j BY <1>1, <2>1, <2>2
    <3>2. n - j \notin T BY <1>4, <3>1
    <3> QED BY <3>1, <3>2
  <2> QED BY <1>1, <2>1, <2>2
<1> DEFINE k == CHOOSE x \in DOMAIN v2 : Last(x)
<1>6. k \in DOMAIN v2 /\ Last(k) BY <1>5
<1>7. Catalog!Find(v2, name) = v2[k] BY DEF Catalog!Find, n
<1> HIDE DEF k, T
<1>8. k \in Nat BY <1>1, <1>6
<1>9. ~(k < i)
  <2> SUFFICES ASSUME k < i PROVE FALSE
    OBVIOUS
  <2>1. i \in k + 1..n BY <1>1, <1>2, <1>8
  <2> QED BY <1>6, <2>1
<1>10. CASE i = k BY <1>7, <1>10
<1>11. CASE i < k
  <2>1. Catalog!NamesTell(v2) BY DEF Catalog!IInv
  <2>2. v2[i] = v2[k] BY <1>2, <1>6, <1>8, <1>11, <2>1, NamesFind
  <2> QED BY <1>7, <2>2
<1> QED BY <1>2, <1>8, <1>9, <1>10, <1>11

LEMMA CatalogInit == Catalog!CatalogInit => Catalog!IInv
BY DEF Catalog!CatalogInit, Catalog!IInv, Catalog!NamesTell

LEMMA CatalogStep == Catalog!IInv /\ [Catalog!CatalogNext]_(Catalog!catalogVars) => Catalog!IInv'
<1> SUFFICES ASSUME Catalog!IInv, [Catalog!CatalogNext]_(Catalog!catalogVars)
             PROVE  Catalog!IInv'
  OBVIOUS
<1>1. CASE v1' = v1 /\ v2' = v2 BY <1>1 DEF Catalog!IInv, Catalog!NamesTell
<1>2. ASSUME NEW s \in Catalog!ServerNames, NEW list \in ToolLists[s],
             Catalog!ServerLists(s, list)
      PROVE  Catalog!IInv'
  <2>1. list \in Seq(DOMAIN Sanitized) BY CatalogAssumption DEF Catalog!ServerNames
  <2>2. v1' = [v1 EXCEPT ![s] = list] /\ v2' = Catalog!Finalize(Catalog!Listed(v1'))
    BY <1>2 DEF Catalog!ServerLists
  <2>3. v1' \in [Catalog!ServerNames -> Seq(DOMAIN Sanitized)]
    BY <2>1, <2>2 DEF Catalog!IInv
  <2>4. Catalog!Listed(v1') \in Seq(Entries) BY <2>3, ListedTools
  <2>5. Len(Catalog!Listed(v1')) \in Nat BY <2>4
  <2>6. PICK X : v2' \in Seq(X) /\ Catalog!NamesTell(v2') BY <2>2, <2>5, FinalizedTells
  <2>7. v2' \in Seq({v2'[i] : i \in DOMAIN v2'})
    <3> DEFINE Y == {v2'[i] : i \in DOMAIN v2'}
    <3>1. Len(v2') \in Nat /\ DOMAIN v2' = 1..Len(v2') /\ v2' = [i \in 1..Len(v2') |-> v2'[i]]
      BY <2>6
    <3>2. \A i \in 1..Len(v2') : v2'[i] \in Y BY <3>1
    <3> HIDE DEF Y
    <3>3. v2' \in [1..Len(v2') -> Y] BY <3>1, <3>2
    <3>4. v2' \in Seq(Y) BY <3>1, <3>3
    <3> QED BY <3>4 DEF Y
  <2>8. Catalog!NamesTell(v2)' BY <2>6 DEF Catalog!NamesTell
  <2> QED BY <2>3, <2>7, <2>8 DEF Catalog!IInv
<1> QED BY <1>1, <1>2
        DEF Catalog!CatalogNext, Catalog!catalogVars, Catalog!Step, Catalog!Call

----------------------------------------------------------------------------
(* Lists without repetition.                                               *)

Listed(s) == Loading!ToSet(s)
Distinct(s) == \A i, j \in DOMAIN s : i < j => s[i] # s[j]
OrderedAs(s, u) == \A i, j \in DOMAIN s : i < j => u[s[i]] <= u[s[j]]

LEMMA ListedAre ==
    ASSUME NEW X, NEW s \in Seq(X)
    PROVE  /\ Len(s) \in Nat /\ DOMAIN s = 1..Len(s)
           /\ \A i \in DOMAIN s : s[i] \in X /\ s[i] \in Listed(s)
           /\ \A x \in Listed(s) : x \in X /\ \E i \in DOMAIN s : s[i] = x
BY DEF Listed, Loading!ToSet

LEMMA AmongKeeps ==
    ASSUME NEW X, NEW T, NEW list \in Seq(X)
    PROVE  /\ Loading!Among(list, T) \in Seq(X)
           /\ Listed(Loading!Among(list, T)) = Listed(list) \cap T
           /\ Distinct(list) => Distinct(Loading!Among(list, T))
           /\ \A u : OrderedAs(list, u) => OrderedAs(Loading!Among(list, T), u)
<1> DEFINE out == Loading!Among(list, T)
<1>1. PICK f : Picks(f, out, list, T, Len(list)) BY AmongPicks
<1>2. out \in Seq(X) BY AmongPicks
<1> HIDE DEF out
<1>3. DOMAIN out = 1..Len(out) /\ DOMAIN list = 1..Len(list) BY <1>2
<1>4. \A k \in DOMAIN out : f[k] \in DOMAIN list /\ out[k] = list[f[k]] /\ list[f[k]] \in T
  BY <1>1, <1>3 DEF Picks
<1>5. \A i \in DOMAIN list : list[i] \in T => \E k \in DOMAIN out : f[k] = i
  BY <1>1, <1>3 DEF Picks
<1>6. \A k, l \in DOMAIN out : k < l => f[k] < f[l] BY <1>1, <1>3 DEF Picks
<1>7. Listed(out) = Listed(list) \cap T
  <2>1. ASSUME NEW x \in Listed(out) PROVE x \in Listed(list) \cap T
    <3>1. PICK k \in DOMAIN out : out[k] = x BY DEF Listed, Loading!ToSet
    <3> QED BY <1>4, <3>1 DEF Listed, Loading!ToSet
  <2>2. ASSUME NEW x \in Listed(list) \cap T PROVE x \in Listed(out)
    <3>1. PICK i \in DOMAIN list : list[i] = x BY DEF Listed, Loading!ToSet
    <3>2. PICK k \in DOMAIN out : f[k] = i BY <1>5, <3>1
    <3> QED BY <1>4, <3>1, <3>2 DEF Listed, Loading!ToSet
  <2> QED BY <2>1, <2>2
<1>8. Distinct(list) => Distinct(out) BY <1>4, <1>6 DEF Distinct
<1>9. \A u : OrderedAs(list, u) => OrderedAs(out, u) BY <1>4, <1>6 DEF OrderedAs
<1> QED BY <1>2, <1>7, <1>8, <1>9 DEF out

LEMMA DistinctIsInjective ==
    ASSUME NEW X, NEW s \in Seq(X), Distinct(s)
    PROVE  \A i, j \in DOMAIN s : s[i] = s[j] => i = j
<1>1. DOMAIN s \subseteq Nat OBVIOUS
<1> QED BY <1>1 DEF Distinct

LEMMA DistinctCounts ==
    ASSUME NEW X, NEW s \in Seq(X), Distinct(s)
    PROVE  Cardinality(Listed(s)) = Len(s)
<1>1. /\ Len(s) \in Nat /\ DOMAIN s = 1..Len(s)
      /\ \A i \in DOMAIN s : s[i] \in Listed(s)
      /\ \A x \in Listed(s) : \E i \in DOMAIN s : s[i] = x
  BY ListedAre
<1>2. s = [i \in 1..Len(s) |-> s[i]] OBVIOUS
<1>3. s \in [1..Len(s) -> Listed(s)] BY <1>1, <1>2
<1>4. \A i, j \in 1..Len(s) : s[i] = s[j] => i = j BY <1>1, DistinctIsInjective
<1>5. s \in Bijection(1..Len(s), Listed(s))
  BY <1>1, <1>3, <1>4 DEF Bijection, Injection, Surjection, IsInjective
<1>6. ExistsBijection(1..Len(s), Listed(s)) BY <1>5 DEF ExistsBijection
<1> QED BY <1>1, <1>6, FS_CountingElements

LEMMA SameLength ==
    ASSUME NEW X, NEW s \in Seq(X), NEW t \in Seq(X), Distinct(s), Distinct(t),
           Listed(s) = Listed(t)
    PROVE  Len(s) = Len(t)
BY DistinctCounts

LEMMA OrderOf ==
    ASSUME NEW T, IsFiniteSet(T), NEW order \in Loading!SetToSeqs(T)
    PROVE  order \in Seq(T) /\ Listed(order) = T /\ Distinct(order)
<1> DEFINE n == Cardinality(T)
<1>1. n \in Nat BY FS_CardinalityType
<1>2. order \in [1..n -> T] /\ \A i, j \in 1..n : i # j => order[i] # order[j]
  <2>0. Loading!Cardinality(T) = n BY DEF Loading!Cardinality, Cardinality
  <2>1. Loading!SetToSeqs(T) = {f \in [1..n -> T] : \A i, j \in 1..n : i # j => f[i] # f[j]}
    BY <2>0 DEF Loading!SetToSeqs
  <2> HIDE DEF n
  <2> QED BY <2>1
<1> HIDE DEF n
<1>3. order \in Seq(T) /\ Len(order) = n /\ DOMAIN order = 1..n BY <1>1, <1>2
<1>4. Distinct(order) BY <1>1, <1>2, <1>3 DEF Distinct
<1>5. Cardinality(Listed(order)) = Cardinality(T) BY <1>3, <1>4, DistinctCounts DEF n
<1>6. Listed(order) \subseteq T BY <1>3, ListedAre
<1>7. Listed(order) = T BY <1>5, <1>6, FS_Subset
<1> QED BY <1>3, <1>4, <1>7

LEMMA BehindOneAnother ==
    ASSUME NEW X, NEW s \in Seq(X), NEW t \in Seq(X)
    PROVE  /\ s \o t \in Seq(X) /\ Listed(s \o t) = Listed(s) \cup Listed(t)
           /\ (Distinct(s) /\ Distinct(t) /\ Listed(s) \cap Listed(t) = {}) => Distinct(s \o t)
           /\ \A u \in [X -> Nat] :
                 (/\ OrderedAs(s, u) /\ OrderedAs(t, u)
                  /\ \A x \in Listed(s), y \in Listed(t) : u[x] <= u[y])
                 => OrderedAs(s \o t, u)
<1> DEFINE st == s \o t
<1>1. /\ st \in Seq(X) /\ Len(s) \in Nat /\ Len(t) \in Nat /\ Len(st) = Len(s) + Len(t)
      /\ DOMAIN st = 1..Len(s) + Len(t)
      /\ \A i \in 1..Len(s) : st[i] = s[i]
      /\ \A i \in 1..Len(t) : st[Len(s) + i] = t[i]
  OBVIOUS
<1> HIDE DEF st
<1>2. \A k \in DOMAIN st : \/ k \in 1..Len(s)
                           \/ k - Len(s) \in 1..Len(t) /\ k = Len(s) + (k - Len(s))
  BY <1>1
<1>3. \A i \in 1..Len(s) : s[i] \in X /\ s[i] \in Listed(s) BY ListedAre
<1>4. \A i \in 1..Len(t) : t[i] \in X /\ t[i] \in Listed(t) BY ListedAre
<1>5. Listed(st) = Listed(s) \cup Listed(t)
  <2>1. ASSUME NEW x \in Listed(st) PROVE x \in Listed(s) \cup Listed(t)
    <3>1. PICK k \in DOMAIN st : st[k] = x BY DEF Listed, Loading!ToSet
    <3>2. CASE k \in 1..Len(s) BY <1>1, <1>3, <3>1, <3>2
    <3>3. CASE k - Len(s) \in 1..Len(t) /\ k = Len(s) + (k - Len(s))
      <4>1. PICK i \in 1..Len(t) : k = Len(s) + i BY <3>3
      <4> QED BY <1>1, <1>4, <3>1, <4>1
    <3> QED BY <1>2, <3>1, <3>2, <3>3
  <2>2. ASSUME NEW x \in Listed(s) PROVE x \in Listed(st)
    <3>1. PICK i \in 1..Len(s) : s[i] = x BY DEF Listed, Loading!ToSet
    <3>2. i \in DOMAIN st BY <1>1
    <3> QED BY <1>1, <3>1, <3>2 DEF Listed, Loading!ToSet
  <2>3. ASSUME NEW x \in Listed(t) PROVE x \in Listed(st)
    <3>1. PICK i \in 1..Len(t) : t[i] = x BY DEF Listed, Loading!ToSet
    <3>2. Len(s) + i \in DOMAIN st BY <1>1
    <3> QED BY <1>1, <3>1, <3>2 DEF Listed, Loading!ToSet
  <2> QED BY <2>1, <2>2, <2>3
<1>6. ASSUME Distinct(s), Distinct(t), Listed(s) \cap Listed(t) = {} PROVE Distinct(st)
  <2> SUFFICES ASSUME NEW i \in DOMAIN st, NEW j \in DOMAIN st, i < j PROVE st[i] # st[j]
    BY DEF Distinct
  <2>1. CASE j \in 1..Len(s)
    <3>1. i \in 1..Len(s) BY <1>1, <2>1
    <3>2. s[i] # s[j] BY <1>6, <2>1, <3>1 DEF Distinct
    <3> QED BY <1>1, <2>1, <3>1, <3>2
  <2>2. CASE j - Len(s) \in 1..Len(t) /\ j = Len(s) + (j - Len(s))
    <3>1. PICK l \in 1..Len(t) : j = Len(s) + l BY <2>2
    <3>2. CASE i \in 1..Len(s) BY <1>1, <1>3, <1>4, <1>6, <3>1, <3>2
    <3>3. CASE i - Len(s) \in 1..Len(t) /\ i = Len(s) + (i - Len(s))
      <4>1. PICK k \in 1..Len(t) : i = Len(s) + k BY <3>3
      <4>2. k < l BY <1>1, <3>1, <4>1
      <4>3. t[k] # t[l] BY <1>6, <4>2 DEF Distinct
      <4> QED BY <1>1, <3>1, <4>1, <4>3
    <3> QED BY <1>2, <3>2, <3>3
  <2> QED BY <1>2, <2>1, <2>2
<1>7. ASSUME NEW u \in [X -> Nat], OrderedAs(s, u), OrderedAs(t, u),
             \A x \in Listed(s), y \in Listed(t) : u[x] <= u[y]
      PROVE  OrderedAs(st, u)
  <2> SUFFICES ASSUME NEW i \in DOMAIN st, NEW j \in DOMAIN st, i < j
               PROVE  u[st[i]] <= u[st[j]]
    BY DEF OrderedAs
  <2>1. CASE j \in 1..Len(s)
    <3>1. i \in 1..Len(s) BY <1>1, <2>1
    <3>2. u[s[i]] <= u[s[j]] BY <1>7, <2>1, <3>1 DEF OrderedAs
    <3>3. st[i] = s[i] /\ st[j] = s[j] BY <1>1, <2>1, <3>1
    <3> QED BY <3>2, <3>3
  <2>2. CASE j - Len(s) \in 1..Len(t) /\ j = Len(s) + (j - Len(s))
    <3>1. PICK l \in 1..Len(t) : j = Len(s) + l BY <2>2
    <3>l. st[j] = t[l] BY <1>1, <3>1
    <3>2. CASE i \in 1..Len(s)
      <4>1. st[i] = s[i] BY <1>1, <3>2
      <4>2. u[s[i]] <= u[t[l]] BY <1>3, <1>4, <1>7, <3>2
      <4> QED BY <3>l, <4>1, <4>2
    <3>3. CASE i - Len(s) \in 1..Len(t) /\ i = Len(s) + (i - Len(s))
      <4>1. PICK k \in 1..Len(t) : i = Len(s) + k BY <3>3
      <4>2. k < l BY <1>1, <3>1, <4>1
      <4>3. k \in DOMAIN t /\ l \in DOMAIN t OBVIOUS
      <4>5. u[t[k]] <= u[t[l]] BY <1>7, <4>2, <4>3 DEF OrderedAs
      <4>4. st[i] = t[k] BY <1>1, <4>1
      <4> QED BY <3>l, <4>4, <4>5
    <3> QED BY <1>2, <3>2, <3>3
  <2> QED BY <1>2, <2>1, <2>2
<1> QED BY <1>1, <1>5, <1>6, <1>7 DEF st

\* The last `left` of a list.
LEMMA LastOfList ==
    ASSUME NEW X, NEW s \in Seq(X), NEW left \in 0..Len(s)
    PROVE  LET out == SubSeq(s, Len(s) - left + 1, Len(s))
           IN /\ out \in Seq(X) /\ Len(out) = left
              /\ \A k \in 1..left : Len(s) - left + k \in 1..Len(s)
                                    /\ out[k] = s[Len(s) - left + k]
              /\ Distinct(s) => Distinct(out)
              /\ \A u : OrderedAs(s, u) => OrderedAs(out, u)
<1> DEFINE out == SubSeq(s, Len(s) - left + 1, Len(s))
<1>1. /\ out \in Seq(X) /\ Len(out) = left /\ Len(s) \in Nat
      /\ DOMAIN out = 1..left /\ DOMAIN s = 1..Len(s)
  OBVIOUS
<1>2. \A k \in 1..left : Len(s) - left + k \in 1..Len(s) OBVIOUS
<1>3. \A k \in 1..left : out[k] = s[Len(s) - left + k] OBVIOUS
<1> HIDE DEF out
<1>4. \A k, l \in 1..left : k < l => Len(s) - left + k < Len(s) - left + l BY <1>1
<1>5. ASSUME Distinct(s) PROVE Distinct(out)
  <2> SUFFICES ASSUME NEW k \in 1..left, NEW l \in 1..left, k < l PROVE out[k] # out[l]
    BY <1>1 DEF Distinct
  <2>1. PICK i \in 1..Len(s) : i = Len(s) - left + k BY <1>2
  <2>2. PICK j \in 1..Len(s) : j = Len(s) - left + l BY <1>2
  <2>3. i < j BY <1>1, <2>1, <2>2
  <2>4. s[i] # s[j] BY <1>1, <1>5, <2>3 DEF Distinct
  <2> QED BY <1>3, <2>1, <2>2, <2>4
<1>6. ASSUME NEW u, OrderedAs(s, u) PROVE OrderedAs(out, u)
  <2> SUFFICES ASSUME NEW k \in 1..left, NEW l \in 1..left, k < l
               PROVE  u[out[k]] <= u[out[l]]
    BY <1>1 DEF OrderedAs
  <2>1. PICK i \in 1..Len(s) : i = Len(s) - left + k BY <1>2
  <2>2. PICK j \in 1..Len(s) : j = Len(s) - left + l BY <1>2
  <2>3. i < j BY <1>1, <2>1, <2>2
  <2>4. u[s[i]] <= u[s[j]] BY <1>1, <1>6, <2>3 DEF OrderedAs
  <2>5. out[k] = s[i] /\ out[l] = s[j] BY <1>3, <2>1, <2>2
  <2> QED BY <2>4, <2>5
<1> QED BY <1>1, <1>2, <1>3, <1>5, <1>6 DEF out

----------------------------------------------------------------------------
(* The tools of a turn.                                                    *)

\* Both lists name the same tools, once each, and v4 by their use.
Lists ==
    /\ v3 \in Seq(Tools) /\ v4 \in Seq(Tools) /\ Distinct(v3) /\ Distinct(v4)
    /\ Listed(v3) = Listed(v4)
    /\ v10 \in Nat /\ v14 \in [Tools -> 0..v10] /\ OrderedAs(v4, v14)

LEMMA LoadingLists ==
    ASSUME Loading!IInv
    PROVE  Lists
BY DEF Loading!IInv, Loading!TypeOK, Loading!LoadedInv, Lists, Listed, Distinct, OrderedAs

ListsAgree ==
    /\ Loading!LoadedInv
    /\ Loading!ToSet(v3) = Loading!ToSet(v4) /\ Len(v3) = Len(v4) /\ v4 \in Seq(Tools)

LEMMA ListsLoading == Lists => ListsAgree
<1> SUFFICES ASSUME Lists PROVE ListsAgree
  OBVIOUS
<1>1. Len(v3) = Len(v4) BY SameLength DEF Lists
<1> QED BY <1>1 DEF ListsAgree, Loading!LoadedInv, Lists, Listed, Distinct, OrderedAs

LEMMA ListsLoadingNext == Lists' => ListsAgree'
BY ListsLoading, PTL

\* A tool that is used goes behind all others.
LEMMA UsedGoLast ==
    ASSUME NEW T \in SUBSET Tools, NEW out \in Seq(Tools), NEW order \in Seq(Tools),
           Lists, Loading!Used(T), v10' = v10,
           Listed(out) \cap T = {}, Listed(order) \subseteq T,
           OrderedAs(out, v14)
    PROVE  v14' \in [Tools -> 0..v10'] /\ OrderedAs(out \o order, v14')
<1>1. v10 \in Nat /\ v14 \in [Tools -> 0..v10] BY DEF Lists
<1>2. v14' = [t \in Tools |-> IF t \in T THEN v10 ELSE v14[t]] BY DEF Loading!Used
<1>3. v14' \in [Tools -> 0..v10] BY <1>1, <1>2
<1>4. \A t \in T : v14'[t] = v10 BY <1>2
<1>5. \A t \in Tools : v14'[t] \in 0..v10 BY <1>3
<1>6. OrderedAs(out, v14')
  <2> SUFFICES ASSUME NEW i \in DOMAIN out, NEW j \in DOMAIN out, i < j
               PROVE  v14'[out[i]] <= v14'[out[j]]
    BY DEF OrderedAs
  <2>1. \A k \in DOMAIN out : out[k] \in Tools /\ out[k] \notin T BY ListedAre
  <2>2. \A k \in DOMAIN out : v14'[out[k]] = v14[out[k]] BY <1>2, <2>1
  <2>3. v14[out[i]] <= v14[out[j]] BY DEF OrderedAs
  <2> QED BY <2>2, <2>3
<1>7. OrderedAs(order, v14')
  <2>1. \A k \in DOMAIN order : order[k] \in T BY ListedAre
  <2>2. \A k \in DOMAIN order : v14'[order[k]] = v10 BY <1>4, <2>1
  <2> QED BY <1>1, <2>2 DEF OrderedAs
<1>8. \A x \in Listed(out), y \in Listed(order) : v14'[x] <= v14'[y]
  <2> SUFFICES ASSUME NEW x \in Listed(out), NEW y \in Listed(order)
               PROVE  v14'[x] <= v14'[y]
    OBVIOUS
  <2>1. x \in Tools BY ListedAre
  <2>2. PICK u \in 0..v10 : u = v14'[x] BY <1>5, <2>1
  <2>3. v14'[y] = v10 BY <1>4
  <2> QED BY <1>1, <2>2, <2>3
<1>9. v14' \in [Tools -> Nat]
  <2>1. \A t \in Tools : v14'[t] \in Nat BY <1>1, <1>5
  <2>2. v14' = [t \in Tools |-> v14'[t]] BY <1>3
  <2> QED BY <2>1, <2>2
<1>10. OrderedAs(out \o order, v14') BY <1>6, <1>7, <1>8, <1>9, BehindOneAnother
<1> QED BY <1>1, <1>3, <1>10

LEMMA ListsLoad ==
    ASSUME Lists, NEW T \in SUBSET Tools, Loading!Load(T), Loading!Used(T), v10' = v10
    PROVE  Lists' /\ Listed(v3') = Listed(v3) \cup T
<1>1. IsFiniteSet(T) BY TurnsAssumption, FS_Subset
<1>2. PICK order \in Loading!SetToSeqs(T) :
         /\ v3' = v3 \o Loading!Among(order, T \ Loading!ToSet(v3))
         /\ v4' = Loading!Among(v4, Tools \ T) \o order
  BY DEF Loading!Load
<1>3. order \in Seq(T) /\ Listed(order) = T /\ Distinct(order) BY <1>1, OrderOf
<1> DEFINE fresh == Loading!Among(order, T \ Loading!ToSet(v3))
           rest == Loading!Among(v4, Tools \ T)
<1>4. order \in Seq(Tools)
  <2>1. \A i \in 1..Len(order) : order[i] \in T BY <1>3
  <2>2. \A i \in 1..Len(order) : order[i] \in Tools BY <2>1
  <2>3. order = [i \in 1..Len(order) |-> order[i]] /\ Len(order) \in Nat BY <1>3
  <2>4. order \in [1..Len(order) -> Tools] BY <2>2, <2>3
  <2> QED BY <2>3, <2>4
<1>5. fresh \in Seq(Tools) /\ Listed(fresh) = T \ Listed(v3) /\ Distinct(fresh)
  <2>1. Listed(order) \cap (T \ Loading!ToSet(v3)) = T \ Listed(v3) BY <1>3 DEF Listed
  <2> QED BY <1>3, <1>4, <2>1, AmongKeeps
<1>6. /\ v3 \in Seq(Tools) /\ v4 \in Seq(Tools) /\ Distinct(v3) /\ Distinct(v4)
      /\ Listed(v3) = Listed(v4) /\ OrderedAs(v4, v14)
  BY DEF Lists
<1>7. /\ rest \in Seq(Tools) /\ Listed(rest) = Listed(v4) \cap (Tools \ T)
      /\ Distinct(rest) /\ OrderedAs(rest, v14)
  BY <1>6, AmongKeeps
<1>8. Listed(rest) \cap T = {} /\ Listed(v4) \subseteq Tools BY <1>6, <1>7, ListedAre
<1> HIDE DEF fresh, rest
<1>9. v3' = v3 \o fresh /\ v4' = rest \o order BY <1>2 DEF fresh, rest
<1>10. v3' \in Seq(Tools) /\ Listed(v3') = Listed(v3) \cup (T \ Listed(v3)) /\ Distinct(v3')
  <2>1. Listed(v3) \cap Listed(fresh) = {} BY <1>5
  <2> QED BY <1>5, <1>6, <1>9, <2>1, BehindOneAnother
<1>11. v4' \in Seq(Tools) /\ Listed(v4') = Listed(rest) \cup T /\ Distinct(v4')
  BY <1>3, <1>4, <1>7, <1>8, <1>9, BehindOneAnother
<1>12. Listed(v3') = Listed(v3) \cup T /\ Listed(v3') = Listed(v4')
  BY <1>6, <1>7, <1>8, <1>10, <1>11
<1>13. v14' \in [Tools -> 0..v10'] /\ OrderedAs(v4', v14')
  BY <1>3, <1>4, <1>7, <1>8, <1>9, UsedGoLast
<1>14. v10' \in Nat BY DEF Lists
<1>15. Listed(v3)' = Listed(v3') /\ Listed(v4)' = Listed(v4') BY DEF Listed, Loading!ToSet
<1> QED BY <1>10, <1>11, <1>12, <1>13, <1>14, <1>15 DEF Lists, Distinct, OrderedAs

LEMMA ListsTouch ==
    ASSUME Lists, NEW t \in Tools, Loading!Touch(t), Loading!Used({t}), v10' = v10
    PROVE  Lists' /\ Listed(v3') = Listed(v3)
<1>1. /\ v3 \in Seq(Tools) /\ v4 \in Seq(Tools) /\ Distinct(v3) /\ Distinct(v4)
      /\ Listed(v3) = Listed(v4) /\ OrderedAs(v4, v14) /\ v10' \in Nat
  BY DEF Lists
<1>2. v3' = v3 BY DEF Loading!Touch
<1>3. CASE t \in Listed(v3)
  <2> DEFINE rest == Loading!Among(v4, Tools \ {t})
  <2>1. v4' = Append(rest, t) BY <1>3 DEF Loading!Touch, Listed
  <2>2. /\ rest \in Seq(Tools) /\ Listed(rest) = Listed(v4) \cap (Tools \ {t})
        /\ Distinct(rest) /\ OrderedAs(rest, v14)
    BY <1>1, AmongKeeps
  <2> HIDE DEF rest
  <2> DEFINE last == <<t>>
  <2>3. last \in Seq(Tools) /\ Listed(last) = {t} /\ Distinct(last)
    BY DEF Listed, Loading!ToSet, Distinct
  <2>4. v4' = rest \o last BY <2>1, <2>2
  <2> HIDE DEF last
  <2>a. Listed(rest) \cap Listed(last) = {} BY <2>2, <2>3
  <2>5. v4' \in Seq(Tools) /\ Listed(v4') = Listed(rest) \cup {t} /\ Distinct(v4')
    BY <2>2, <2>3, <2>4, <2>a, BehindOneAnother
  <2>6. Listed(v4') = Listed(v4) BY <1>1, <1>3, <2>2, <2>5, ListedAre
  <2>7. v14' \in [Tools -> 0..v10'] /\ OrderedAs(v4', v14')
    BY <2>2, <2>3, <2>4, UsedGoLast
  <2>8. Listed(v3)' = Listed(v3') /\ Listed(v4)' = Listed(v4') BY DEF Listed, Loading!ToSet
  <2> QED BY <1>1, <1>2, <2>5, <2>6, <2>7, <2>8 DEF Lists, Distinct, OrderedAs
<1>4. CASE t \notin Listed(v3)
  <2>1. v4' = v4 BY <1>4 DEF Loading!Touch, Listed
  <2>2. <<>> \in Seq(Tools) /\ Listed(<<>>) = {} BY DEF Listed, Loading!ToSet
  <2>3. Listed(v4) \cap {t} = {} BY <1>1, <1>4
  <2>4. v4 \o <<>> = v4 BY <1>1
  <2>5. v14' \in [Tools -> 0..v10'] /\ OrderedAs(v4 \o <<>>, v14')
    BY <1>1, <2>2, <2>3, UsedGoLast
  <2>6. Listed(v3)' = Listed(v3') /\ Listed(v4)' = Listed(v4') BY DEF Listed, Loading!ToSet
  <2> QED BY <1>1, <1>2, <2>1, <2>4, <2>5, <2>6 DEF Lists, Distinct, OrderedAs
<1> QED BY <1>3, <1>4

\* Of the tools still in the catalog, those that go were used before those that stay.
LEMMA ListsEvict ==
    ASSUME Lists, NEW c, Loading!Evict(c), v10' = v10 + 1, v14' = v14
    PROVE  /\ Lists' /\ Listed(v3') \subseteq Listed(v3)
           /\ \A t \in (Listed(v3) \ Listed(v3')) \cap Loading!InCatalog(c), u \in Listed(v3') :
                 v14[t] <= v14[u]
<1> DEFINE known == Loading!Among(v4, Loading!InCatalog(c))
<1>1. /\ v3 \in Seq(Tools) /\ v4 \in Seq(Tools) /\ Distinct(v3) /\ Distinct(v4)
      /\ Listed(v3) = Listed(v4) /\ OrderedAs(v4, v14) /\ v10 \in Nat
      /\ v14 \in [Tools -> 0..v10]
  BY DEF Lists
<1>2. /\ known \in Seq(Tools) /\ Listed(known) = Listed(v4) \cap Loading!InCatalog(c)
      /\ Distinct(known) /\ OrderedAs(known, v14)
  BY <1>1, AmongKeeps
<1>3. PICK left \in 0..Len(known) :
         /\ v4' = SubSeq(known, Len(known) - left + 1, Len(known))
         /\ v3' = Loading!Among(v3, Loading!ToSet(v4'))
  BY DEF Loading!Evict
<1> HIDE DEF known
<1>4. /\ v4' \in Seq(Tools) /\ Len(v4') = left /\ Distinct(v4') /\ OrderedAs(v4', v14)
      /\ \A k \in 1..left : Len(known) - left + k \in 1..Len(known)
                            /\ v4'[k] = known[Len(known) - left + k]
  BY <1>2, <1>3, LastOfList
<1>5. v3' \in Seq(Tools) /\ Listed(v3') = Listed(v3) \cap Listed(v4') /\ Distinct(v3')
  BY <1>1, <1>3, AmongKeeps DEF Listed
<1>6. Listed(v4') \subseteq Listed(known)
  <2>1. \A x \in Listed(v4') : \E k \in 1..left : v4'[k] = x BY <1>4, ListedAre
  <2>2. \A i \in 1..Len(known) : known[i] \in Listed(known) BY <1>2, ListedAre
  <2>3. \A k \in 1..left : v4'[k] \in Listed(known) BY <1>4, <2>2
  <2> QED BY <2>1, <2>3
<1>7. Listed(v3') = Listed(v4') BY <1>1, <1>2, <1>5, <1>6
<1>8. v14' \in [Tools -> 0..v10']
  <2>1. \A t \in Tools : v14'[t] \in 0..v10' BY <1>1
  <2>2. v14' = [t \in Tools |-> v14'[t]] BY <1>1
  <2> QED BY <2>1, <2>2
<1>9. Lists'
  <2>1. Listed(v3)' = Listed(v3') /\ Listed(v4)' = Listed(v4') BY DEF Listed, Loading!ToSet
  <2>2. v10' \in Nat BY <1>1
  <2> QED BY <1>4, <1>5, <1>7, <1>8, <2>1, <2>2 DEF Lists, Distinct, OrderedAs
<1>10. ASSUME NEW t \in (Listed(v3) \ Listed(v3')) \cap Loading!InCatalog(c),
              NEW u \in Listed(v3')
       PROVE  v14[t] <= v14[u]
  <2>1. t \in Listed(known) /\ t \notin Listed(v4') BY <1>1, <1>2, <1>7
  <2>2. PICK i \in 1..Len(known) : known[i] = t BY <1>2, <2>1, ListedAre
  <2>3. PICK k \in 1..left : v4'[k] = u BY <1>4, <1>7, ListedAre
  <2>4. PICK j \in 1..Len(known) : j = Len(known) - left + k /\ known[j] = u BY <1>4, <2>3
  <2>5. i <= Len(known) - left
    <3> SUFFICES ASSUME ~(i <= Len(known) - left) PROVE FALSE
      OBVIOUS
    <3>0. Len(known) \in Nat BY <1>2
    <3>1. PICK l \in 1..left : i = Len(known) - left + l
      <4>1. i - (Len(known) - left) \in 1..left BY <3>0
      <4>2. i = Len(known) - left + (i - (Len(known) - left)) BY <3>0
      <4> QED BY <4>1, <4>2
    <3>2. v4'[l] = t BY <1>4, <2>2, <3>1
    <3>3. v4'[l] \in Listed(v4') BY <1>4, ListedAre
    <3> QED BY <2>1, <3>2, <3>3
  <2>6. i < j /\ i \in DOMAIN known /\ j \in DOMAIN known BY <1>2, <2>4, <2>5
  <2> QED BY <1>2, <2>2, <2>4, <2>6 DEF OrderedAs
<1> QED BY <1>5, <1>9, <1>10

LEMMA LoadingInit == ASSUME Loading!Init PROVE Loading!IInv
<1> USE DEF Loading!Init
<1>1. v3 = <<>> /\ v4 = <<>> /\ <<>> \in Seq(Tools) OBVIOUS
<1>2. Loading!ToSet(v3) = {} /\ Loading!ToSet(v4) = {} BY DEF Loading!ToSet
<1>3. v14 \in [Tools -> 0..v10] /\ v10 \in Nat OBVIOUS
<1>4. Loading!LoadedInv BY <1>1, <1>3 DEF Loading!LoadedInv
<1>5. Loading!TypeOK BY <1>1, <1>2, TurnsAssumption DEF Loading!TypeOK
<1>6. Loading!SearchInv /\ Loading!PromiseInv
  BY DEF Loading!SearchInv, Loading!PromiseInv, Loading!PromiseKept
<1> QED BY <1>4, <1>5, <1>6 DEF Loading!IInv

\* What the steps do apart from the lists: the counts, and what is promised.
LoadingRest ==
    /\ v11 \subseteq Tools /\ v8 \in {"idle", "step", "model"} /\ v9 \in 0..MaxSteps
    /\ Loading!SearchInv /\ Loading!PromiseInv

LEMMA LoadingIs == Loading!IInv <=> Lists /\ LoadingRest
<1>1. ASSUME Loading!IInv PROVE Lists /\ LoadingRest
  BY <1>1, LoadingLists DEF Loading!IInv, Loading!TypeOK, LoadingRest
<1>2. ASSUME Lists, LoadingRest PROVE Loading!IInv
  <2>1. ListsAgree BY <1>2, ListsLoading
  <2>2. v7 <= MaxSearches + MaxSteps
    <3>1. v7 \in 0..v9 /\ v9 \in 0..MaxSteps /\ MaxSearches \in Nat /\ MaxSteps \in Nat
      BY <1>2, TurnsAssumption DEF LoadingRest, Loading!SearchInv
    <3> QED BY <3>1
  <2> QED BY <1>2, <2>1, <2>2 DEF LoadingRest, ListsAgree, Loading!IInv, Loading!TypeOK
<1> QED BY <1>1, <1>2

LEMMA LoadingIsNext == Lists' /\ LoadingRest' => Loading!IInv'
BY LoadingIs, PTL

LEMMA ListsStay == Lists /\ UNCHANGED <<v3, v4, v10, v14>> => Lists'
BY DEF Lists, Listed, Loading!ToSet, Distinct, OrderedAs

\* What a call loads is promised, and known to the catalog.
LEMMA LoadingCalls ==
    ASSUME Lists, LoadingRest, Loading!ToolSearch \/ Loading!CallTool
    PROVE  /\ Lists' /\ v13' \subseteq Loading!InCatalog(v2') \cap Listed(v3')
           /\ v7' \in 0..v9' /\ v8' = "step" /\ UNCHANGED <<v5, v6, v9, v11>>
<1>0. v7 \in 0..v9 /\ v7 < v9 /\ v9 \in Nat
  BY DEF Loading!ToolSearch, Loading!CallTool, LoadingRest, Loading!SearchInv
<1>1. CASE Loading!ToolSearch
  <2>1. /\ UNCHANGED <<v1, v5, v6, v9, v10, v11>> /\ v8' = "step" /\ v7' = v7 + 1
    BY <1>1 DEF Loading!ToolSearch
  <2>2. CASE v7 >= MaxSearches
    <3>1. UNCHANGED <<v2, v3, v4, v14>> /\ v13' = {}
      BY <1>1, <2>2 DEF Loading!ToolSearch, Loading!loadedVars
    <3> QED BY <1>0, <2>1, <3>1, ListsStay
  <2>3. CASE ~(v7 >= MaxSearches)
    <3>1. PICK T \in Loading!Loadable(v2') : Loading!Load(T) /\ Loading!Used(T) /\ v13' = T
      BY <1>1, <2>3 DEF Loading!ToolSearch
    <3>2. T \subseteq Loading!InCatalog(v2') /\ T \in SUBSET Tools
      BY DEF Loading!Loadable, Loading!InCatalog
    <3>3. Lists' /\ Listed(v3') = Listed(v3) \cup T BY <2>1, <3>1, <3>2, ListsLoad
    <3> QED BY <1>0, <2>1, <3>1, <3>2, <3>3
  <2> QED BY <2>2, <2>3
<1>2. CASE Loading!CallTool
  <2>1. /\ UNCHANGED <<v1, v2, v5, v6, v7, v9, v10, v11>> /\ v8' = "step"
    BY <1>2 DEF Loading!CallTool, Loading!turnVars
  <2>2. ASSUME NEW t \in Tools, Loading!RunMcpTool(t)
        PROVE  Lists' /\ v13' \subseteq Loading!InCatalog(v2') \cap Listed(v3')
    <3>1. Loading!Used({t}) BY <2>2 DEF Loading!RunMcpTool
    <3>2. CASE t \in Loading!InCatalog(v2) /\ Loading!Load({t}) /\ v13' = {t}
      <4>1. Lists' /\ Listed(v3') = Listed(v3) \cup {t} BY <2>1, <3>1, <3>2, ListsLoad
      <4> QED BY <2>1, <3>2, <4>1
    <3>3. CASE Loading!Touch(t) /\ v13' = {}
      <4>1. Lists' BY <2>1, <3>1, <3>3, ListsTouch
      <4> QED BY <3>3, <4>1
    <3> QED BY <2>2, <3>2, <3>3 DEF Loading!RunMcpTool
  <2>3. ASSUME v13' = {}, UNCHANGED <<v3, v4, v14>>
        PROVE  Lists' /\ v13' \subseteq Loading!InCatalog(v2') \cap Listed(v3')
    BY <2>1, <2>3, ListsStay
  <2>4. \/ \E t \in Tools : Loading!RunMcpTool(t)
        \/ v13' = {} /\ UNCHANGED <<v3, v4, v14>>
    BY <1>2 DEF Loading!CallTool, Loading!loadedVars
  <2> QED BY <1>0, <2>1, <2>2, <2>3, <2>4
<1> QED BY <1>1, <1>2

LEMMA LoadingStep ==
    ASSUME Loading!IInv, [Loading!Next]_(Loading!vars)
    PROVE  Loading!IInv'
<1>0. Lists /\ LoadingRest BY LoadingIs
<1>a. /\ v7 \in 0..v9 /\ (v8 = "model" => v7 < v9) /\ v9 \in 0..MaxSteps /\ MaxSteps \in Nat
      /\ v11 \subseteq Tools /\ v8 \in {"idle", "step", "model"}
      /\ v8 # "idle" => v13 \subseteq Loading!InCatalog(v2) \cap Listed(v3)
      /\ v8 = "model" /\ v5 /\ ~v6 => v13 \subseteq v11
  BY <1>0, TurnsAssumption
     DEF LoadingRest, Loading!SearchInv, Loading!PromiseInv, Loading!PromiseKept, Listed
<1> SUFFICES Lists' /\ LoadingRest'
  BY LoadingIsNext
<1>b. ASSUME v11' \subseteq Tools, v8' \in {"idle", "step", "model"}, v9' \in 0..MaxSteps,
             v7' \in 0..v9', v8' = "model" => v7' < v9',
             v8' # "idle" => v13' \subseteq Loading!InCatalog(v2') \cap Listed(v3'),
             v8' = "model" /\ v5' /\ ~v6' => v13' \subseteq v11'
      PROVE  LoadingRest'
  <2>1. Loading!InCatalog(v2)' = Loading!InCatalog(v2') BY DEF Loading!InCatalog
  <2>2. Loading!ToSet(v3)' = Listed(v3') BY DEF Listed, Loading!ToSet
  <2> QED BY <1>b, <2>1, <2>2
          DEF LoadingRest, Loading!SearchInv, Loading!PromiseInv, Loading!PromiseKept
<1>1. CASE UNCHANGED Loading!vars
  <2>1. UNCHANGED <<v2, v3, v4, v5, v6, v7, v8, v9, v10, v11, v13, v14>>
    BY <1>1 DEF Loading!vars
  <2> QED BY <1>0, <1>a, <1>b, <2>1, ListsStay
<1>2. CASE Loading!RegistryChanges
  <2>1. UNCHANGED <<v2, v3, v4, v5, v6, v7, v8, v9, v10, v11, v13, v14>>
    BY <1>2 DEF Loading!RegistryChanges, Loading!loadedVars, Loading!turnVars
  <2> QED BY <1>0, <1>a, <1>b, <2>1, ListsStay
<1>3. CASE Loading!BeginTurn
  <2>1. /\ v9' = 0 /\ v8' = "step" /\ v7' = 0 /\ v13' = {} /\ v10' = v10 + 1
        /\ Loading!Evict(v1) /\ UNCHANGED <<v11, v14>>
    BY <1>3 DEF Loading!BeginTurn
  <2>2. Lists' BY <1>0, <2>1, ListsEvict
  <2> QED BY <1>a, <1>b, <2>1, <2>2
<1>4. CASE Loading!Request
  <2>1. /\ v8 = "step" /\ v9 < MaxSteps /\ v9' = v9 + 1 /\ v8' = "model"
        /\ v11' = Loading!OfferedTools
        /\ UNCHANGED <<v2, v3, v4, v14, v5, v6, v7, v10, v13>>
    BY <1>4 DEF Loading!Request, Loading!loadedVars, Loading!turnVars
  <2>2. v11' \subseteq Tools
    BY <2>1 DEF Loading!OfferedTools, Loading!InCatalog, Loading!StepCatalog
  <2>3. ASSUME v5, ~v6 PROVE v13' \subseteq v11'
    <3>1. v11' = Loading!InCatalog(v2) \cap (AlwaysLoad \cup Listed(v3))
      BY <2>1, <2>3 DEF Loading!OfferedTools, Loading!StepCatalog, Listed
    <3> QED BY <1>a, <2>1, <3>1
  <2>4. v9' \in 0..MaxSteps /\ v7' \in 0..v9' /\ v7' < v9' BY <1>a, <2>1
  <2>5. Lists' BY <1>0, <2>1, ListsStay
  <2>6. v13' \subseteq Loading!InCatalog(v2') \cap Listed(v3') BY <1>a, <2>1
  <2> QED BY <1>b, <2>1, <2>2, <2>3, <2>4, <2>5, <2>6
<1>5. CASE Loading!SchemasRejected
  <2>1. /\ v6' = TRUE /\ v11' = {}
        /\ UNCHANGED <<v2, v3, v4, v14, v5, v7, v8, v9, v10, v13>>
    BY <1>5 DEF Loading!SchemasRejected, Loading!loadedVars
  <2> QED BY <1>0, <1>a, <1>b, <2>1, ListsStay
<1>6. CASE Loading!EndTurn
  <2>1. v8' = "idle" /\ UNCHANGED <<v3, v4, v14, v7, v9, v10, v11>>
    BY <1>6 DEF Loading!EndTurn, Loading!loadedVars, Loading!turnVars
  <2> QED BY <1>0, <1>a, <1>b, <2>1, ListsStay
<1>7. CASE Loading!ToolSearch \/ Loading!CallTool
  <2>1. /\ Lists' /\ v13' \subseteq Loading!InCatalog(v2') \cap Listed(v3')
        /\ v7' \in 0..v9' /\ v8' = "step" /\ UNCHANGED <<v5, v6, v9, v11>>
    BY <1>0, <1>7, LoadingCalls
  <2> QED BY <1>a, <1>b, <2>1
<1>8. CASE Loading!Reset
  <2>1. /\ v8 = "idle" /\ v3' = <<>> /\ v4' = <<>>
        /\ UNCHANGED <<v14, v10, v7, v8, v9, v11>>
    BY <1>8 DEF Loading!Reset, Loading!turnVars
  <2>2. Lists'
    <3>1. v3' \in Seq(Tools) /\ v4' \in Seq(Tools) BY <2>1
    <3>2. v10' \in Nat /\ v14' \in [Tools -> 0..v10'] BY <1>0, <2>1 DEF Lists
    <3> QED BY <2>1, <3>1, <3>2 DEF Lists, Listed, Loading!ToSet, Distinct, OrderedAs
  <2> QED BY <1>a, <1>b, <2>1, <2>2
<1> QED BY <1>1, <1>2, <1>3, <1>4, <1>5, <1>6, <1>7, <1>8 DEF Loading!Next

\* A turn that begins takes away only what was used before all that is kept.
LEMMA LoadingOldest ==
    ASSUME Loading!IInv
    PROVE  Loading!OldestGoFirst
<1> SUFFICES ASSUME Loading!BeginTurn PROVE Loading!OldestGoFirst
  BY DEF Loading!OldestGoFirst
<1>1. v10' = v10 + 1 /\ Loading!Evict(v1) /\ v14' = v14 BY DEF Loading!BeginTurn
<1>2. \A t \in (Listed(v3) \ Listed(v3')) \cap Loading!InCatalog(v1), u \in Listed(v3') :
         v14[t] <= v14[u]
  BY <1>1, LoadingIs, ListsEvict
<1> QED BY <1>2 DEF Loading!OldestGoFirst, Listed

----------------------------------------------------------------------------
(* The transcript of a turn: what is taken out of it.                      *)

LEMMA RemoveOne ==
    ASSUME NEW X, NEW s \in Seq(X), NEW i \in 1..Len(s)
    PROVE  /\ Turn!Erase(s, i) \in Seq(X) /\ Len(Turn!Erase(s, i)) = Len(s) - 1
           /\ \A p \in 1..i - 1 : Turn!Erase(s, i)[p] = s[p]
           /\ \A p \in i..Len(s) - 1 : Turn!Erase(s, i)[p] = s[p + 1]
<1> DEFINE a == SubSeq(s, 1, i - 1)
           b == SubSeq(s, i + 1, Len(s))
<1>1. /\ a \in Seq(X) /\ Len(a) = i - 1 /\ \A p \in 1..i - 1 : a[p] = s[p]
  OBVIOUS
<1>2. /\ b \in Seq(X) /\ Len(b) = Len(s) - i /\ \A p \in 1..Len(s) - i : b[p] = s[i + p]
  OBVIOUS
<1> HIDE DEF a, b
<1>3. /\ a \o b \in Seq(X) /\ Len(a \o b) = Len(s) - 1
      /\ \A p \in 1..i - 1 : (a \o b)[p] = a[p]
      /\ \A p \in i..Len(s) - 1 : (a \o b)[p] = b[p - (i - 1)]
  <2>0. Len(s) \in Nat OBVIOUS
  <2>1. a \o b \in Seq(X) /\ Len(a \o b) = Len(a) + Len(b)
    BY <1>1, <1>2, ConcatProperties
  <2>2. \A p \in 1..Len(a) + Len(b) :
           (a \o b)[p] = IF p <= Len(a) THEN a[p] ELSE b[p - Len(a)]
    BY <1>1, <1>2, ConcatProperties
  <2>3. \A p \in 1..i - 1 : p \in 1..Len(a) + Len(b) /\ p <= Len(a) BY <1>1, <1>2, <2>0
  <2>4. \A p \in i..Len(s) - 1 : p \in 1..Len(a) + Len(b) /\ ~(p <= Len(a))
    BY <1>1, <1>2, <2>0
  <2> QED BY <1>1, <1>2, <2>0, <2>1, <2>2, <2>3, <2>4
<1>4. \A p \in i..Len(s) - 1 : b[p - (i - 1)] = s[p + 1]
  <2> TAKE p \in i..Len(s) - 1
  <2>1. p - (i - 1) \in 1..Len(s) - i /\ i + (p - (i - 1)) = p + 1 OBVIOUS
  <2> QED BY <1>2, <2>1
<1>5. Turn!Erase(s, i) = a \o b BY DEF Turn!Erase, a, b
<1> QED BY <1>1, <1>3, <1>4, <1>5

LEMMA MessageParts ==
    ASSUME NEW m \in Turn!Entries
    PROVE  /\ m.tool_calls \in Seq(Turn!ToolCalls)
           /\ Len(m.tool_calls) \in Nat /\ DOMAIN m.tool_calls = 1..Len(m.tool_calls)
           /\ m.tool_calls = <<>> <=> Len(m.tool_calls) = 0
<1>1. m.tool_calls \in Seq(Turn!ToolCalls) BY DEF Turn!Entries
<1>2. PICK c \in Seq(Turn!ToolCalls) : c = m.tool_calls BY <1>1
<1>3. Len(c) \in Nat /\ DOMAIN c = 1..Len(c) /\ (c = <<>> <=> Len(c) = 0) OBVIOUS
<1> QED BY <1>1, <1>2, <1>3

LEMMA OtherCalls ==
    ASSUME NEW m \in Turn!Entries, NEW cs \in Seq(Turn!ToolCalls)
    PROVE  /\ [m EXCEPT !.tool_calls = cs] \in Turn!Entries
           /\ [m EXCEPT !.tool_calls = cs].tool_calls = cs
           /\ [m EXCEPT !.tool_calls = cs].role = m.role
           /\ [m EXCEPT !.tool_calls = cs].content = m.content
           /\ [m EXCEPT !.tool_calls = cs].of = m.of
           /\ [m EXCEPT !.tool_calls = cs].call = m.call
           /\ [m EXCEPT !.tool_calls = cs].skill_label = m.skill_label
<1> DEFINE Cs == Seq(Turn!ToolCalls)
<1>1. cs \in Cs OBVIOUS
<1>2. Turn!Entries =
        [role : {"user", "assistant", "tool"}, tool_calls : Cs,
         call : Turn!ToolCalls \cup {Turn!Call(Turn!None, Turn!None)},
         skill_label : Turn!Names \cup {Turn!None},
         of : Turn!Names \cup {Turn!None}, content : BOOLEAN]
  BY DEF Turn!Entries
<1> HIDE DEF Cs
<1> QED BY <1>1, <1>2

\* One result less, at i, of the calls at j.
Dropped(R, T, i, j) ==
    /\ R \in Seq(Turn!Entries) /\ Len(R) = Len(T) - 1
    /\ \A p \in 1..i - 1 : p # j => R[p] = T[p]
    /\ \A p \in i..Len(T) - 1 : R[p] = T[p + 1]
    /\ R[j].role = T[j].role /\ R[j].content = T[j].content
    /\ R[j].of = T[j].of /\ R[j].call = T[j].call /\ R[j].skill_label = T[j].skill_label
    /\ Len(R[j].tool_calls) = Len(T[j].tool_calls) - 1
    /\ \A m \in 1..i - j - 1 : R[j].tool_calls[m] = T[j].tool_calls[m]
    /\ \A m \in i - j..Len(T[j].tool_calls) - 1 : R[j].tool_calls[m] = T[j].tool_calls[m + 1]

LEMMA DropIs ==
    ASSUME NEW T \in Seq(Turn!Entries), NEW i \in 1..Len(T), NEW j \in 1..i - 1,
           i - j <= Len(T[j].tool_calls)
    PROVE  LET D == Turn!DropCall(T, j, i)
           IN /\ Dropped(Turn!Erase(D, i), T, i, j)
              /\ D[j] = Turn!Erase(D, i)[j]
<1> DEFINE cs == T[j].tool_calls
           rest == Turn!Erase(cs, i - j)
           D == [T EXCEPT ![j].tool_calls = rest]
           R == Turn!Erase(D, i)
<1>1. j \in 1..Len(T) /\ i - j \in 1..Len(cs) /\ T[j] \in Turn!Entries
  <2>1. j \in 1..Len(T) OBVIOUS
  <2>2. T[j] \in Turn!Entries BY <2>1
  <2>3. Len(cs) \in Nat BY <2>2, MessageParts
  <2> QED BY <2>1, <2>2, <2>3
<1>2. cs \in Seq(Turn!ToolCalls) BY <1>1, MessageParts
<1>3. /\ rest \in Seq(Turn!ToolCalls) /\ Len(rest) = Len(cs) - 1
      /\ \A p \in 1..i - j - 1 : rest[p] = cs[p]
      /\ \A p \in i - j..Len(cs) - 1 : rest[p] = cs[p + 1]
  <2> HIDE DEF cs
  <2>1. PICK k \in 1..Len(cs) : k = i - j BY <1>1
  <2> QED BY <1>2, <2>1, RemoveOne
<1>4. Turn!DropCall(T, j, i) = D BY DEF Turn!DropCall
<1> DEFINE x == [T[j] EXCEPT !.tool_calls = rest]
<1>5. /\ x \in Turn!Entries /\ x.tool_calls = rest /\ x.role = T[j].role
      /\ x.content = T[j].content /\ x.of = T[j].of /\ x.call = T[j].call
      /\ x.skill_label = T[j].skill_label
  <2> HIDE DEF rest
  <2> QED BY <1>1, <1>3, OtherCalls
<1>6. D = [T EXCEPT ![j] = x] OBVIOUS
<1> HIDE DEF x, D, rest, cs
<1>7. /\ D \in Seq(Turn!Entries) /\ Len(D) = Len(T) /\ D[j] = x
      /\ \A p \in 1..Len(T) : p # j => D[p] = T[p]
  BY <1>1, <1>5, <1>6
<1>8. /\ R \in Seq(Turn!Entries) /\ Len(R) = Len(T) - 1
      /\ \A p \in 1..i - 1 : R[p] = D[p]
      /\ \A p \in i..Len(T) - 1 : R[p] = D[p + 1]
  <2>1. i \in 1..Len(D) BY <1>7
  <2> QED BY <1>7, <2>1, RemoveOne
<1> HIDE DEF R
<1>9. R[j] = x /\ D[j] = x BY <1>7, <1>8
<1>10. \A p \in 1..i - 1 : p # j => R[p] = T[p] BY <1>7, <1>8
<1>11. \A p \in i..Len(T) - 1 : R[p] = T[p + 1]
  <2> TAKE p \in i..Len(T) - 1
  <2>1. p + 1 \in 1..Len(T) /\ p + 1 # j OBVIOUS
  <2> QED BY <1>7, <1>8, <2>1
<1>12. Dropped(R, T, i, j)
  <2>1. R[j].tool_calls = rest BY <1>5, <1>9
  <2>2. /\ Len(R[j].tool_calls) = Len(T[j].tool_calls) - 1
        /\ \A p \in 1..i - j - 1 : R[j].tool_calls[p] = T[j].tool_calls[p]
        /\ \A p \in i - j..Len(T[j].tool_calls) - 1 :
              R[j].tool_calls[p] = T[j].tool_calls[p + 1]
    BY <1>3, <2>1 DEF cs
  <2> QED BY <1>5, <1>8, <1>9, <1>10, <1>11, <2>2 DEF Dropped
<1> QED BY <1>4, <1>9, <1>12 DEF R

\* Paired, place by place.
InPairs(T, open) ==
    /\ \A q \in 1..Len(T) :
          /\ Len(T[q].tool_calls) # 0 => T[q].role = "assistant"
          /\ \A m \in 1..Len(T[q].tool_calls) :
                q + m <= Len(T) => T[q + m].role = "tool" /\ T[q + m].call = T[q].tool_calls[m]
          /\ q + Len(T[q].tool_calls) > Len(T) =>
                q + Len(T[q].tool_calls) = Len(T) + Len(open)
    /\ \A p \in 1..Len(T) :
          T[p].role = "tool" => \E q \in 1..p - 1 : p - q <= Len(T[q].tool_calls)

\* Some message waits for the results of `open`.
Waits(T, open) ==
    Len(open) # 0 =>
        \E q \in 1..Len(T) :
            /\ q + Len(T[q].tool_calls) = Len(T) + Len(open)
            /\ \A m \in 1..Len(open) :
                  T[q].tool_calls[Len(T[q].tool_calls) - Len(open) + m] = open[m]

LEMMA TranscriptIs ==
    ASSUME NEW T \in Seq(Turn!Entries)
    PROVE  /\ Len(T) \in Nat /\ DOMAIN T = 1..Len(T)
           /\ \A q \in 1..Len(T) : /\ T[q] \in Turn!Entries
                                   /\ Len(T[q].tool_calls) \in Nat
                                   /\ DOMAIN T[q].tool_calls = 1..Len(T[q].tool_calls)
                                   /\ T[q].tool_calls = <<>> <=> Len(T[q].tool_calls) = 0
<1>1. Len(T) \in Nat /\ DOMAIN T = 1..Len(T) /\ \A q \in 1..Len(T) : T[q] \in Turn!Entries
  OBVIOUS
<1>2. \A q \in 1..Len(T) : /\ Len(T[q].tool_calls) \in Nat
                           /\ DOMAIN T[q].tool_calls = 1..Len(T[q].tool_calls)
                           /\ T[q].tool_calls = <<>> <=> Len(T[q].tool_calls) = 0
  BY <1>1, MessageParts
<1> QED BY <1>1, <1>2

LEMMA PairedIs ==
    ASSUME NEW T \in Seq(Turn!Entries), NEW open \in Seq(Turn!ToolCalls)
    PROVE  Turn!Paired(T, open) <=> InPairs(T, open) /\ Waits(T, open)
<1>1. Len(T) \in Nat /\ DOMAIN T = 1..Len(T) BY TranscriptIs
<1>2. \A q \in 1..Len(T) : /\ DOMAIN T[q].tool_calls = 1..Len(T[q].tool_calls)
                           /\ T[q].tool_calls = <<>> <=> Len(T[q].tool_calls) = 0
  BY TranscriptIs
<1>3. DOMAIN open = 1..Len(open) /\ (open = <<>> <=> Len(open) = 0) OBVIOUS
<1>4. Turn!Paired(T, open) <=>
         /\ \A j \in 1..Len(T) :
               /\ T[j].tool_calls # <<>> => T[j].role = "assistant"
               /\ \A m \in DOMAIN T[j].tool_calls :
                     j + m <= Len(T) => /\ T[j + m].role = "tool"
                                        /\ T[j + m].call = T[j].tool_calls[m]
               /\ j + Len(T[j].tool_calls) > Len(T) =>
                     j + Len(T[j].tool_calls) = Len(T) + Len(open)
         /\ \A p \in 1..Len(T) :
               T[p].role = "tool" => \E q \in 1..p - 1 : p - q <= Len(T[q].tool_calls)
         /\ open # <<>> =>
               \E j \in 1..Len(T) :
                  /\ j + Len(T[j].tool_calls) = Len(T) + Len(open)
                  /\ \A m \in DOMAIN open :
                        T[j].tool_calls[Len(T[j].tool_calls) - Len(open) + m] = open[m]
  BY <1>1 DEF Turn!Paired
<1> DEFINE Place(q, Q) ==
             /\ Q => T[q].role = "assistant"
             /\ \A m \in 1..Len(T[q].tool_calls) :
                   q + m <= Len(T) => T[q + m].role = "tool" /\ T[q + m].call = T[q].tool_calls[m]
             /\ q + Len(T[q].tool_calls) > Len(T) =>
                   q + Len(T[q].tool_calls) = Len(T) + Len(open)
<1>5. ASSUME Turn!Paired(T, open) PROVE InPairs(T, open) /\ Waits(T, open)
  <2>1. ASSUME NEW q \in 1..Len(T) PROVE Place(q, Len(T[q].tool_calls) # 0)
    <3>1. Place(q, T[q].tool_calls # <<>>)
      <4>1. DOMAIN T[q].tool_calls = 1..Len(T[q].tool_calls) BY <1>2
      <4>2. /\ T[q].tool_calls # <<>> => T[q].role = "assistant"
            /\ \A m \in DOMAIN T[q].tool_calls :
                  q + m <= Len(T) => /\ T[q + m].role = "tool"
                                     /\ T[q + m].call = T[q].tool_calls[m]
            /\ q + Len(T[q].tool_calls) > Len(T) =>
                  q + Len(T[q].tool_calls) = Len(T) + Len(open)
        BY <1>4, <1>5
      <4> QED BY <4>1, <4>2
    <3>2. T[q].tool_calls # <<>> <=> Len(T[q].tool_calls) # 0 BY <1>2
    <3> QED BY <3>1, <3>2
  <2>2. InPairs(T, open) BY <1>4, <1>5, <2>1 DEF InPairs
  <2>3. ASSUME Len(open) # 0
        PROVE  \E q \in 1..Len(T) :
                  /\ q + Len(T[q].tool_calls) = Len(T) + Len(open)
                  /\ \A m \in 1..Len(open) :
                        T[q].tool_calls[Len(T[q].tool_calls) - Len(open) + m] = open[m]
    <3>1. open # <<>> BY <1>3, <2>3
    <3>2. PICK q \in 1..Len(T) :
             /\ q + Len(T[q].tool_calls) = Len(T) + Len(open)
             /\ \A m \in DOMAIN open :
                   T[q].tool_calls[Len(T[q].tool_calls) - Len(open) + m] = open[m]
      BY <1>4, <1>5, <3>1
    <3> QED BY <1>3, <3>2
  <2>4. Waits(T, open) BY <2>3 DEF Waits
  <2> QED BY <2>2, <2>4
<1>6. ASSUME InPairs(T, open), Waits(T, open) PROVE Turn!Paired(T, open)
  <2>1. ASSUME NEW q \in 1..Len(T)
        PROVE  /\ T[q].tool_calls # <<>> => T[q].role = "assistant"
               /\ \A m \in DOMAIN T[q].tool_calls :
                     q + m <= Len(T) => /\ T[q + m].role = "tool"
                                        /\ T[q + m].call = T[q].tool_calls[m]
               /\ q + Len(T[q].tool_calls) > Len(T) =>
                     q + Len(T[q].tool_calls) = Len(T) + Len(open)
    <3>1. Place(q, Len(T[q].tool_calls) # 0) BY <1>6 DEF InPairs
    <3>2. DOMAIN T[q].tool_calls = 1..Len(T[q].tool_calls) BY <1>2
    <3>3. T[q].tool_calls # <<>> <=> Len(T[q].tool_calls) # 0 BY <1>2
    <3> QED BY <3>1, <3>2, <3>3
  <2>2. ASSUME open # <<>>
        PROVE  \E j \in 1..Len(T) :
                  /\ j + Len(T[j].tool_calls) = Len(T) + Len(open)
                  /\ \A m \in DOMAIN open :
                        T[j].tool_calls[Len(T[j].tool_calls) - Len(open) + m] = open[m]
    <3>1. Len(open) # 0 BY <1>3, <2>2
    <3>2. PICK q \in 1..Len(T) :
             /\ q + Len(T[q].tool_calls) = Len(T) + Len(open)
             /\ \A m \in 1..Len(open) :
                   T[q].tool_calls[Len(T[q].tool_calls) - Len(open) + m] = open[m]
      BY <1>6, <3>1 DEF Waits
    <3> QED BY <1>3, <3>2
  <2>3. \A p \in 1..Len(T) :
           T[p].role = "tool" => \E q \in 1..p - 1 : p - q <= Len(T[q].tool_calls)
    BY <1>6 DEF InPairs
  <2> QED BY <1>4, <2>1, <2>2, <2>3
<1> QED BY <1>5, <1>6

\* The calls of a message before i, other than those the result at i belongs to, have
\* their results before i.
LEMMA ResultsStayApart ==
    ASSUME NEW T \in Seq(Turn!Entries), NEW open \in Seq(Turn!ToolCalls),
           InPairs(T, open), NEW i \in 1..Len(T), NEW q \in 1..i - 1,
           i <= q + Len(T[q].tool_calls)
    PROVE  /\ T[i].role = "tool"
           /\ \A p \in 1..i - 1 : p # q => p + Len(T[p].tool_calls) < i
<1> DEFINE n == Len(T)
           k(p) == Len(T[p].tool_calls)
<1>1. n \in Nat /\ \A p \in 1..n : k(p) \in Nat BY TranscriptIs
<1>2. \A p \in 1..n : k(p) # 0 => T[p].role = "assistant" BY DEF InPairs
<1>3. \A p \in 1..n : \A m \in 1..k(p) : p + m <= n => T[p + m].role = "tool"
  BY DEF InPairs
<1>4. n = Len(T) OBVIOUS
<1>h. i <= q + k(q) OBVIOUS
<1> HIDE DEF n, k
<1>5. \A p, l \in 1..n : p < l /\ l <= p + k(p) => T[l].role = "tool"
  <2> TAKE p, l \in 1..n
  <2> HAVE p < l /\ l <= p + k(p)
  <2>1. l - p \in 1..k(p) /\ p + (l - p) = l BY <1>1
  <2>2. p + (l - p) <= n BY <1>1
  <2> QED BY <1>3, <2>1, <2>2
<1>6. T[i].role = "tool" BY <1>1, <1>4, <1>5, <1>h
<1>7. ASSUME NEW p \in 1..i - 1, p # q, ~(p + k(p) < i) PROVE FALSE
  <2>1. p \in 1..n /\ q \in 1..n /\ i \in 1..n BY <1>1, <1>4
  <2>2. CASE p < q
    <3>1. T[q].role = "tool" BY <1>1, <1>5, <1>7, <2>1, <2>2
    <3>2. k(q) # 0 BY <1>h, <1>1, <2>1
    <3> QED BY <1>2, <2>1, <3>1, <3>2
  <2>3. CASE q < p
    <3>1. T[p].role = "tool" BY <1>1, <1>5, <1>h, <2>1, <2>3
    <3>2. k(p) # 0 BY <1>1, <1>7, <2>1
    <3> QED BY <1>2, <2>1, <3>1, <3>2
  <2> QED BY <1>7, <2>1, <2>2, <2>3
<1> QED BY <1>6, <1>7 DEF k

\* The message a result belongs to.
LEMMA OwnerIs ==
    ASSUME NEW T \in Seq(Turn!Entries), NEW open \in Seq(Turn!ToolCalls),
           InPairs(T, open), NEW i \in 1..Len(T), NEW q \in 1..i - 1,
           i - q <= Len(T[q].tool_calls)
    PROVE  Turn!Owner(T, i) = q /\ T[q].role = "assistant"
<1>0. q \in 1..Len(T) /\ Len(T) \in Nat /\ Len(T[q].tool_calls) \in Nat
  BY TranscriptIs
<1>1. T[q].role = "assistant" BY <1>0 DEF InPairs
<1>2. \A p \in 1..i - 1 : q < p => T[p].role = "tool"
  <2> TAKE p \in 1..i - 1
  <2> HAVE q < p
  <2>1. p - q \in 1..Len(T[q].tool_calls) /\ q + (p - q) = p /\ q + (p - q) <= Len(T) BY <1>0
  <2>2. \A m \in 1..Len(T[q].tool_calls) : q + m <= Len(T) => T[q + m].role = "tool"
    BY <1>0 DEF InPairs
  <2>3. T[q + (p - q)].role = "tool" BY <2>1, <2>2
  <2> QED BY <2>1, <2>3
<1> DEFINE Last(j) == /\ j # 0 => T[j].role # "tool"
                      /\ \A k \in (j + 1)..(i - 1) : T[k].role = "tool"
<1>3. q \in 0..i - 1 /\ Last(q) BY <1>0, <1>1, <1>2
<1>4. ASSUME NEW j \in 0..i - 1, Last(j) PROVE j = q
  <2>1. CASE j < q
    <3>1. q \in (j + 1)..(i - 1) BY <1>0, <2>1
    <3>2. T[q].role = "tool" BY <1>4, <3>1
    <3> QED BY <1>1, <3>2
  <2>2. CASE j > q
    <3>1. j # 0 /\ j \in 1..i - 1 BY <2>2
    <3> QED BY <1>2, <1>4, <2>2, <3>1
  <2> QED BY <2>1, <2>2
<1>5. Turn!Owner(T, i) = CHOOSE j \in 0..i - 1 : Last(j) BY DEF Turn!Owner
<1> HIDE DEF Last
<1>6. Turn!Owner(T, i) = q BY <1>3, <1>4, <1>5
<1> QED BY <1>1, <1>6

\* A result and its call go, and the rest is still paired.
LEMMA OneResultLess ==
    ASSUME NEW T \in Seq(Turn!Entries), NEW open \in Seq(Turn!ToolCalls), Len(open) # 0,
           InPairs(T, open), Waits(T, open),
           NEW i \in 1..Len(T), NEW j \in 1..i - 1, i - j <= Len(T[j].tool_calls),
           NEW R, Dropped(R, T, i, j)
    PROVE  InPairs(R, open) /\ Waits(R, open)
<1> DEFINE n == Len(T)
           w == Len(open)
           k(p) == Len(T[p].tool_calls)
           h(p) == Len(R[p].tool_calls)
<1>1. n \in Nat /\ w \in Nat /\ w # 0 /\ \A p \in 1..n : k(p) \in Nat BY TranscriptIs
<1>2. \A p \in 1..n : k(p) # 0 => T[p].role = "assistant" BY DEF InPairs
<1>3. \A p \in 1..n : \A m \in 1..k(p) :
         p + m <= n => T[p + m].role = "tool" /\ T[p + m].call = T[p].tool_calls[m]
  BY DEF InPairs
<1>4. \A p \in 1..n : p + k(p) > n => p + k(p) = n + w BY DEF InPairs
<1>5. \A p \in 1..n : T[p].role = "tool" => \E q \in 1..p - 1 : p - q <= k(q)
  BY DEF InPairs
<1>6. Len(R) = n - 1 /\ (\A p \in 1..i - 1 : p # j => R[p] = T[p])
      /\ \A p \in i..n - 1 : R[p] = T[p + 1]
  BY DEF Dropped
<1>7. /\ R[j].role = T[j].role /\ h(j) = k(j) - 1
      /\ \A m \in 1..i - j - 1 : R[j].tool_calls[m] = T[j].tool_calls[m]
      /\ \A m \in i - j..k(j) - 1 : R[j].tool_calls[m] = T[j].tool_calls[m + 1]
  BY DEF Dropped
<1>8. i \in 1..n /\ j \in 1..n /\ j < i /\ i - j <= k(j) BY <1>1
<1>9. T[i].role = "tool" /\ \A p \in 1..i - 1 : p # j => p + k(p) < i
  <2>1. i <= j + Len(T[j].tool_calls) BY <1>1, <1>8
  <2> QED BY <2>1, ResultsStayApart
<1>10. PICK o \in 1..n : /\ o + k(o) = n + w
                         /\ \A m \in 1..w : T[o].tool_calls[k(o) - w + m] = open[m]
  BY <1>1 DEF Waits
<1>11. \A p \in 1..i - 1 : p # j => h(p) = k(p) BY <1>6
<1>12. \A p \in i..n - 1 : h(p) = k(p + 1) BY <1>6
<1>13. k(i) = 0 BY <1>1, <1>2, <1>8, <1>9
<1>14. k(j) \in Nat /\ k(j) # 0 /\ T[j].role = "assistant" BY <1>1, <1>2, <1>8
<1>r. \A q \in 1..n - 1 : Len(R[q].tool_calls) = h(q) OBVIOUS
<1>s. Len(R) = n - 1 /\ Len(open) = w BY <1>6
<1> HIDE DEF n, w, k, h
<1>n. /\ n \in Nat /\ w \in Nat /\ w # 0 /\ i \in 1..n /\ j \in 1..n /\ j < i
  BY <1>1, <1>8
<1>j. PICK kj \in Nat : kj = k(j) BY <1>14
<1>h. PICK hj \in Nat : hj = h(j)
  <2>1. kj # 0 /\ h(j) = kj - 1 BY <1>7, <1>14, <1>j
  <2> QED BY <2>1
<1>a. hj + 1 = kj /\ kj # 0 /\ i - j <= kj /\ (j + kj > n => j + kj = n + w)
  <2>1. kj # 0 /\ i - j <= kj /\ (j + kj > n => j + kj = n + w) BY <1>4, <1>8, <1>14, <1>j
  <2>2. hj = kj - 1 BY <1>7, <1>j, <1>h
  <2>3. hj + 1 = kj BY <2>2
  <2> QED BY <2>1, <2>3
<1>15. ASSUME NEW p \in 1..n - 1
       PROVE  /\ h(p) # 0 => R[p].role = "assistant"
              /\ \A m \in 1..h(p) :
                    p + m <= n - 1 => R[p + m].role = "tool" /\ R[p + m].call = R[p].tool_calls[m]
              /\ p + h(p) > n - 1 => p + h(p) = n - 1 + w
  <2>1. CASE p = j
    <3>1. ASSUME NEW m \in 1..h(j), j + m <= n - 1
          PROVE  R[j + m].role = "tool" /\ R[j + m].call = R[j].tool_calls[m]
      <4>0. m \in 1..hj BY <1>h, <3>1
      <4>1. m \in 1..kj /\ m + 1 \in 1..kj /\ m \in 1..kj - 1 BY <1>a, <4>0
      <4>2. CASE m < i - j
        <5>1. j + m \in 1..i - 1 /\ j + m # j /\ j + m <= n /\ m \in 1..i - j - 1
          BY <1>n, <4>1, <4>2
        <5>2. R[j + m] = T[j + m] /\ R[j].tool_calls[m] = T[j].tool_calls[m] BY <1>6, <1>7, <5>1
        <5> QED BY <1>3, <1>8, <1>j, <4>1, <5>1, <5>2
      <4>3. CASE ~(m < i - j)
        <5>1. j + m \in i..n - 1 /\ m \in i - j..kj - 1 /\ j + (m + 1) <= n
              /\ j + m + 1 = j + (m + 1)
          BY <1>n, <1>a, <3>1, <4>1, <4>3
        <5>2. R[j + m] = T[j + (m + 1)] /\ R[j].tool_calls[m] = T[j].tool_calls[m + 1]
          BY <1>6, <1>7, <1>j, <5>1
        <5> QED BY <1>3, <1>8, <1>j, <4>1, <5>1, <5>2
      <4> QED BY <4>2, <4>3
    <3>2. j + h(j) > n - 1 => j + h(j) = n - 1 + w
      <4>1. j + hj > n - 1 => j + hj = n - 1 + w BY <1>n, <1>a
      <4> QED BY <1>h, <4>1
    <3> QED BY <1>7, <1>14, <2>1, <3>1, <3>2
  <2>2. CASE p \in 1..i - 1 /\ p # j
    <3>a. R[p] = T[p] /\ h(p) = k(p) /\ p + k(p) < i BY <1>6, <1>9, <1>11, <2>2
    <3>b. p \in 1..n BY <1>n, <2>2
    <3>1. R[p] = T[p] /\ h(p) = k(p) /\ p \in 1..n /\ k(p) \in Nat /\ p + k(p) < i
      BY <1>1, <3>a, <3>b
    <3>2. ASSUME NEW m \in 1..h(p)
          PROVE  R[p + m].role = "tool" /\ R[p + m].call = R[p].tool_calls[m]
      <4>1. m \in 1..k(p) /\ p + m \in 1..i - 1 /\ p + m <= n BY <1>1, <1>8, <3>1
      <4>2. T[p + m].role = "tool" /\ T[p + m].call = T[p].tool_calls[m] BY <1>3, <3>1, <4>1
      <4>3. p + m # j BY <1>14, <4>2
      <4>4. R[p + m] = T[p + m] BY <1>6, <4>1, <4>3
      <4> QED BY <3>1, <4>2, <4>4
    <3>3. ~(p + h(p) > n - 1) BY <1>1, <1>8, <3>1
    <3> QED BY <1>2, <3>1, <3>2, <3>3
  <2>3. CASE p \in i..n - 1
    <3>1. PICK q \in 1..n : q = p + 1 BY <1>1, <1>8
    <3>2. R[p] = T[q] /\ h(p) = k(q) /\ k(q) \in Nat BY <1>1, <1>6, <1>12, <2>3, <3>1
    <3>3. ASSUME NEW m \in 1..h(p), p + m <= n - 1
          PROVE  R[p + m].role = "tool" /\ R[p + m].call = R[p].tool_calls[m]
      <4>1. m \in 1..k(q) /\ q + m <= n /\ p + m \in i..n - 1 /\ p + m + 1 = q + m
        BY <1>1, <1>8, <2>3, <3>1, <3>2, <3>3
      <4>2. R[p + m] = T[q + m] BY <1>6, <4>1
      <4> QED BY <1>3, <3>2, <4>1, <4>2
    <3>4. PICK kq \in Nat : kq = k(q) BY <3>2
    <3>5. p + h(p) > n - 1 => p + h(p) = n - 1 + w
      <4>1. q + kq > n => q + kq = n + w BY <1>4, <3>4
      <4>2. p + kq > n - 1 => p + kq = n - 1 + w BY <1>n, <3>1, <4>1
      <4> QED BY <3>2, <3>4, <4>2
    <3> QED BY <1>2, <3>2, <3>3, <3>5
  <2>4. p = j \/ (p \in 1..i - 1 /\ p # j) \/ p \in i..n - 1 BY <1>n
  <2> QED BY <2>1, <2>2, <2>3, <2>4
<1>16. ASSUME NEW p \in 1..n - 1, R[p].role = "tool" PROVE \E q \in 1..p - 1 : p - q <= h(q)
  <2>1. CASE p \in 1..i - 1
    <3>1. p # j BY <1>7, <1>14, <1>16
    <3>2. T[p].role = "tool" /\ p \in 1..n BY <1>1, <1>6, <1>8, <1>16, <2>1, <3>1
    <3>3. PICK q \in 1..p - 1 : p - q <= k(q) BY <1>5, <3>2
    <3>4. CASE q = j
      <4>1. p - j <= h(j) BY <1>1, <1>7, <1>8, <1>14, <2>1
      <4> QED BY <3>4, <4>1
    <3>5. CASE q # j
      <4>1. q \in 1..i - 1 BY <1>8, <2>1
      <4>2. h(q) = k(q) BY <1>11, <3>5, <4>1
      <4> QED BY <3>3, <4>2
    <3> QED BY <3>4, <3>5
  <2>2. CASE p \in i..n - 1
    <3>1. PICK r \in 1..n : r = p + 1 BY <1>1, <1>8
    <3>2. T[r].role = "tool" BY <1>6, <1>16, <2>2, <3>1
    <3>3. PICK q \in 1..r - 1 : r - q <= k(q) BY <1>5, <3>2
    <3>4. q \in 1..n /\ k(q) \in Nat BY <1>1
    <3>5. CASE q = j
      <4>1. j \in 1..p - 1 /\ p - j <= h(j) BY <1>1, <1>7, <1>8, <1>14, <2>2, <3>1, <3>3, <3>5
      <4> QED BY <4>1
    <3>6. CASE q < i /\ q # j
      <4>1. q + k(q) < i BY <1>9, <3>6
      <4> QED BY <1>8, <2>2, <3>1, <3>3, <3>4, <4>1
    <3>7. CASE q = i BY <1>13, <3>1, <3>3, <3>4, <3>7
    <3>8. CASE q > i
      <4>1. PICK l \in i..n - 1 : q = l + 1 /\ l \in 1..p - 1
        <5>1. q - 1 \in i..n - 1 /\ q - 1 \in 1..p - 1 /\ q = (q - 1) + 1
          BY <1>1, <1>8, <3>1, <3>4, <3>8
        <5> QED BY <5>1
      <4>2. h(l) = k(q) BY <1>12, <4>1
      <4>3. p - l <= h(l) BY <3>1, <3>3, <3>4, <4>1, <4>2
      <4> QED BY <4>1, <4>3
    <3>9. q = j \/ (q < i /\ q # j) \/ q = i \/ q > i BY <1>8
    <3> QED BY <3>5, <3>6, <3>7, <3>8, <3>9
  <2> QED BY <1>1, <1>8, <2>1, <2>2
<1>17. InPairs(R, open) BY <1>15, <1>16, <1>s DEF InPairs, h
<1>o. PICK ko \in Nat : ko = k(o) BY <1>1, <1>10
<1>b. o + ko = n + w /\ o \in 1..n BY <1>10, <1>o
<1>18. \E q \in 1..n - 1 :
          /\ q + h(q) = n - 1 + w
          /\ \A m \in 1..w : R[q].tool_calls[h(q) - w + m] = open[m]
  <2>1. CASE o = j
    <3>0. kj = ko BY <1>j, <1>o, <2>1
    <3>1. j + h(j) = n - 1 + w /\ j \in 1..n - 1
      <4>1. j + hj = n - 1 + w /\ j \in 1..n - 1 BY <1>n, <1>a, <1>b, <2>1, <3>0
      <4> QED BY <1>h, <4>1
    <3>2. ASSUME NEW m \in 1..w PROVE R[j].tool_calls[h(j) - w + m] = open[m]
      <4>1. /\ h(j) - w + m \in i - j..k(j) - 1
            /\ (h(j) - w + m) + 1 = k(j) - w + m
        <5>1. j + kj = n + w BY <1>b, <2>1, <3>0
        <5>2. hj - w + m \in i - j..kj - 1 /\ (hj - w + m) + 1 = kj - w + m
          BY <1>n, <1>a, <5>1
        <5> QED BY <1>h, <1>j, <5>2
      <4>2. R[j].tool_calls[h(j) - w + m] = T[j].tool_calls[k(j) - w + m] BY <1>7, <4>1
      <4> QED BY <1>10, <2>1, <4>2
    <3> QED BY <3>1, <3>2
  <2>2. CASE o # j
    <3>1. o > i
      <4>1. CASE o < i
        <5>1. o \in 1..i - 1 BY <1>n, <1>b, <4>1
        <5>2. o + ko < i BY <1>9, <1>o, <2>2, <5>1
        <5> QED BY <1>n, <1>b, <5>2
      <4>2. CASE o = i BY <1>1, <1>8, <1>10, <1>13, <4>2
      <4> QED BY <1>8, <4>1, <4>2
    <3>2. PICK q \in i..n - 1 : o = q + 1
      <4>1. o - 1 \in i..n - 1 /\ o = (o - 1) + 1 BY <1>1, <1>8, <3>1
      <4> QED BY <4>1
    <3>3. R[q] = T[o] /\ h(q) = k(o) /\ k(o) \in Nat BY <1>1, <1>6, <1>12, <3>2
    <3>4. q + h(q) = n - 1 + w /\ q \in 1..n - 1
      <4>1. q + ko = n - 1 + w /\ q \in 1..n - 1 BY <1>n, <1>b, <3>2
      <4> QED BY <1>o, <3>3, <4>1
    <3> QED BY <1>10, <3>3, <3>4
  <2> QED BY <2>1, <2>2
<1>19. Waits(R, open) BY <1>18, <1>s DEF Waits, h
<1> QED BY <1>17, <1>19

\* R is T without what is at j.
Without(R, T, j) ==
    /\ R \in Seq(Turn!Entries) /\ Len(R) = Len(T) - 1
    /\ \A p \in 1..j - 1 : R[p] = T[p]
    /\ \A p \in j..Len(T) - 1 : R[p] = T[p + 1]

\* A message without calls goes, and the rest is still paired.
LEMMA OneMessageLess ==
    ASSUME NEW T \in Seq(Turn!Entries), NEW open \in Seq(Turn!ToolCalls), Len(open) # 0,
           InPairs(T, open), Waits(T, open),
           NEW j \in 1..Len(T), T[j].role # "tool", Len(T[j].tool_calls) = 0,
           NEW R, Without(R, T, j)
    PROVE  InPairs(R, open) /\ Waits(R, open)
<1> DEFINE n == Len(T)
           w == Len(open)
           k(p) == Len(T[p].tool_calls)
           h(p) == Len(R[p].tool_calls)
<1>1. n \in Nat /\ w \in Nat /\ w # 0 /\ \A p \in 1..n : k(p) \in Nat BY TranscriptIs
<1>2. \A p \in 1..n : k(p) # 0 => T[p].role = "assistant" BY DEF InPairs
<1>3. \A p \in 1..n : \A m \in 1..k(p) :
         p + m <= n => T[p + m].role = "tool" /\ T[p + m].call = T[p].tool_calls[m]
  BY DEF InPairs
<1>4. \A p \in 1..n : p + k(p) > n => p + k(p) = n + w BY DEF InPairs
<1>5. \A p \in 1..n : T[p].role = "tool" => \E q \in 1..p - 1 : p - q <= k(q)
  BY DEF InPairs
<1>6. Len(R) = n - 1 /\ (\A p \in 1..j - 1 : R[p] = T[p])
      /\ \A p \in j..n - 1 : R[p] = T[p + 1]
  BY DEF Without
<1>7. j \in 1..n /\ k(j) = 0 OBVIOUS
<1>10. PICK o \in 1..n : /\ o + k(o) = n + w
                         /\ \A m \in 1..w : T[o].tool_calls[k(o) - w + m] = open[m]
  BY <1>1 DEF Waits
<1>11. \A p \in 1..j - 1 : h(p) = k(p) BY <1>6
<1>12. \A p \in j..n - 1 : h(p) = k(p + 1) BY <1>6
<1>r. \A q \in 1..n - 1 : Len(R[q].tool_calls) = h(q) OBVIOUS
<1>s. Len(R) = n - 1 /\ Len(open) = w BY <1>6
<1> HIDE DEF n, w, k, h
<1>9. ASSUME NEW p \in 1..j - 1 PROVE p \in 1..n /\ k(p) \in Nat /\ p + k(p) < j
  <2>1. p \in 1..n /\ k(p) \in Nat BY <1>1, <1>7
  <2>2. ASSUME ~(p + k(p) < j) PROVE FALSE
    <3>1. j - p \in 1..k(p) /\ p + (j - p) = j /\ p + (j - p) <= n
      BY <1>1, <1>7, <2>1, <2>2
    <3> QED BY <1>3, <2>1, <3>1
  <2> QED BY <2>1, <2>2
<1>15. ASSUME NEW p \in 1..n - 1
       PROVE  /\ h(p) # 0 => R[p].role = "assistant"
              /\ \A m \in 1..h(p) :
                    p + m <= n - 1 => R[p + m].role = "tool" /\ R[p + m].call = R[p].tool_calls[m]
              /\ p + h(p) > n - 1 => p + h(p) = n - 1 + w
  <2>2. CASE p \in 1..j - 1
    <3>1. R[p] = T[p] /\ h(p) = k(p) /\ p \in 1..n /\ k(p) \in Nat /\ p + k(p) < j
      BY <1>6, <1>9, <1>11, <2>2
    <3>2. ASSUME NEW m \in 1..h(p)
          PROVE  R[p + m].role = "tool" /\ R[p + m].call = R[p].tool_calls[m]
      <4>1. m \in 1..k(p) /\ p + m \in 1..j - 1 /\ p + m <= n BY <1>1, <1>7, <3>1
      <4>2. T[p + m].role = "tool" /\ T[p + m].call = T[p].tool_calls[m] BY <1>3, <3>1, <4>1
      <4>4. R[p + m] = T[p + m] BY <1>6, <4>1
      <4> QED BY <3>1, <4>2, <4>4
    <3>3. ~(p + h(p) > n - 1) BY <1>1, <1>7, <3>1
    <3> QED BY <1>2, <3>1, <3>2, <3>3
  <2>3. CASE p \in j..n - 1
    <3>1. PICK q \in 1..n : q = p + 1 BY <1>1, <1>7
    <3>2. R[p] = T[q] /\ h(p) = k(q) /\ k(q) \in Nat BY <1>1, <1>6, <1>12, <2>3, <3>1
    <3>3. ASSUME NEW m \in 1..h(p), p + m <= n - 1
          PROVE  R[p + m].role = "tool" /\ R[p + m].call = R[p].tool_calls[m]
      <4>0. m \in 1..k(q) BY <3>2, <3>3
      <4>1. m \in 1..k(q) /\ q + m <= n /\ p + m \in j..n - 1 /\ p + m + 1 = q + m
        BY <1>1, <1>7, <2>3, <3>1, <3>2, <3>3, <4>0
      <4>2. R[p + m] = T[q + m] BY <1>6, <4>1
      <4> QED BY <1>3, <3>2, <4>1, <4>2
    <3>4. PICK kq \in Nat : kq = k(q) BY <3>2
    <3>5. p + h(p) > n - 1 => p + h(p) = n - 1 + w
      <4>1. q + kq > n => q + kq = n + w BY <1>4, <3>4
      <4>2. p + kq > n - 1 => p + kq = n - 1 + w BY <1>1, <3>1, <4>1
      <4> QED BY <3>2, <3>4, <4>2
    <3> QED BY <1>2, <3>2, <3>3, <3>5
  <2>4. p \in 1..j - 1 \/ p \in j..n - 1 BY <1>1, <1>7
  <2> QED BY <2>2, <2>3, <2>4
<1>16. ASSUME NEW p \in 1..n - 1, R[p].role = "tool" PROVE \E q \in 1..p - 1 : p - q <= h(q)
  <2>1. CASE p \in 1..j - 1
    <3>1. T[p].role = "tool" /\ p \in 1..n BY <1>6, <1>9, <1>16, <2>1
    <3>2. PICK q \in 1..p - 1 : p - q <= k(q) BY <1>5, <3>1
    <3>3. q \in 1..j - 1 BY <1>7, <2>1
    <3>4. h(q) = k(q) BY <1>11, <3>3
    <3> QED BY <3>2, <3>4
  <2>2. CASE p \in j..n - 1
    <3>1. PICK r \in 1..n : r = p + 1 BY <1>1, <1>7
    <3>2. T[r].role = "tool" BY <1>6, <1>16, <2>2, <3>1
    <3>3. PICK q \in 1..r - 1 : r - q <= k(q) BY <1>5, <3>2
    <3>4. q \in 1..n /\ k(q) \in Nat BY <1>1
    <3>6. CASE q < j
      <4>1. q \in 1..j - 1 BY <1>7, <3>4, <3>6
      <4>2. q + k(q) < j BY <1>9, <4>1
      <4> QED BY <1>7, <2>2, <3>1, <3>3, <3>4, <4>2
    <3>7. CASE q = j BY <1>7, <3>1, <3>3, <3>4, <3>7
    <3>8. CASE q > j
      <4>1. PICK l \in j..n - 1 : q = l + 1 /\ l \in 1..p - 1
        <5>1. q - 1 \in j..n - 1 /\ q - 1 \in 1..p - 1 /\ q = (q - 1) + 1
          BY <1>1, <1>7, <3>1, <3>4, <3>8
        <5> QED BY <5>1
      <4>2. h(l) = k(q) BY <1>12, <4>1
      <4>3. p - l <= h(l) BY <3>1, <3>3, <3>4, <4>1, <4>2
      <4> QED BY <4>1, <4>3
    <3>9. q < j \/ q = j \/ q > j BY <1>7
    <3> QED BY <3>6, <3>7, <3>8, <3>9
  <2>3. p \in 1..j - 1 \/ p \in j..n - 1 BY <1>1, <1>7
  <2> QED BY <2>1, <2>2, <2>3
<1>17. InPairs(R, open) BY <1>15, <1>16, <1>s DEF InPairs, h
<1>o. PICK ko \in Nat : ko = k(o) BY <1>1, <1>10
<1>b. o + ko = n + w /\ o \in 1..n BY <1>10, <1>o
<1>18. \E q \in 1..n - 1 :
          /\ q + h(q) = n - 1 + w
          /\ \A m \in 1..w : R[q].tool_calls[h(q) - w + m] = open[m]
  <2>1. o > j
    <3>1. CASE o < j
      <4>1. o \in 1..j - 1 BY <1>7, <1>b, <3>1
      <4>2. o + ko < j BY <1>9, <1>o, <4>1
      <4> QED BY <1>1, <1>7, <1>b, <4>2
    <3>2. CASE o = j BY <1>1, <1>7, <1>10, <3>2
    <3> QED BY <1>7, <3>1, <3>2
  <2>2. PICK q \in j..n - 1 : o = q + 1
    <3>1. o - 1 \in j..n - 1 /\ o = (o - 1) + 1 BY <1>1, <1>7, <2>1
    <3> QED BY <3>1
  <2>3. R[q] = T[o] /\ h(q) = k(o) /\ k(o) \in Nat BY <1>1, <1>6, <1>12, <2>2
  <2>4. q + h(q) = n - 1 + w /\ q \in 1..n - 1
    <3>1. q + ko = n - 1 + w /\ q \in 1..n - 1 BY <1>1, <1>7, <1>b, <2>2
    <3> QED BY <1>o, <2>3, <3>1
  <2> QED BY <1>10, <2>3, <2>4
<1>19. Waits(R, open) BY <1>18, <1>s DEF Waits, h
<1> QED BY <1>17, <1>19

\* The skill a message tellably holds the text of.
Held(m) == IF Turn!Tellable(m) THEN m.of ELSE Turn!None

\* What tellably holds a skill's text carries its label.
Tagged(m) == /\ Held(m) # Turn!None => Held(m) = m.skill_label
             /\ m.of # Turn!None \/ m.skill_label # Turn!None => m.role = "tool"

LEMMA LabelledIs ==
    ASSUME NEW T \in Seq(Turn!Entries)
    PROVE  Turn!Labelled(T) <=> \A p \in 1..Len(T) : Tagged(T[p])
<1>1. DOMAIN T = 1..Len(T) BY TranscriptIs
<1>2. \A m : Turn!Tellable(m) => m.of # Turn!None BY DEF Turn!Tellable
<1> QED BY <1>1, <1>2 DEF Turn!Labelled, Tagged, Held

\* What a step of the walk leaves: a transcript still paired and labelled, with nothing
\* labelled s at i or behind.
Walked(F, open, s, i) ==
    /\ F \in Seq(Turn!Entries) /\ InPairs(F, open) /\ Waits(F, open)
    /\ \A p \in 1..Len(F) : Tagged(F[p])
    /\ Len(F) >= i - 1 /\ \A p \in i..Len(F) : F[p].skill_label # s

\* The message still waited for is behind the result that is dropped.
LEMMA MoreBehind ==
    ASSUME NEW T \in Seq(Turn!Entries), NEW open \in Seq(Turn!ToolCalls), Len(open) # 0,
           InPairs(T, open), Waits(T, open), NEW i \in 1..Len(T), NEW j \in 1..i - 1,
           i - j <= Len(T[j].tool_calls), j + Len(T[j].tool_calls) = i
    PROVE  Len(T) >= i + 1
<1>1. Len(T) \in Nat /\ Len(open) \in Nat /\ \A p \in 1..Len(T) : Len(T[p].tool_calls) \in Nat
  BY TranscriptIs
<1>2. PICK o \in 1..Len(T) : o + Len(T[o].tool_calls) = Len(T) + Len(open) BY DEF Waits
<1>3. T[i].role = "tool" /\ \A p \in 1..i - 1 : p # j => p + Len(T[p].tool_calls) < i
  <2>1. i <= j + Len(T[j].tool_calls) BY <1>1
  <2> QED BY <2>1, ResultsStayApart
<1>4. Len(T[i].tool_calls) = 0 BY <1>3 DEF InPairs
<1>5. PICK ko \in Nat : ko = Len(T[o].tool_calls) BY <1>1
<1>6. o + ko = Len(T) + Len(open) BY <1>2, <1>5
<1>7. CASE o < i
  <2>1. o # j BY <1>1, <1>2
  <2>2. o \in 1..i - 1 BY <1>1, <1>7
  <2>3. o + ko < i BY <1>3, <1>5, <2>1, <2>2
  <2> QED BY <1>1, <1>6, <2>3
<1>8. CASE o = i BY <1>1, <1>4, <1>5, <1>6, <1>8
<1>9. CASE o > i BY <1>1, <1>9
<1> QED BY <1>1, <1>7, <1>8, <1>9

LEMMA ForgetOne ==
    ASSUME NEW T \in Seq(Turn!Entries), NEW open \in Seq(Turn!ToolCalls), Len(open) # 0,
           NEW s, NEW i \in 1..Len(T), Walked(T, open, s, i + 1), T[i].role = "tool"
    PROVE  Walked(Turn!Forget(T, i), open, s, i)
<1>1. InPairs(T, open) /\ Waits(T, open) /\ \A p \in 1..Len(T) : Tagged(T[p]) BY DEF Walked
<1>2. \A p \in i + 1..Len(T) : T[p].skill_label # s BY DEF Walked
<1>3. PICK j \in 1..i - 1 : i - j <= Len(T[j].tool_calls) BY <1>1 DEF InPairs
<1>4. Turn!Owner(T, i) = j /\ T[j].role = "assistant" BY <1>1, <1>3, OwnerIs
<1> DEFINE D == Turn!DropCall(T, j, i)
           R == Turn!Erase(D, i)
           F == Turn!Erase(R, j)
<1>5. Dropped(R, T, i, j) /\ D[j] = R[j] BY <1>3, DropIs
<1>6. j \in 1..Len(T) /\ Len(T) \in Nat /\ Len(T[j].tool_calls) \in Nat BY TranscriptIs
<1>7. T[j].tool_calls # <<>>
  <2>1. Len(T[j].tool_calls) # 0 BY <1>3, <1>6
  <2> QED BY <1>6, <2>1, TranscriptIs
<1>8. Turn!Forget(T, i) = IF R[j].tool_calls = <<>> /\ ~R[j].content THEN F ELSE R
  <2>1. j # 0 /\ T[i].role = "tool" OBVIOUS
  <2>2. Turn!Forget(T, i) = IF D[j].tool_calls = <<>> /\ ~D[j].content THEN F ELSE R
    BY <1>4, <1>7, <2>1 DEF Turn!Forget
  <2> HIDE DEF D, R, F
  <2> QED BY <1>5, <2>2
<1> HIDE DEF D, R
<1>9. InPairs(R, open) /\ Waits(R, open) BY <1>1, <1>3, <1>5, OneResultLess
<1>10. /\ R \in Seq(Turn!Entries) /\ Len(R) = Len(T) - 1
       /\ \A p \in 1..i - 1 : p # j => R[p] = T[p]
       /\ \A p \in i..Len(T) - 1 : R[p] = T[p + 1]
       /\ R[j].role = T[j].role /\ R[j].of = T[j].of /\ R[j].call = T[j].call
       /\ R[j].skill_label = T[j].skill_label
       /\ Len(R[j].tool_calls) = Len(T[j].tool_calls) - 1
  BY <1>5 DEF Dropped
<1>11. ASSUME NEW p \in 1..Len(R) PROVE Tagged(R[p])
  <2>1. CASE p = j
    <3>1. Tagged(T[j]) BY <1>1, <1>6
    <3>2. Held(R[j]) = Held(T[j]) BY <1>10 DEF Held, Turn!Tellable
    <3> QED BY <1>10, <2>1, <3>1, <3>2 DEF Tagged
  <2>2. CASE p # j /\ p \in 1..i - 1 BY <1>1, <1>6, <1>10, <2>2
  <2>3. CASE p \in i..Len(T) - 1
    <3>1. p + 1 \in 1..Len(T) BY <1>6, <2>3
    <3> QED BY <1>1, <1>10, <2>3, <3>1
  <2>4. p = j \/ (p # j /\ p \in 1..i - 1) \/ p \in i..Len(T) - 1 BY <1>6, <1>10
  <2> QED BY <2>1, <2>2, <2>3, <2>4
<1>12. CASE ~(R[j].tool_calls = <<>> /\ ~R[j].content)
  <2>1. \A p \in i..Len(R) : R[p].skill_label # s
    <3> TAKE p \in i..Len(R)
    <3>1. p \in i..Len(T) - 1 /\ p + 1 \in i + 1..Len(T) BY <1>6, <1>10
    <3> QED BY <1>2, <1>10, <3>1
  <2>2. Len(R) >= i - 1 BY <1>6, <1>10
  <2>3. Walked(R, open, s, i) BY <1>9, <1>10, <1>11, <2>1, <2>2 DEF Walked
  <2> QED BY <1>8, <1>12, <2>3
<1>13. CASE R[j].tool_calls = <<>> /\ ~R[j].content
  <2>1. j \in 1..Len(R) /\ Len(R) \in Nat BY <1>6, <1>10
  <2>2. Len(R[j].tool_calls) = 0 BY <1>10, <1>13, <2>1, TranscriptIs
  <2>3. j + Len(T[j].tool_calls) = i
    <3>1. PICK k \in Nat : k = Len(T[j].tool_calls) BY <1>6
    <3>2. k - 1 = 0 /\ i - j <= k BY <1>3, <1>10, <2>2, <3>1
    <3>3. j + k = i BY <3>2
    <3> QED BY <3>1, <3>3
  <2>4. Len(T) >= i + 1 BY <1>1, <1>3, <2>3, MoreBehind
  <2>5. Without(F, R, j) BY <1>10, <2>1, RemoveOne DEF Without
  <2> HIDE DEF F
  <2>6. R[j].role # "tool" BY <1>4, <1>10
  <2>7. InPairs(F, open) /\ Waits(F, open) BY <1>9, <1>10, <2>1, <2>2, <2>5, <2>6, OneMessageLess
  <2>8. /\ F \in Seq(Turn!Entries) /\ Len(F) = Len(R) - 1
        /\ \A p \in 1..j - 1 : F[p] = R[p]
        /\ \A p \in j..Len(R) - 1 : F[p] = R[p + 1]
    BY <2>5 DEF Without
  <2>9. ASSUME NEW p \in 1..Len(F) PROVE Tagged(F[p])
    <3>1. CASE p \in 1..j - 1 BY <1>11, <2>1, <2>8, <3>1
    <3>2. CASE p \in j..Len(R) - 1
      <4>1. p + 1 \in 1..Len(R) BY <2>1, <3>2
      <4> QED BY <1>11, <2>8, <3>2, <4>1
    <3> QED BY <2>1, <2>8, <3>1, <3>2
  <2>10. \A p \in i..Len(F) : F[p].skill_label # s
    <3> TAKE p \in i..Len(F)
    <3>1. /\ p \in j..Len(R) - 1 /\ p + 1 \in i..Len(T) - 1
          /\ (p + 1) + 1 \in i + 1..Len(T)
      BY <1>6, <1>10, <2>8
    <3>2. F[p] = R[p + 1] BY <2>8, <3>1
    <3>3. R[p + 1] = T[(p + 1) + 1] BY <1>10, <3>1
    <3> QED BY <1>2, <3>1, <3>2, <3>3
  <2>11. Len(F) >= i - 1 BY <1>6, <1>10, <2>4, <2>8
  <2>12. Walked(F, open, s, i) BY <2>7, <2>8, <2>9, <2>10, <2>11 DEF Walked
  <2> QED BY <1>8, <1>13, <2>12
<1> QED BY <1>12, <1>13

WalkStep(U, s, i) == IF U[i].skill_label = s THEN Turn!Forget(U, i) ELSE U

IsWalk(g, T, s, n) ==
    /\ g = [k \in 0..n |-> g[k]]
    /\ \A k \in 0..n : g[k] = IF k = 0 THEN T ELSE WalkStep(g[k - 1], s, Len(T) + 1 - k)

LEMMA WalkExists ==
    ASSUME NEW T, NEW s
    PROVE  \A n \in Nat : \E g : IsWalk(g, T, s, n)
<1> DEFINE S == {n \in Nat : ~ \E g : IsWalk(g, T, s, n)}
<1> SUFFICES ASSUME S # {} PROVE FALSE
  OBVIOUS
<1>1. PICK n \in S : \A m \in S : n <= m BY Least
<1>2. n # 0
  <2>1. IsWalk([k \in 0..0 |-> T], T, s, 0) BY DEF IsWalk
  <2> QED BY <2>1
<1>3. PICK g : IsWalk(g, T, s, n - 1)
  <2>1. n - 1 \in Nat /\ n - 1 \notin S BY <1>1, <1>2
  <2> QED BY <2>1
<1> DEFINE h == [k \in 0..n |-> IF k < n THEN g[k] ELSE WalkStep(g[n - 1], s, Len(T) + 1 - n)]
<1>4. \A k \in 0..n : h[k] = IF k = 0 THEN T ELSE WalkStep(h[k - 1], s, Len(T) + 1 - k)
  <2> TAKE k \in 0..n
  <2>1. CASE k = n
    <3>1. k - 1 \in 0..n /\ k - 1 < n BY <1>2, <2>1
    <3>2. h[k - 1] = g[n - 1] BY <2>1, <3>1
    <3> QED BY <1>2, <2>1, <3>2
  <2>2. CASE k < n
    <3>1. k \in 0..n - 1 /\ h[k] = g[k] BY <2>2
    <3>2. k # 0 => k - 1 \in 0..n - 1 /\ h[k - 1] = g[k - 1] BY <2>2
    <3> QED BY <1>3, <3>1, <3>2 DEF IsWalk
  <2> QED BY <2>1, <2>2
<1>5. h = [k \in 0..n |-> h[k]] OBVIOUS
<1>6. IsWalk(h, T, s, n) BY <1>4, <1>5 DEF IsWalk
<1> QED BY <1>6

LEMMA UnloadIs ==
    ASSUME NEW T, Len(T) \in Nat, NEW s
    PROVE  \E g : /\ g[0] = T /\ Turn!Unload(T, s) = g[Len(T)]
                  /\ \A k \in 1..Len(T) : g[k] = WalkStep(g[k - 1], s, Len(T) + 1 - k)
<1> DEFINE n == Len(T)
           P(g) == g = [k \in 0..n |->
                          IF k = 0 THEN T
                          ELSE LET i == n + 1 - k
                               IN IF g[k - 1][i].skill_label = s THEN Turn!Forget(g[k - 1], i)
                                  ELSE g[k - 1]]
           W == CHOOSE g : P(g)
<1>1. PICK g : IsWalk(g, T, s, n) BY WalkExists
<1>2. P(g)
  <2>1. \A k \in 0..n :
           g[k] = IF k = 0 THEN T
                  ELSE LET i == n + 1 - k
                       IN IF g[k - 1][i].skill_label = s THEN Turn!Forget(g[k - 1], i)
                          ELSE g[k - 1]
    BY <1>1 DEF WalkStep, IsWalk
  <2>2. g = [k \in 0..n |-> g[k]] BY <1>1 DEF IsWalk
  <2> HIDE DEF n
  <2> QED BY <2>1, <2>2
<1>3. P(W) BY <1>2
<1>4. Turn!Unload(T, s) = W[n] BY DEF Turn!Unload
<1> HIDE DEF W
<1>5. \A k \in 0..n : W[k] = IF k = 0 THEN T ELSE WalkStep(W[k - 1], s, n + 1 - k)
  BY <1>3 DEF WalkStep
<1>6. 0 \in 0..n /\ \A k \in 1..n : k \in 0..n /\ k # 0 OBVIOUS
<1> QED BY <1>4, <1>5, <1>6

LEMMA OneStepBack ==
    ASSUME NEW U, NEW open \in Seq(Turn!ToolCalls), Len(open) # 0, NEW s, s # Turn!None,
           NEW i \in Nat, i # 0, Walked(U, open, s, i + 1)
    PROVE  Walked(WalkStep(U, s, i), open, s, i)
<1>1. U \in Seq(Turn!Entries) /\ Len(U) >= i /\ (\A p \in 1..Len(U) : Tagged(U[p]))
      /\ (\A p \in i + 1..Len(U) : U[p].skill_label # s) /\ InPairs(U, open) /\ Waits(U, open)
  <2>1. Len(U) >= i + 1 - 1 BY DEF Walked
  <2>2. Len(U) \in Nat BY TranscriptIs DEF Walked
  <2>3. Len(U) >= i BY <2>1, <2>2
  <2> QED BY <2>3 DEF Walked
<1>2. Len(U) \in Nat /\ i \in 1..Len(U)
  <2>1. Len(U) \in Nat BY <1>1
  <2> QED BY <1>1, <2>1
<1>3. CASE U[i].skill_label = s
  <2>1. U[i].role = "tool" BY <1>1, <1>2, <1>3 DEF Tagged
  <2> QED BY <1>1, <1>2, <1>3, <2>1, ForgetOne DEF WalkStep
<1>4. CASE U[i].skill_label # s
  <2>1. \A p \in i..Len(U) : p = i \/ p \in i + 1..Len(U) BY <1>2
  <2>2. \A p \in i..Len(U) : U[p].skill_label # s BY <1>1, <1>4, <2>1
  <2>3. Len(U) >= i - 1 BY <1>1, <1>2
  <2> QED BY <1>1, <1>4, <2>2, <2>3 DEF WalkStep, Walked
<1> QED BY <1>3, <1>4

\* Unloading a skill, mid-turn: the transcript is still paired, and nothing is labelled
\* with the skill any more.
LEMMA UnloadRight ==
    ASSUME NEW T \in Seq(Turn!Entries), NEW open \in Seq(Turn!ToolCalls), Len(open) # 0,
           NEW s, s # Turn!None, InPairs(T, open), Waits(T, open),
           \A p \in 1..Len(T) : Tagged(T[p])
    PROVE  Walked(Turn!Unload(T, s), open, s, 1)
<1> DEFINE n == Len(T)
<1>1. n \in Nat OBVIOUS
<1>2. PICK g : /\ g[0] = T /\ Turn!Unload(T, s) = g[n]
               /\ \A k \in 1..n : g[k] = WalkStep(g[k - 1], s, n + 1 - k)
  <2>1. \E g : /\ g[0] = T /\ Turn!Unload(T, s) = g[Len(T)]
               /\ \A k \in 1..Len(T) : g[k] = WalkStep(g[k - 1], s, Len(T) + 1 - k)
    BY ONLY <1>1, UnloadIs
  <2> QED BY ONLY <2>1
<1>3. Walked(T, open, s, n + 1)
  <2>1. Len(T) >= n + 1 - 1 /\ n + 1..Len(T) = {} BY <1>1
  <2> QED BY <2>1 DEF Walked
<1> HIDE DEF n
<1> DEFINE Good(k) == Walked(g[k], open, s, n + 1 - k)
           Wrong == {k \in 0..n : ~Good(k)}
<1>4. Wrong = {}
  <2> HIDE DEF Good
  <2> SUFFICES ASSUME Wrong # {} PROVE FALSE
    OBVIOUS
  <2>1. Wrong \subseteq Nat OBVIOUS
  <2>2. PICK k \in Wrong : \A l \in Wrong : k <= l BY <2>1, Least
  <2>3. Good(0)
    <3>1. n + 1 - 0 = n + 1 BY <1>1
    <3> QED BY <1>2, <1>3, <3>1 DEF Good
  <2>4. k \in 1..n /\ k - 1 \in 0..n BY <1>1, <2>2, <2>3
  <2>5. Good(k - 1)
    <3>1. k - 1 \notin Wrong BY <2>2, <2>4
    <3> QED BY <2>4, <3>1
  <2>6. PICK i \in Nat : i = n + 1 - k /\ i # 0 /\ n + 1 - (k - 1) = i + 1 BY <1>1, <2>4
  <2>7. Walked(g[k - 1], open, s, i + 1) BY <2>5, <2>6 DEF Good
  <2>8. Walked(WalkStep(g[k - 1], s, i), open, s, i) BY <2>6, <2>7, OneStepBack
  <2>9. Good(k) BY <1>2, <2>4, <2>6, <2>8 DEF Good
  <2> QED BY <2>2, <2>9
<1>5. Good(n) /\ n + 1 - n = 1
  <2> HIDE DEF Good
  <2> QED BY <1>1, <1>4
<1> QED BY <1>2, <1>5

LEMMA OneMore ==
    ASSUME NEW T \in Seq(Turn!Entries), NEW m \in Turn!Entries
    PROVE  /\ Append(T, m) \in Seq(Turn!Entries) /\ Len(Append(T, m)) = Len(T) + 1
           /\ \A p \in 1..Len(T) : Append(T, m)[p] = T[p]
           /\ Append(T, m)[Len(T) + 1] = m
OBVIOUS

\* What the model says opens its calls.
LEMMA SaidPairs ==
    ASSUME NEW T \in Seq(Turn!Entries), NEW none \in Seq(Turn!ToolCalls), Len(none) = 0,
           InPairs(T, none), NEW m \in Turn!Entries, m.role # "tool",
           Len(m.tool_calls) # 0 => m.role = "assistant"
    PROVE  InPairs(Append(T, m), m.tool_calls) /\ Waits(Append(T, m), m.tool_calls)
<1> DEFINE A == Append(T, m)
           n == Len(T)
           w == Len(m.tool_calls)
           k(p) == Len(T[p].tool_calls)
<1>1. n \in Nat /\ w \in Nat /\ \A p \in 1..n : k(p) \in Nat BY TranscriptIs, MessageParts
<1>2. Len(A) = n + 1 /\ (\A p \in 1..n : A[p] = T[p]) /\ A[n + 1] = m BY OneMore
<1>3. \A p \in 1..n : p + k(p) <= n
  <2> TAKE p \in 1..n
  <2>1. p + k(p) > n => p + k(p) = n + 0 BY DEF InPairs
  <2>2. PICK kp \in Nat : kp = k(p) BY <1>1
  <2>3. p + kp > n => p + kp = n + 0 BY <2>1, <2>2
  <2>4. p + kp <= n BY <1>1, <2>3
  <2> QED BY <2>2, <2>4
<1>4. \A p \in 1..n : /\ k(p) # 0 => T[p].role = "assistant"
                      /\ \A l \in 1..k(p) : p + l <= n =>
                            T[p + l].role = "tool" /\ T[p + l].call = T[p].tool_calls[l]
                      /\ T[p].role = "tool" => \E q \in 1..p - 1 : p - q <= k(q)
  BY DEF InPairs
<1>w. w = Len(m.tool_calls) OBVIOUS
<1> HIDE DEF A, n, w
<1>5. ASSUME NEW p \in 1..n
      PROVE  /\ Len(A[p].tool_calls) # 0 => A[p].role = "assistant"
             /\ \A l \in 1..Len(A[p].tool_calls) : p + l <= n + 1 =>
                   A[p + l].role = "tool" /\ A[p + l].call = A[p].tool_calls[l]
             /\ ~(p + Len(A[p].tool_calls) > n + 1)
             /\ A[p].role = "tool" => \E q \in 1..p - 1 : p - q <= Len(A[q].tool_calls)
  <2>1. A[p] = T[p] BY <1>2
  <2>2. ASSUME NEW l \in 1..k(p)
        PROVE  A[p + l].role = "tool" /\ A[p + l].call = T[p].tool_calls[l]
    <3>1. p + l \in 1..n /\ p + l <= n
      <4>1. PICK kp \in Nat : kp = k(p) BY <1>1
      <4>2. p + kp <= n /\ l \in 1..kp BY <1>3, <4>1
      <4> QED BY <1>1, <4>2
    <3> QED BY <1>2, <1>4, <3>1
  <2>3. ~(p + k(p) > n + 1)
    <3>1. PICK kp \in Nat : kp = k(p) BY <1>1
    <3>2. p + kp <= n BY <1>3, <3>1
    <3>3. ~(p + kp > n + 1) BY <1>1, <3>2
    <3> QED BY <3>1, <3>3
  <2>4. ASSUME T[p].role = "tool" PROVE \E q \in 1..p - 1 : p - q <= Len(A[q].tool_calls)
    <3>1. PICK q \in 1..p - 1 : p - q <= k(q) BY <1>4, <2>4
    <3>2. q \in 1..n BY <1>1
    <3> QED BY <1>2, <3>1, <3>2
  <2> QED BY <1>4, <2>1, <2>2, <2>3, <2>4
<1>6. /\ Len(A[n + 1].tool_calls) = w /\ (w # 0 => A[n + 1].role = "assistant")
      /\ A[n + 1].role # "tool" /\ (\A l \in 1..w : ~(n + 1 + l <= n + 1))
      /\ n + 1 + w > n + 1 => n + 1 + w = n + 1 + w
  BY <1>1, <1>2, <1>w
<1>7. \A p \in 1..n + 1 : p \in 1..n \/ p = n + 1 BY <1>1
<1>8. \A p \in 1..n + 1 :
         /\ Len(A[p].tool_calls) # 0 => A[p].role = "assistant"
         /\ \A l \in 1..Len(A[p].tool_calls) : p + l <= n + 1 =>
               A[p + l].role = "tool" /\ A[p + l].call = A[p].tool_calls[l]
         /\ p + Len(A[p].tool_calls) > n + 1 => p + Len(A[p].tool_calls) = n + 1 + w
         /\ A[p].role = "tool" => \E q \in 1..p - 1 : p - q <= Len(A[q].tool_calls)
  <2> TAKE p \in 1..n + 1
  <2>1. CASE p \in 1..n BY <1>5, <2>1
  <2>2. CASE p = n + 1 BY <1>6, <2>2
  <2> QED BY <1>7, <2>1, <2>2
<1>9. InPairs(A, m.tool_calls)
  <2>1. \A p \in 1..Len(A) :
           /\ Len(A[p].tool_calls) # 0 => A[p].role = "assistant"
           /\ \A l \in 1..Len(A[p].tool_calls) : p + l <= Len(A) =>
                 A[p + l].role = "tool" /\ A[p + l].call = A[p].tool_calls[l]
           /\ p + Len(A[p].tool_calls) > Len(A) =>
                 p + Len(A[p].tool_calls) = Len(A) + Len(m.tool_calls)
           /\ A[p].role = "tool" => \E q \in 1..p - 1 : p - q <= Len(A[q].tool_calls)
    BY <1>2, <1>8, <1>w
  <2> QED BY ONLY <2>1 DEF InPairs
<1>10. /\ n + 1 \in 1..n + 1 /\ n + 1 + Len(A[n + 1].tool_calls) = n + 1 + w
       /\ \A l \in 1..w : A[n + 1].tool_calls[w - w + l] = m.tool_calls[l]
  <2>1. \A l \in 1..w : w - w + l = l BY <1>1
  <2> QED BY <1>1, <1>2, <1>6, <2>1
<1>11. Waits(A, m.tool_calls)
  <2>1. n + 1 = Len(A) BY <1>2
  <2>2. /\ Len(A) \in 1..Len(A)
        /\ Len(A) + Len(A[Len(A)].tool_calls) = Len(A) + Len(m.tool_calls)
        /\ \A l \in 1..Len(m.tool_calls) :
              A[Len(A)].tool_calls[Len(A[Len(A)].tool_calls) - Len(m.tool_calls) + l]
                = m.tool_calls[l]
    BY <1>6, <1>10, <1>w, <2>1
  <2> QED BY ONLY <2>2 DEF Waits
<1> QED BY <1>9, <1>11 DEF A

\* InPairs at p, in a transcript of n messages whose calls end at e.
Spot(T, n, e, p) ==
    /\ Len(T[p].tool_calls) # 0 => T[p].role = "assistant"
    /\ \A l \in 1..Len(T[p].tool_calls) :
          p + l <= n => T[p + l].role = "tool" /\ T[p + l].call = T[p].tool_calls[l]
    /\ p + Len(T[p].tool_calls) > n => p + Len(T[p].tool_calls) = e
    /\ T[p].role = "tool" => \E q \in 1..p - 1 : p - q <= Len(T[q].tool_calls)

LEMMA SpotsArePairs ==
    ASSUME NEW T, NEW open, \A p \in 1..Len(T) : Spot(T, Len(T), Len(T) + Len(open), p)
    PROVE  InPairs(T, open)
BY DEF Spot, InPairs

RestOf(rest, open) ==
    Len(rest) = Len(open) - 1 /\ \A x \in 1..Len(open) - 1 : rest[x] = open[x + 1]

\* A result closes the call at the head of those that are open.
LEMMA ResultPairs ==
    ASSUME NEW T \in Seq(Turn!Entries), NEW open \in Seq(Turn!ToolCalls), Len(open) # 0,
           InPairs(T, open), Waits(T, open), NEW m \in Turn!Entries,
           m.role = "tool", Len(m.tool_calls) = 0, m.call = open[1],
           NEW rest, RestOf(rest, open)
    PROVE  InPairs(Append(T, m), rest) /\ Waits(Append(T, m), rest)
<1> DEFINE A == Append(T, m)
           n == Len(T)
           w == Len(open)
           k(p) == Len(T[p].tool_calls)
           h(p) == Len(A[p].tool_calls)
<1>1. n \in Nat /\ w \in Nat /\ w # 0 /\ \A p \in 1..n : k(p) \in Nat BY TranscriptIs
<1>2. Len(A) = n + 1 /\ (\A p \in 1..n : A[p] = T[p]) /\ A[n + 1] = m BY OneMore
<1>3. \A p \in 1..n : p + k(p) > n => p + k(p) = n + w BY DEF InPairs
<1>4. \A p \in 1..n : /\ k(p) # 0 => T[p].role = "assistant"
                      /\ \A l \in 1..k(p) : p + l <= n =>
                            T[p + l].role = "tool" /\ T[p + l].call = T[p].tool_calls[l]
                      /\ T[p].role = "tool" => \E q \in 1..p - 1 : p - q <= k(q)
  BY DEF InPairs
<1>5. PICK o \in 1..n : /\ o + k(o) = n + w
                        /\ \A x \in 1..w : T[o].tool_calls[k(o) - w + x] = open[x]
  BY <1>1 DEF Waits
<1>6. Len(rest) = w - 1 /\ \A x \in 1..w - 1 : rest[x] = open[x + 1] BY DEF RestOf
<1>7. (\A p \in 1..n : h(p) = k(p)) /\ h(n + 1) = 0 BY <1>2
<1>8. m.role = "tool" /\ m.call = open[1] OBVIOUS
<1>h. \A p \in 1..n + 1 : Len(A[p].tool_calls) = h(p) OBVIOUS
<1> HIDE DEF A, n, w, k, h
<1>o. PICK ko \in Nat : ko = k(o) BY <1>1
<1>b. o + ko = n + w /\ o \in 1..n BY <1>5, <1>o
<1>9. ASSUME NEW p \in 1..n, p + k(p) > n PROVE p = o
  <2>1. PICK kp \in Nat : kp = k(p) BY <1>1
  <2>2. p + kp = n + w BY <1>3, <1>9, <2>1
  <2>3. CASE p < o
    <3>1. o - p \in 1..kp /\ p + (o - p) = o /\ o <= n BY <1>1, <1>b, <2>2, <2>3
    <3>2. T[o].role = "tool" BY <1>4, <2>1, <3>1
    <3>3. ko # 0 BY <1>1, <1>b
    <3> QED BY <1>4, <1>b, <1>o, <3>2, <3>3
  <2>4. CASE o < p
    <3>1. p - o \in 1..ko /\ o + (p - o) = p /\ p <= n BY <1>1, <1>b, <2>2, <2>4
    <3>2. T[p].role = "tool" BY <1>4, <1>b, <1>o, <3>1
    <3>3. kp # 0 BY <1>1, <2>2
    <3> QED BY <1>4, <2>1, <3>2, <3>3
  <2> QED BY <2>3, <2>4
<1>10. ASSUME NEW p \in 1..n
       PROVE  /\ h(p) # 0 => A[p].role = "assistant"
              /\ \A l \in 1..h(p) : p + l <= n + 1 =>
                    A[p + l].role = "tool" /\ A[p + l].call = A[p].tool_calls[l]
              /\ p + h(p) > n + 1 => p + h(p) = n + 1 + (w - 1)
              /\ A[p].role = "tool" => \E q \in 1..p - 1 : p - q <= h(q)
  <2>1. A[p] = T[p] /\ h(p) = k(p) BY <1>2, <1>7
  <2>k. PICK kp \in Nat : kp = k(p) BY <1>1
  <2>2. ASSUME NEW l \in 1..k(p), p + l <= n + 1
        PROVE  A[p + l].role = "tool" /\ A[p + l].call = T[p].tool_calls[l]
    <3>0. l \in 1..kp BY <2>k
    <3>1. CASE p + l <= n
      <4>1. p + l \in 1..n BY <1>1, <3>1
      <4> QED BY <1>2, <1>4, <3>1, <4>1
    <3>2. CASE p + l = n + 1
      <4>1. p + kp > n BY <1>1, <3>0, <3>2
      <4>2. p = o BY <1>9, <2>k, <4>1
      <4>3. l = ko - w + 1 /\ 1 \in 1..w
        <5>1. kp = ko BY <1>o, <2>k, <4>2
        <5> QED BY <1>1, <1>b, <3>2, <4>2
      <4>4. T[p].tool_calls[l] = open[1] BY <1>5, <1>o, <4>2, <4>3
      <4>5. A[p + l] = m BY <1>2, <3>2
      <4> QED BY <1>8, <4>4, <4>5
    <3>3. p + l <= n + 1 BY <2>2
    <3>4. p + l <= n \/ p + l = n + 1 BY <1>1, <3>0, <3>3
    <3> QED BY <3>1, <3>2, <3>4
  <2>3. p + h(p) > n + 1 => p + h(p) = n + 1 + (w - 1)
    <3>1. p + kp > n => p + kp = n + w BY <1>3, <2>k
    <3>2. p + kp > n + 1 => p + kp = n + 1 + (w - 1) BY <1>1, <3>1
    <3> QED BY <2>1, <2>k, <3>2
  <2>4. ASSUME T[p].role = "tool" PROVE \E q \in 1..p - 1 : p - q <= h(q)
    <3>1. PICK q \in 1..p - 1 : p - q <= k(q) BY <1>4, <2>4
    <3>2. q \in 1..n BY <1>1
    <3> QED BY <1>7, <3>1, <3>2
  <2> QED BY <1>4, <2>1, <2>2, <2>3, <2>4
<1>11. /\ h(n + 1) = 0 /\ (\A l \in 1..h(n + 1) : FALSE) /\ ~(n + 1 + h(n + 1) > n + 1)
       /\ \E q \in 1..n + 1 - 1 : n + 1 - q <= h(q)
  <2>1. o \in 1..n + 1 - 1 /\ n + 1 - o <= ko /\ ~(n + 1 + 0 > n + 1) BY <1>1, <1>b
  <2>2. h(o) = ko BY <1>7, <1>b, <1>o
  <2>3. \A l \in 1..0 : FALSE OBVIOUS
  <2> QED BY <1>7, <2>1, <2>2, <2>3
<1>a. PICK N \in Nat : N = n + 1
  <2>1. n + 1 \in Nat BY <1>1
  <2> QED BY <2>1
<1>e. PICK e \in Nat : e = n + 1 + (w - 1)
  <2>1. n + 1 + (w - 1) \in Nat BY <1>1
  <2> QED BY <2>1
<1>12. N = n + 1 /\ e = n + 1 + (w - 1) /\ N - 1 = n BY <1>1, <1>a, <1>e
<1>n. N = Len(A) /\ n + 1 = Len(A) /\ w - 1 = Len(rest) /\ e = Len(A) + Len(rest)
  BY <1>2, <1>6, <1>12
<1>13. InPairs(A, rest)
  <2>1. ASSUME NEW p \in 1..n PROVE Spot(A, N, e, p)
    <3>1. p + h(p) > N => p + h(p) = e BY <1>10, <1>12
    <3>2. \A l \in 1..h(p) :
             p + l <= N => A[p + l].role = "tool" /\ A[p + l].call = A[p].tool_calls[l]
      BY <1>10, <1>12
    <3> QED BY <1>10, <3>1, <3>2 DEF Spot, h
  <2>2. Spot(A, N, e, N)
    <3>1. h(N) = 0 BY <1>11, <1>12
    <3>2. \E q \in 1..N - 1 : N - q <= h(q) BY <1>11, <1>12
    <3>3. ~(N + h(N) > N) /\ \A l \in 1..h(N) : FALSE BY <3>1
    <3> QED BY <3>1, <3>2, <3>3 DEF Spot, h
  <2>3. \A p \in 1..N : p \in 1..n \/ p = N BY <1>1, <1>12
  <2>4. \A p \in 1..Len(A) : Spot(A, Len(A), Len(A) + Len(rest), p)
    BY <1>n, <2>1, <2>2, <2>3
  <2> QED BY <2>4, SpotsArePairs
<1>14. /\ o \in 1..n + 1 /\ o + h(o) = n + 1 + (w - 1)
       /\ \A x \in 1..w - 1 : A[o].tool_calls[h(o) - (w - 1) + x] = rest[x]
  <2>1. o \in 1..n + 1 /\ o + ko = n + 1 + (w - 1) BY <1>1, <1>b
  <2>2. h(o) = ko /\ A[o] = T[o] BY <1>2, <1>7, <1>b, <1>o
  <2>3. \A x \in 1..w - 1 : ko - (w - 1) + x = ko - w + (x + 1) /\ x + 1 \in 1..w BY <1>1
  <2>4. \A x \in 1..w - 1 : T[o].tool_calls[ko - (w - 1) + x] = open[x + 1]
    BY <1>5, <1>o, <2>3
  <2> QED BY <1>6, <2>1, <2>2, <2>4
<1>15. Waits(A, rest)
  <2>1. /\ o \in 1..Len(A) /\ o + Len(A[o].tool_calls) = Len(A) + Len(rest)
        /\ \A x \in 1..Len(rest) :
              A[o].tool_calls[Len(A[o].tool_calls) - Len(rest) + x] = rest[x]
    BY <1>14, <1>n DEF h
  <2> QED BY ONLY <2>1 DEF Waits
<1> QED BY <1>13, <1>15 DEF A

\* The transcript of the part "turn", and what it waits for.
TurnPairs ==
    /\ v1 \in Seq(Turn!Entries) /\ v2 \in Seq(Turn!ToolCalls)
    /\ InPairs(v1, v2) /\ Waits(v1, v2) /\ \A p \in 1..Len(v1) : Tagged(v1[p])

\* And the rest of it.
TurnRest ==
    /\ v3 \in {"idle", "step", "model", "tools"}
    /\ v4 \in 0..MaxSteps /\ v5 \in 0..MaxTurns /\ v6 \in 0..v7 /\ v7 \in Nat
    /\ Len(v2) <= MaxReply /\ (v2 # <<>>) = (v3 = "tools")
    /\ v8 \in Turn!Names \cup {Turn!None} /\ Turn!UnloadForgetsAll

LEMMA TurnIs == Turn!IInv <=> TurnPairs /\ TurnRest
<1>1. ASSUME Turn!IInv PROVE TurnPairs /\ TurnRest
  <2>1. v1 \in Seq(Turn!Entries) /\ v2 \in Seq(Turn!ToolCalls) /\ Turn!Paired(v1, v2)
        /\ Turn!Labelled(v1)
    BY <1>1 DEF Turn!IInv
  <2>2. TurnPairs BY <2>1, PairedIs, LabelledIs DEF TurnPairs
  <2> QED BY <1>1, <2>2 DEF Turn!IInv, Turn!TypeOK, TurnRest
<1>2. ASSUME TurnPairs, TurnRest PROVE Turn!IInv
  <2>1. Turn!Paired(v1, v2) /\ Turn!Labelled(v1) BY <1>2, PairedIs, LabelledIs DEF TurnPairs
  <2> QED BY <1>2, <2>1 DEF Turn!IInv, Turn!TypeOK, TurnRest, TurnPairs
<1> QED BY <1>1, <1>2

LEMMA TurnIsNext == TurnPairs' /\ TurnRest' => Turn!IInv'
BY TurnIs, PTL

\* The messages there are.
LEMMA MessagesAre ==
    /\ Turn!User \in Turn!Entries /\ Turn!User.role = "user" /\ Turn!User.tool_calls = <<>>
    /\ Tagged(Turn!User)
    /\ \A cs \in Seq(Turn!ToolCalls), says \in BOOLEAN :
          LET m == Turn!Assistant(cs, says)
          IN m \in Turn!Entries /\ m.role = "assistant" /\ m.tool_calls = cs /\ Tagged(m)
    /\ \A c \in Turn!ToolCalls, l, o \in Turn!Names \cup {Turn!None} :
          LET m == Turn!ToolResult(c, l, o)
          IN /\ m \in Turn!Entries /\ m.role = "tool" /\ m.tool_calls = <<>> /\ m.call = c
             /\ m.of = o /\ m.skill_label = l
<1> DEFINE Cs == Seq(Turn!ToolCalls)
           Labels == Turn!Names \cup {Turn!None}
           Cl == Turn!ToolCalls \cup {Turn!Call(Turn!None, Turn!None)}
<1>1. <<>> \in Cs /\ Turn!None \in Labels /\ Turn!Call(Turn!None, Turn!None) \in Cl
      /\ Turn!ToolCalls \subseteq Cl
  OBVIOUS
<1>2. Turn!Entries =
        [role : {"user", "assistant", "tool"}, tool_calls : Cs, call : Cl,
         skill_label : Labels, of : Labels, content : BOOLEAN]
  BY DEF Turn!Entries
<1> HIDE DEF Cs, Labels, Cl
<1>4. Turn!User \in Turn!Entries /\ Turn!User.role = "user" /\ Turn!User.tool_calls = <<>>
      /\ Tagged(Turn!User)
  BY <1>1, <1>2 DEF Turn!User, Turn!Message, Tagged, Held, Turn!Tellable
<1>5. ASSUME NEW cs \in Cs, NEW says \in BOOLEAN
      PROVE  LET m == Turn!Assistant(cs, says)
             IN m \in Turn!Entries /\ m.role = "assistant" /\ m.tool_calls = cs /\ Tagged(m)
  BY <1>1, <1>2 DEF Turn!Assistant, Turn!Message, Tagged, Held, Turn!Tellable
<1>6. ASSUME NEW c \in Turn!ToolCalls, NEW l \in Labels, NEW o \in Labels
      PROVE  LET m == Turn!ToolResult(c, l, o)
             IN /\ m \in Turn!Entries /\ m.role = "tool" /\ m.tool_calls = <<>> /\ m.call = c
                /\ m.of = o /\ m.skill_label = l
  BY <1>1, <1>2 DEF Turn!ToolResult, Turn!Message
<1> QED BY <1>4, <1>5, <1>6 DEF Cs, Labels

\* The label of a text that names a directory with no other one's name in it is its
\* skill's; and of any text, a skill's or none.
LEMMA LabelIs ==
    /\ \A s \in Turn!Names : Turn!Plain(s) => Turn!LabelForText({s}) = s
    /\ \A named : Turn!LabelForText(named) \in Turn!Names \cup {Turn!None}
<1> DEFINE S(named) ==
        {i \in DOMAIN Skills : \/ Skills[i] \in named
                               \/ \E s \in named : <<Skills[i], s>> \in Within}
<1>1. ASSUME NEW named
      PROVE  IF S(named) = {} THEN Turn!LabelForText(named) = Turn!None
             ELSE \E i \in S(named) : Turn!LabelForText(named) = Skills[i]
  <2>1. DOMAIN Skills \subseteq Nat
    <3>1. PICK X : Skills \in Seq(X) BY TurnsAssumption
    <3>2. DOMAIN Skills = 1..Len(Skills) /\ Len(Skills) \in Nat BY <3>1
    <3> QED BY <3>2
  <2>2. S(named) \subseteq Nat BY <2>1
  <2>3. Turn!LabelForText(named) =
          IF S(named) = {} THEN Turn!None
          ELSE Skills[CHOOSE i \in S(named) : \A j \in S(named) : i <= j]
    BY DEF Turn!LabelForText
  <2> HIDE DEF S
  <2>4. S(named) # {} => \E i \in S(named) : \A j \in S(named) : i <= j BY <2>2, Least
  <2> QED BY <2>3, <2>4
<1>2. \A named : \A i \in S(named) : Skills[i] \in Turn!Names BY DEF Turn!Names
<1>3. ASSUME NEW s \in Turn!Names, Turn!Plain(s)
      PROVE  S({s}) # {} /\ \A i \in S({s}) : Skills[i] = s
  BY <1>3 DEF Turn!Names, Turn!Plain
<1> HIDE DEF S
<1> QED BY <1>1, <1>2, <1>3

LEMMA NoCalls == /\ \A T : Len(T) = 0 => InPairs(T, <<>>) /\ \A p \in 1..Len(T) : Tagged(T[p])
                 /\ \A T : Waits(T, <<>>) /\ <<>> \in Seq(Turn!ToolCalls) /\ Len(<<>>) = 0
<1>1. ASSUME NEW T, Len(T) = 0 PROVE InPairs(T, <<>>) /\ \A p \in 1..Len(T) : Tagged(T[p])
  BY <1>1 DEF InPairs
<1>2. \A T : Waits(T, <<>>) BY DEF Waits
<1> QED BY <1>1, <1>2

LEMMA TurnInit == ASSUME Turn!Init PROVE Turn!IInv
<1>1. /\ v1 = <<>> /\ v2 = <<>> /\ v3 = "idle" /\ v4 = 0 /\ v5 = 0 /\ v6 = 0 /\ v7 = 0
      /\ v8 = Turn!None
  BY DEF Turn!Init
<1>2. v1 \in Seq(Turn!Entries) /\ Len(v1) = 0 BY <1>1
<1>3. TurnPairs BY <1>1, <1>2, NoCalls DEF TurnPairs
<1>4. TurnRest BY <1>1, TurnsAssumption DEF TurnRest, Turn!UnloadForgetsAll
<1> QED BY <1>3, <1>4, TurnIs

LEMMA ForgottenIsNext ==
    ASSUME v1' \in Seq(Turn!Entries),
           v8' # Turn!None => \A p \in 1..Len(v1') : Held(v1'[p]) # v8'
    PROVE  Turn!UnloadForgetsAll'
BY TranscriptIs DEF Turn!UnloadForgetsAll, Held

\* A message that is not a result is put behind T.
LEMMA TurnSays ==
    ASSUME NEW T \in Seq(Turn!Entries), InPairs(T, <<>>), \A p \in 1..Len(T) : Tagged(T[p]),
           v8 # Turn!None => \A p \in 1..Len(T) : Held(T[p]) # v8,
           NEW m \in Turn!Entries, m.role # "tool", Tagged(m),
           Len(m.tool_calls) # 0 => m.role = "assistant",
           v1' = Append(T, m), v2' = m.tool_calls, UNCHANGED v8
    PROVE  TurnPairs' /\ Turn!UnloadForgetsAll'
<1>1. InPairs(v1', v2') /\ Waits(v1', v2') BY SaidPairs, NoCalls
<1>2. /\ v1' \in Seq(Turn!Entries) /\ Len(v1') = Len(T) + 1 /\ Len(T) \in Nat
      /\ (\A p \in 1..Len(T) : v1'[p] = T[p]) /\ v1'[Len(T) + 1] = m
  BY OneMore, TranscriptIs
<1>3. \A p \in 1..Len(v1') : p \in 1..Len(T) \/ p = Len(T) + 1 BY <1>2
<1>4. \A p \in 1..Len(v1') : Tagged(v1'[p])
  <2> TAKE p \in 1..Len(v1')
  <2>1. CASE p \in 1..Len(T) BY <1>2, <2>1
  <2>2. CASE p = Len(T) + 1 BY <1>2, <2>2
  <2> QED BY <1>3, <2>1, <2>2
<1>5. v2' \in Seq(Turn!ToolCalls) BY MessageParts
<1>6. TurnPairs' BY <1>1, <1>2, <1>4, <1>5 DEF TurnPairs
<1>7. Held(m) = Turn!None BY DEF Tagged, Held
<1>8. v8' # Turn!None => \A p \in 1..Len(v1') : Held(v1'[p]) # v8'
  <2> SUFFICES ASSUME v8 # Turn!None, NEW p \in 1..Len(v1') PROVE Held(v1'[p]) # v8
    OBVIOUS
  <2>1. CASE p \in 1..Len(T) BY <1>2, <2>1
  <2>2. CASE p = Len(T) + 1 BY <1>2, <1>7, <2>2
  <2> QED BY <1>3, <2>1, <2>2
<1> QED BY <1>2, <1>6, <1>8, ForgottenIsNext

\* A result is put behind T.
LEMMA TurnResult ==
    ASSUME v2 \in Seq(Turn!ToolCalls), v2 # <<>>, NEW T \in Seq(Turn!Entries),
           InPairs(T, v2), Waits(T, v2), \A p \in 1..Len(T) : Tagged(T[p]),
           v8' # Turn!None => \A p \in 1..Len(T) : Held(T[p]) # v8',
           NEW m \in Turn!Entries, m.role = "tool", Len(m.tool_calls) = 0, Tagged(m),
           m.call = Head(v2), v8' # Turn!None => Held(m) # v8',
           v1' = Append(T, m), v2' = Tail(v2)
    PROVE  TurnPairs' /\ Turn!UnloadForgetsAll'
<1>1. /\ Len(v2) \in Nat /\ Len(v2) # 0 /\ Head(v2) = v2[1] /\ v2' \in Seq(Turn!ToolCalls)
      /\ Len(v2') = Len(v2) - 1 /\ \A x \in 1..Len(v2) - 1 : v2'[x] = v2[x + 1]
  OBVIOUS
<1>2. RestOf(v2', v2) BY <1>1 DEF RestOf
<1>3. InPairs(v1', v2') /\ Waits(v1', v2') BY <1>1, <1>2, ResultPairs
<1>4. /\ v1' \in Seq(Turn!Entries) /\ Len(v1') = Len(T) + 1 /\ Len(T) \in Nat
      /\ (\A p \in 1..Len(T) : v1'[p] = T[p]) /\ v1'[Len(T) + 1] = m
  BY OneMore, TranscriptIs
<1>5. \A p \in 1..Len(v1') : p \in 1..Len(T) \/ p = Len(T) + 1 BY <1>4
<1>6. \A p \in 1..Len(v1') : Tagged(v1'[p])
  <2> TAKE p \in 1..Len(v1')
  <2>1. CASE p \in 1..Len(T) BY <1>4, <2>1
  <2>2. CASE p = Len(T) + 1 BY <1>4, <2>2
  <2> QED BY <1>5, <2>1, <2>2
<1>7. TurnPairs' BY <1>1, <1>3, <1>4, <1>6 DEF TurnPairs
<1>8. v8' # Turn!None => \A p \in 1..Len(v1') : Held(v1'[p]) # v8'
  <2> SUFFICES ASSUME v8' # Turn!None, NEW p \in 1..Len(v1') PROVE Held(v1'[p]) # v8'
    OBVIOUS
  <2>1. CASE p \in 1..Len(T) BY <1>4, <2>1
  <2>2. CASE p = Len(T) + 1 BY <1>4, <2>2
  <2> QED BY <1>5, <2>1, <2>2
<1> QED BY <1>4, <1>7, <1>8, ForgottenIsNext

LEMMA TurnPairsStay == TurnPairs /\ TurnRest /\ UNCHANGED <<v1, v2, v8>>
                          => TurnPairs' /\ Turn!UnloadForgetsAll'
BY DEF TurnPairs, TurnRest, Turn!UnloadForgetsAll

LEMMA SavedIds ==
    ASSUME TurnRest, NEW keep \in BOOLEAN, Turn!Save(keep)
    PROVE  v6' \in 0..v7' /\ v7' \in Nat
<1>1. v7 \in Nat /\ v6 \in 0..v7 BY DEF TurnRest
<1>2. CASE UNCHANGED <<v6, v7>> BY <1>1, <1>2
<1>3. CASE /\ v7' = IF v6 = 0 THEN v7 + 1 ELSE v7
           /\ v6' = IF v6 = 0 /\ keep THEN v7 + 1 ELSE v6
  BY <1>1, <1>3
<1> QED BY <1>2, <1>3 DEF Turn!Save

\* The results a turn puts behind its transcript.
LEMMA TurnCalls ==
    ASSUME TurnPairs, TurnRest, Turn!Refused \/ Turn!Executed
    PROVE  TurnPairs' /\ Turn!UnloadForgetsAll' /\ v8' \in Turn!Names \cup {Turn!None}
<1> DEFINE c == Head(v2)
<1>1. v3 = "tools" /\ v2' = Tail(v2) BY DEF Turn!Refused, Turn!Executed, Turn!Advance
<1>2. v2 \in Seq(Turn!ToolCalls) /\ v2 # <<>> BY <1>1 DEF TurnPairs, TurnRest
<1>3. c \in Turn!ToolCalls BY <1>2
<1> HIDE DEF c
<1>4. Len(v2) # 0 BY <1>2
<1>5. Turn!None \in Turn!Names \cup {Turn!None} OBVIOUS
<1>6. \A l, o \in Turn!Names \cup {Turn!None} :
         LET m == Turn!ToolResult(c, l, o)
         IN /\ m \in Turn!Entries /\ m.role = "tool" /\ Len(m.tool_calls) = 0 /\ m.call = c
            /\ m.of = o /\ m.skill_label = l
  <2> TAKE l, o \in Turn!Names \cup {Turn!None}
  <2> DEFINE m == Turn!ToolResult(c, l, o)
  <2>1. /\ m \in Turn!Entries /\ m.role = "tool" /\ m.tool_calls = <<>> /\ m.call = c
        /\ m.of = o /\ m.skill_label = l
    BY <1>3, MessagesAre
  <2> HIDE DEF m
  <2>2. Len(m.tool_calls) = 0 BY <2>1
  <2> QED BY <2>1, <2>2 DEF m
<1>7. ASSUME NEW T \in Seq(Turn!Entries), InPairs(T, v2), Waits(T, v2),
             \A p \in 1..Len(T) : Tagged(T[p]),
             v8' # Turn!None => \A p \in 1..Len(T) : Held(T[p]) # v8',
             NEW l \in Turn!Names \cup {Turn!None}, NEW o \in Turn!Names \cup {Turn!None},
             v8' # Turn!None => o = Turn!None,
             o = Turn!None \/ (c.tool = "load" /\ l = o)
                \/ (c.tool \in Turn!Reads /\ o = c.skill /\ l = Turn!SkillLabelFor(c)),
             v1' = Append(T, Turn!ToolResult(c, l, o))
      PROVE  TurnPairs' /\ Turn!UnloadForgetsAll'
  <2> DEFINE m == Turn!ToolResult(c, l, o)
  <2>1. /\ m \in Turn!Entries /\ m.role = "tool" /\ Len(m.tool_calls) = 0 /\ m.call = c
        /\ m.of = o /\ m.skill_label = l
    BY <1>6
  <2>2. v1' = Append(T, m) BY <1>7
  <2> HIDE DEF m
  <2>3. ASSUME Held(m) # Turn!None PROVE Held(m) = l
    <3>1. Turn!Tellable(m) /\ Held(m) = o BY <2>1, <2>3 DEF Held
    <3>2. \/ c.tool = "load"
          \/ c.tool = "read" /\ Turn!Plain(o)
      BY <2>1, <3>1 DEF Turn!Tellable
    <3>3. CASE c.tool = "read" /\ Turn!Plain(o)
      <4>1. o = c.skill /\ l = Turn!SkillLabelFor(c) BY <1>7, <2>3, <3>1, <3>3
      <4>2. Turn!SkillLabelFor(c) = Turn!LabelForText({c.skill}) BY <3>3 DEF Turn!SkillLabelFor
      <4>3. o \in Turn!Names BY <2>3, <3>1
      <4> QED BY <3>1, <3>3, <4>1, <4>2, <4>3, LabelIs
    <3>4. CASE c.tool = "load" BY <1>7, <2>3, <3>1, <3>4 DEF Turn!Reads
    <3> QED BY <3>2, <3>3, <3>4
  <2>4. Tagged(m) BY <2>1, <2>3 DEF Tagged
  <2>5. v8' # Turn!None => Held(m) # v8'
    <3>1. o = Turn!None => Held(m) = Turn!None BY <2>1 DEF Held
    <3> QED BY <1>7, <3>1
  <2>6. m.call = Head(v2) BY <2>1 DEF c
  <2> QED BY <1>1, <1>2, <1>7, <2>1, <2>2, <2>4, <2>5, <2>6, TurnResult
<1>8. /\ v1 \in Seq(Turn!Entries) /\ InPairs(v1, v2) /\ Waits(v1, v2)
      /\ \A p \in 1..Len(v1) : Tagged(v1[p])
  BY DEF TurnPairs
<1>9. CASE Turn!Refused
  <2>1. v1' = Append(v1, Turn!ToolResult(c, Turn!None, Turn!None)) /\ v8' = Turn!None
    BY <1>9 DEF Turn!Refused, c
  <2> QED BY <1>5, <1>7, <1>8, <2>1
<1>10. CASE Turn!Executed
  <2> DEFINE T == IF c.tool = "unload" THEN Turn!Unload(v1, c.skill) ELSE v1
             of == IF c.tool \in {"load"} \cup Turn!Reads THEN c.skill ELSE Turn!None
  <2>1. /\ v8' = IF c.tool = "unload" THEN c.skill ELSE Turn!None
        /\ \/ v1' = Append(T, Turn!ToolResult(c, Turn!SkillLabelFor(c), of))
           \/ v1' = Append(T, Turn!ToolResult(c, Turn!None, Turn!None))
           \/ v1' = Append(T, Turn!ToolResult(c, Turn!SkillLabelFor(c), Turn!None))
    BY <1>10 DEF Turn!Executed, c
  <2>2. /\ c.tool \in {"load", "unload", "read", "inside"} => c.skill \in Turn!Names
        /\ c.tool \in {"load", "unload", "read", "inside", "other"}
    BY <1>3 DEF Turn!ToolCalls, Turn!Call, Turn!Reads
  <2>3. \A s \in Turn!Names : s # Turn!None
    BY TurnsAssumption DEF Turn!Names, Turn!None
  <2>4. Turn!SkillLabelFor(c) \in Turn!Names \cup {Turn!None}
    BY <2>2, LabelIs DEF Turn!SkillLabelFor
  <2>5. of \in Turn!Names \cup {Turn!None} BY <2>2 DEF Turn!Reads
  <2>6. /\ T \in Seq(Turn!Entries) /\ InPairs(T, v2) /\ Waits(T, v2)
        /\ (\A p \in 1..Len(T) : Tagged(T[p]))
        /\ v8' # Turn!None => \A p \in 1..Len(T) : Held(T[p]) # v8'
    <3>1. CASE c.tool = "unload"
      <4>1. c.skill \in Turn!Names /\ c.skill # Turn!None BY <2>2, <2>3, <3>1
      <4>2. T = Turn!Unload(v1, c.skill) /\ v8' = c.skill BY <2>1, <3>1
      <4> HIDE DEF T
      <4>3. Walked(T, v2, c.skill, 1) BY <1>2, <1>4, <1>8, <4>1, <4>2, UnloadRight
      <4>4. \A p \in 1..Len(T) : Tagged(T[p]) /\ T[p].skill_label # c.skill
        BY <4>3 DEF Walked
      <4>5. \A p \in 1..Len(T) : Held(T[p]) # v8' BY <4>1, <4>2, <4>4 DEF Tagged
      <4> QED BY <4>3, <4>4, <4>5 DEF Walked
    <3>2. CASE c.tool # "unload"
      <4>1. T = v1 /\ v8' = Turn!None BY <2>1, <3>2
      <4> QED BY <1>8, <4>1
    <3> QED BY <3>1, <3>2
  <2>7. v8' # Turn!None => of = Turn!None BY <2>1 DEF Turn!Reads
  <2>8. v8' \in Turn!Names \cup {Turn!None} BY <2>1, <2>2
  <2>9. of = Turn!None \/ (c.tool = "load" /\ Turn!SkillLabelFor(c) = of)
           \/ (c.tool \in Turn!Reads /\ of = c.skill)
    BY DEF Turn!SkillLabelFor
  <2> HIDE DEF T, of
  <2>10. CASE v1' = Append(T, Turn!ToolResult(c, Turn!SkillLabelFor(c), of))
    BY <1>7, <2>4, <2>5, <2>6, <2>7, <2>8, <2>9, <2>10
  <2>11. CASE v1' = Append(T, Turn!ToolResult(c, Turn!None, Turn!None))
    BY <1>5, <1>7, <2>6, <2>8, <2>11
  <2>12. CASE v1' = Append(T, Turn!ToolResult(c, Turn!SkillLabelFor(c), Turn!None))
    BY <1>5, <1>7, <2>4, <2>6, <2>8, <2>12
  <2> QED BY <2>1, <2>8, <2>10, <2>11, <2>12
<1> QED BY <1>5, <1>9, <1>10 DEF Turn!Refused

\* What the model or the person says.
LEMMA TurnSaid ==
    ASSUME TurnPairs, TurnRest, v3 # "tools",
           \/ Turn!RunTurn \/ Turn!Summarize \/ Turn!Answers \/ Turn!AsksForTools
    PROVE  TurnPairs' /\ Turn!UnloadForgetsAll'
<1>1. v2 = <<>> /\ v1 \in Seq(Turn!Entries) /\ InPairs(v1, <<>>)
      /\ \A p \in 1..Len(v1) : Tagged(v1[p])
  BY DEF TurnPairs, TurnRest
<1>2. v8 # Turn!None => \A p \in 1..Len(v1) : Held(v1[p]) # v8
  BY <1>1, TranscriptIs DEF TurnRest, Turn!UnloadForgetsAll, Held
<1>3. UNCHANGED v8
  BY DEF Turn!RunTurn, Turn!Summarize, Turn!Answers, Turn!AsksForTools
<1>4. \A cs : cs = <<>> => Len(cs) = 0 OBVIOUS
<1>5. CASE Turn!RunTurn
  <2>1. v1' = Append(v1, Turn!User) /\ v2' = <<>> BY <1>1, <1>5 DEF Turn!RunTurn
  <2>2. PICK m \in Turn!Entries : m = Turn!User BY MessagesAre
  <2>3. v1' = Append(v1, m) /\ v2' = m.tool_calls /\ m.role # "tool" /\ Tagged(m)
        /\ Len(m.tool_calls) = 0
    BY <1>4, <2>1, <2>2, MessagesAre
  <2> QED BY <1>1, <1>2, <1>3, <2>3, TurnSays
<1>6. CASE Turn!Summarize
  <2>1. v2' = <<>> /\ (v1' = <<Turn!User>> \/ UNCHANGED v1) BY <1>1, <1>6 DEF Turn!Summarize
  <2>2. CASE UNCHANGED v1 BY <1>1, <1>3, <2>1, <2>2, TurnPairsStay
  <2>3. CASE v1' = <<Turn!User>>
    <3>1. PICK m \in Turn!Entries : m = Turn!User BY MessagesAre
    <3>2. PICK T \in Seq(Turn!Entries) : T = <<>>
      <4>1. <<>> \in Seq(Turn!Entries) OBVIOUS
      <4> QED BY <4>1
    <3>3. v1' = Append(T, m) BY <2>3, <3>1, <3>2
    <3>4. v2' = m.tool_calls /\ m.role # "tool" /\ Tagged(m) /\ Len(m.tool_calls) = 0
      BY <1>4, <2>1, <3>1, MessagesAre
    <3>5. Len(T) = 0 /\ 1..Len(T) = {} BY <3>2
    <3>6. InPairs(T, <<>>) BY <3>5, NoCalls
    <3> QED BY <1>3, <3>3, <3>4, <3>5, <3>6, TurnSays
  <2> QED BY <2>1, <2>2, <2>3
<1>7. ASSUME NEW cs \in Seq(Turn!ToolCalls), NEW says \in BOOLEAN,
             v1' = Append(v1, Turn!Assistant(cs, says)), v2' = cs
      PROVE  TurnPairs' /\ Turn!UnloadForgetsAll'
  <2> DEFINE m == Turn!Assistant(cs, says)
  <2>1. m \in Turn!Entries /\ m.role = "assistant" /\ m.tool_calls = cs /\ Tagged(m)
    BY MessagesAre
  <2>2. v1' = Append(v1, m) BY <1>7
  <2> HIDE DEF m
  <2>3. m.role # "tool" /\ v2' = m.tool_calls BY <1>7, <2>1
  <2> QED BY <1>1, <1>2, <1>3, <2>1, <2>2, <2>3, TurnSays
<1>8. CASE Turn!Answers
  <2>1. v1' = Append(v1, Turn!Assistant(<<>>, TRUE)) /\ v2' = <<>> BY <1>1, <1>8 DEF Turn!Answers
  <2>2. <<>> \in Seq(Turn!ToolCalls) OBVIOUS
  <2> QED BY <1>7, <2>1, <2>2
<1>9. CASE Turn!AsksForTools
  <2>1. \E n \in 1..MaxReply : \E cs \in [1..n -> Turn!ToolCalls] : \E says \in BOOLEAN :
           v2' = cs /\ v1' = Append(v1, Turn!Assistant(cs, says))
    BY <1>9 DEF Turn!AsksForTools
  <2>2. \A n \in 1..MaxReply : [1..n -> Turn!ToolCalls] \subseteq Seq(Turn!ToolCalls)
    <3> TAKE n \in 1..MaxReply
    <3>1. n \in Nat BY TurnsAssumption
    <3> QED BY <3>1
  <2> QED BY <1>7, <2>1, <2>2
<1> QED BY <1>5, <1>6, <1>8, <1>9

\* No step of a turn breaks the pairs.
LEMMA TurnStep == ASSUME Turn!IInv, [Turn!Next]_(Turn!vars) PROVE Turn!IInv'
<1>1. TurnPairs /\ TurnRest BY TurnIs
<1>2. /\ v3 \in {"idle", "step", "model", "tools"}
      /\ v4 \in 0..MaxSteps /\ v5 \in 0..MaxTurns /\ v6 \in 0..v7 /\ v7 \in Nat
      /\ Len(v2) <= MaxReply /\ (v2 # <<>>) = (v3 = "tools")
      /\ v8 \in Turn!Names \cup {Turn!None}
  BY <1>1 DEF TurnRest
<1>3. {MaxSteps, MaxTurns, MaxReply} \subseteq Nat BY TurnsAssumption
<1>4. v2 \in Seq(Turn!ToolCalls) BY <1>1 DEF TurnPairs
<1>5. CASE UNCHANGED Turn!vars
  <2>1. UNCHANGED <<v1, v2, v3, v4, v5, v6, v7, v8>> BY <1>5 DEF Turn!vars
  <2>2. TurnPairs' /\ Turn!UnloadForgetsAll' BY <1>1, <2>1, TurnPairsStay
  <2>3. TurnRest' BY <1>2, <2>1, <2>2 DEF TurnRest
  <2> QED BY <2>2, <2>3, TurnIsNext
<1>6. CASE Turn!RunTurn
  <2>1. /\ v3 = "idle" /\ v5 < MaxTurns /\ v5' = v5 + 1 /\ v4' = 0 /\ v3' = "step"
        /\ UNCHANGED <<v2, v6, v7, v8>>
    BY <1>6 DEF Turn!RunTurn
  <2>2. TurnPairs' /\ Turn!UnloadForgetsAll' BY <1>1, <1>6, <2>1, TurnSaid
  <2>3. v5' \in 0..MaxTurns /\ v4' \in 0..MaxSteps BY <1>2, <1>3, <2>1
  <2>4. TurnRest' BY <1>2, <2>1, <2>2, <2>3 DEF TurnRest
  <2> QED BY <2>2, <2>4, TurnIsNext
<1>7. CASE Turn!Summarize
  <2>1. /\ v3 = "step" /\ v4 < MaxSteps /\ v4' = v4 + 1 /\ v3' = "model"
        /\ UNCHANGED <<v2, v5, v6, v7, v8>>
    BY <1>7 DEF Turn!Summarize
  <2>2. TurnPairs' /\ Turn!UnloadForgetsAll' BY <1>1, <1>7, <2>1, TurnSaid
  <2>3. v4' \in 0..MaxSteps BY <1>2, <1>3, <2>1
  <2>4. TurnRest' BY <1>2, <2>1, <2>2, <2>3 DEF TurnRest
  <2> QED BY <2>2, <2>4, TurnIsNext
<1>8. CASE Turn!ModelFails \/ Turn!StepLimit
  <2>1. /\ v3 \in {"model", "step"} /\ v3' = "idle" /\ UNCHANGED <<v1, v2, v4, v5, v8>>
        /\ (Turn!Save(FALSE) \/ Turn!Save(TRUE))
    BY <1>8 DEF Turn!ModelFails, Turn!StepLimit
  <2>2. TurnPairs' /\ Turn!UnloadForgetsAll' BY <1>1, <2>1, TurnPairsStay
  <2>3. v6' \in 0..v7' /\ v7' \in Nat
    <3>1. FALSE \in BOOLEAN /\ TRUE \in BOOLEAN OBVIOUS
    <3> QED BY <1>1, <2>1, <3>1, SavedIds
  <2>4. TurnRest' BY <1>2, <2>1, <2>2, <2>3 DEF TurnRest
  <2> QED BY <2>2, <2>4, TurnIsNext
<1>9. CASE Turn!Answers
  <2>1. v3 = "model" /\ v3' = "idle" /\ Turn!Save(TRUE) /\ UNCHANGED <<v2, v4, v5, v8>>
    BY <1>9 DEF Turn!Answers
  <2>2. TurnPairs' /\ Turn!UnloadForgetsAll' BY <1>1, <1>9, <2>1, TurnSaid
  <2>3. v6' \in 0..v7' /\ v7' \in Nat
    <3>1. TRUE \in BOOLEAN OBVIOUS
    <3> QED BY <1>1, <2>1, <3>1, SavedIds
  <2>4. TurnRest' BY <1>2, <2>1, <2>2, <2>3 DEF TurnRest
  <2> QED BY <2>2, <2>4, TurnIsNext
<1>10. CASE Turn!AsksForTools
  <2>1. /\ v3 = "model" /\ v3' = "tools" /\ UNCHANGED <<v4, v5, v6, v7, v8>>
        /\ \E n \in 1..MaxReply : v2' \in [1..n -> Turn!ToolCalls]
    BY <1>10 DEF Turn!AsksForTools
  <2>2. TurnPairs' /\ Turn!UnloadForgetsAll' BY <1>1, <1>10, <2>1, TurnSaid
  <2>3. v2' # <<>> /\ Len(v2') <= MaxReply
    <3>1. PICK n \in 1..MaxReply : v2' \in [1..n -> Turn!ToolCalls] BY <2>1
    <3>2. n \in Nat /\ n # 0 /\ n <= MaxReply BY <1>3, <3>1
    <3>3. Len(v2') = n BY <3>1, <3>2
    <3> QED BY <3>2, <3>3
  <2>4. TurnRest' BY <1>2, <2>1, <2>2, <2>3 DEF TurnRest
  <2> QED BY <2>2, <2>4, TurnIsNext
<1>11. CASE Turn!Refused \/ Turn!Executed
  <2>1. /\ v3 = "tools" /\ v2' = Tail(v2) /\ v3' = (IF Len(v2) = 1 THEN "step" ELSE "tools")
        /\ UNCHANGED <<v4, v5, v6, v7>>
    BY <1>11 DEF Turn!Refused, Turn!Executed, Turn!Advance
  <2>2. TurnPairs' /\ Turn!UnloadForgetsAll' /\ v8' \in Turn!Names \cup {Turn!None}
    BY <1>1, <1>11, TurnCalls
  <2>3. Len(v2') <= MaxReply /\ (v2' # <<>>) = (v3' = "tools")
    <3>1. v2 # <<>> BY <1>2, <2>1
    <3>2. Len(v2) \in Nat /\ Len(v2) # 0 /\ Len(v2') = Len(v2) - 1 /\ v2' \in Seq(Turn!ToolCalls)
      BY <1>4, <2>1, <3>1
    <3>3. v2' # <<>> <=> Len(v2') # 0
      <4>1. \A s \in Seq(Turn!ToolCalls) : s # <<>> <=> Len(s) # 0 OBVIOUS
      <4> QED BY <3>2, <4>1
    <3>4. PICK k \in Nat : k = Len(v2) BY <3>2
    <3>5. (k - 1 # 0 <=> k # 1) /\ (k <= MaxReply => k - 1 <= MaxReply) BY <1>3, <3>4
    <3>6. Len(v2') # 0 <=> v3' = "tools" BY <2>1, <3>2, <3>4, <3>5
    <3> QED BY <1>2, <3>2, <3>3, <3>4, <3>5, <3>6
  <2>4. v3' \in {"idle", "step", "model", "tools"} BY <2>1
  <2>5. TurnRest' BY <1>2, <2>1, <2>2, <2>3, <2>4 DEF TurnRest
  <2> QED BY <2>2, <2>5, TurnIsNext
<1>12. CASE Turn!Reset
  <2>1. /\ v3 = "idle" /\ v1' = <<>> /\ v6' = 0 /\ v8' = Turn!None
        /\ UNCHANGED <<v2, v3, v4, v5, v7>>
    BY <1>12 DEF Turn!Reset
  <2>2. v2' = <<>> /\ v1' \in Seq(Turn!Entries) /\ Len(v1') = 0 BY <1>2, <2>1
  <2>3. InPairs(v1', v2') /\ Waits(v1', v2') /\ (\A p \in 1..Len(v1') : Tagged(v1'[p]))
        /\ v2' \in Seq(Turn!ToolCalls)
    BY <2>2, NoCalls
  <2>4. TurnPairs' BY <2>2, <2>3 DEF TurnPairs
  <2>5. TurnRest' BY <1>2, <2>1, <2>2 DEF TurnRest, Turn!UnloadForgetsAll
  <2> QED BY <2>4, <2>5, TurnIsNext
<1> QED BY <1>5, <1>6, <1>7, <1>8, <1>9, <1>10, <1>11, <1>12 DEF Turn!Next

\* Whenever the model is asked, every call has its answer.
LEMMA TurnHolds == ASSUME Turn!IInv PROVE Turn!CallsAreAnswered /\ Turn!UnloadForgetsAll
<1>1. TurnPairs /\ TurnRest BY TurnIs
<1>2. SUFFICES ASSUME v3 = "model", NEW i \in DOMAIN v1
               PROVE  LET j == Turn!Owner(v1, i)
                      IN /\ v1[i].role = "tool" =>
                              /\ j > 0 /\ i - j <= Len(v1[j].tool_calls)
                              /\ v1[j].tool_calls[i - j] = v1[i].call
                         /\ \A k \in 1..Len(v1[i].tool_calls) :
                              i + k <= Len(v1) /\ v1[i + k].role = "tool"
  BY <1>1 DEF Turn!CallsAreAnswered, TurnRest
<1>3. v2 = <<>> /\ v1 \in Seq(Turn!Entries) /\ InPairs(v1, <<>>) /\ <<>> \in Seq(Turn!ToolCalls)
  BY <1>1, <1>2 DEF TurnPairs, TurnRest
<1>4. /\ i \in 1..Len(v1) /\ Len(v1) \in Nat
      /\ \A p \in 1..Len(v1) : Len(v1[p].tool_calls) \in Nat
  BY <1>3, TranscriptIs
<1>5. \A p \in 1..Len(v1) :
         /\ \A m \in 1..Len(v1[p].tool_calls) : p + m <= Len(v1) =>
               v1[p + m].role = "tool" /\ v1[p + m].call = v1[p].tool_calls[m]
         /\ p + Len(v1[p].tool_calls) > Len(v1) => p + Len(v1[p].tool_calls) = Len(v1) + 0
  <2>1. Len(<<>>) = 0 OBVIOUS
  <2> QED BY <1>3, <2>1 DEF InPairs
<1>6. ASSUME v1[i].role = "tool"
      PROVE  LET j == Turn!Owner(v1, i)
             IN /\ j > 0 /\ i - j <= Len(v1[j].tool_calls)
                /\ v1[j].tool_calls[i - j] = v1[i].call
  <2>1. PICK q \in 1..i - 1 : i - q <= Len(v1[q].tool_calls) BY <1>3, <1>4, <1>6 DEF InPairs
  <2>2. Turn!Owner(v1, i) = q BY <1>3, <1>4, <2>1, OwnerIs
  <2>3. q \in 1..Len(v1) /\ q + (i - q) = i /\ i <= Len(v1) BY <1>4
  <2>4. i - q \in 1..Len(v1[q].tool_calls)
    <3>1. PICK k \in Nat : k = Len(v1[q].tool_calls) BY <1>4, <2>3
    <3>2. i - q \in 1..k BY <1>4, <2>1, <3>1
    <3> QED BY <3>1, <3>2
  <2>5. v1[q].tool_calls[i - q] = v1[i].call BY <1>5, <2>3, <2>4
  <2>6. q > 0 BY <2>1
  <2> QED BY <2>1, <2>2, <2>5, <2>6
<1>7. ASSUME NEW k \in 1..Len(v1[i].tool_calls) PROVE i + k <= Len(v1) /\ v1[i + k].role = "tool"
  <2>1. PICK w \in Nat : w = Len(v1[i].tool_calls) BY <1>4
  <2>2. i + w > Len(v1) => i + w = Len(v1) + 0 BY <1>4, <1>5, <2>1
  <2>3. k \in 1..w BY <2>1
  <2>4. i + k <= Len(v1) BY <1>4, <2>2, <2>3
  <2> QED BY <1>4, <1>5, <2>4
<1> QED BY <1>6, <1>7

----------------------------------------------------------------------------
(* The parts together.                                                     *)

SuiteInv ==
    /\ MemoryInv /\ AnswersAreCounted
    /\ part = "sessions" => Sessions!IInv
    /\ part = "locks" => Locks!IInv
    /\ part = "turn" => Turn!IInv
    /\ part = "loading" => Loading!IInv
    /\ part = "catalog" => Catalog!IInv
    /\ part = "bash" => Repl!IInv
    /\ part = "shell" => Shell!IInv
    /\ part = "commands" => BashIndex!IInv
    /\ part = "view" => View!IInv
    /\ part = "m8trixsh" => Trixsh!IInv
    /\ part = "input" => Input!IInv
    /\ part = "terminal" => Terminal!IInv

LEMMA SuiteStarts == PartInit => SuiteInv
<1> SUFFICES ASSUME PartInit PROVE SuiteInv
  OBVIOUS
<1>1. MemoryInv /\ AnswersAreCounted BY MemoryInit, AnswersInit DEF PartInit
<1>2. ASSUME part = "sessions" PROVE Sessions!IInv BY <1>2, SessionsInit DEF PartInit
<1>3. ASSUME part = "locks" PROVE Locks!IInv BY <1>3, LocksInit DEF PartInit
<1>4. ASSUME part = "bash" PROVE Repl!IInv BY <1>4, ReplInit DEF PartInit
<1>5. ASSUME part = "shell" PROVE Shell!IInv BY <1>5, ShellInit DEF PartInit
<1>6. ASSUME part = "view" PROVE View!IInv BY <1>6, ViewInit DEF PartInit
<1>7. ASSUME part = "m8trixsh" PROVE Trixsh!IInv BY <1>7, TrixshInit DEF PartInit
<1>8. ASSUME part = "input" PROVE Input!IInv BY <1>8, InputInit DEF PartInit
<1>9. ASSUME part = "terminal" PROVE Terminal!IInv BY <1>9, TerminalInit DEF PartInit
<1>10. ASSUME part = "turn" PROVE Turn!IInv BY <1>10, TurnInit DEF PartInit
<1>11. ASSUME part = "loading" PROVE Loading!IInv BY <1>11, LoadingInit DEF PartInit
<1>12. ASSUME part = "commands" PROVE BashIndex!IInv BY <1>12, CommandsInit DEF PartInit
<1>13. ASSUME part = "catalog" PROVE Catalog!IInv BY <1>13, CatalogInit DEF PartInit
<1> QED BY <1>1, <1>2, <1>3, <1>4, <1>5, <1>6, <1>7, <1>8, <1>9, <1>10, <1>11, <1>12, <1>13
        DEF SuiteInv

\* What a step of the suite is to each part.
LEMMA SuiteSteps ==
    ASSUME [PartNext]_all
    PROVE  /\ part' = part
           /\ [Next]_vars
           /\ part = "sessions" => [Sessions!Next]_(Sessions!vars)
           /\ part = "locks" => [Locks!Next]_(Locks!vars)
           /\ part = "turn" => [Turn!Next]_(Turn!vars)
           /\ part = "loading" => [Loading!Next]_(Loading!vars)
           /\ part = "catalog" => [Catalog!CatalogNext]_(Catalog!catalogVars)
           /\ part = "bash" => [Repl!Next]_(Repl!vars)
           /\ part = "shell" => [Shell!Next]_(Shell!vars)
           /\ part = "commands" => [BashIndex!IndexNext]_(BashIndex!indexVars)
           /\ part = "view" => [View!Next]_(View!vars)
           /\ part = "m8trixsh" => [Trixsh!Next]_(Trixsh!vars)
           /\ part = "input" => [Input!Next]_(Input!vars)
           /\ part = "terminal" => [Terminal!Next]_(Terminal!vars)
<1>1. CASE UNCHANGED all
  <2>1. UNCHANGED <<part, vars, v1, v2, v3, v4, v5, v6, v7, v8>>
    BY <1>1 DEF all, From1, From3, From4, From6, From7, From8, From9
  <2>2. UNCHANGED From9
    BY <1>1 DEF all, From1, From3, From4, From6, From7, From8
  <2>3. UNCHANGED <<v9, v10, v11, v12, v13, v14, v15, v16, v17>>
    BY <2>2 DEF From9, From10, From13, From14, From16
  <2>4. UNCHANGED Sessions!vars /\ UNCHANGED Locks!vars /\ UNCHANGED Shell!vars
    BY <2>1 DEF Sessions!vars, Locks!vars, Shell!vars
  <2>5. UNCHANGED Repl!vars /\ UNCHANGED Terminal!vars
    BY <2>1, <2>3 DEF Repl!vars, Terminal!vars
  <2>6. UNCHANGED View!vars
    BY <2>1, <2>3
       DEF View!vars, View!treeVars, View!tableVars, View!pointerVars, View!agentVars,
           View!threadVars
  <2>7. UNCHANGED Trixsh!vars
    BY <2>1, <2>3
       DEF Trixsh!vars, Trixsh!promptVars, Trixsh!askVars, Trixsh!turnVars, Trixsh!counters
  <2>8. UNCHANGED Input!vars BY <2>1, <2>3 DEF Input!vars, Input!messageVars
  <2>9. UNCHANGED Turn!vars BY <2>1 DEF Turn!vars
  <2>10. UNCHANGED Loading!vars
    BY <2>1, <2>3 DEF Loading!vars, Loading!loadedVars, Loading!turnVars
  <2>11. UNCHANGED BashIndex!indexVars BY <2>1, <2>3 DEF BashIndex!indexVars
  <2>12. UNCHANGED Catalog!catalogVars BY <2>1 DEF Catalog!catalogVars
  <2> QED BY <2>1, <2>4, <2>5, <2>6, <2>7, <2>8, <2>9, <2>10, <2>11, <2>12
<1>2. CASE part = "memories" /\ Next /\ UNCHANGED part BY <1>2
<1>3. CASE UNCHANGED <<part, vars>> /\ PartNext /\ part # "memories"
  <2>1. /\ part = "sessions" => Sessions!Next
        /\ part = "locks" => Locks!Next
        /\ part = "turn" => Turn!Next
        /\ part = "loading" => Loading!Next
        /\ part = "catalog" => Catalog!CatalogNext
        /\ part = "bash" => Repl!Next
        /\ part = "shell" => Shell!Next
        /\ part = "commands" => BashIndex!IndexNext
        /\ part = "view" => View!Next
        /\ part = "m8trixsh" => Trixsh!Next
        /\ part = "input" => Input!Next
        /\ part = "terminal" => Terminal!Next
    BY <1>3 DEF PartNext, ReplIs, ShellIs
  <2> QED BY <1>3, <2>1
<1> QED BY <1>1, <1>2, <1>3 DEF PartNext, ReplIs, ShellIs

\* Nothing of the memories moves when their variables do not.
LEMMA CountsKept == AnswersAreCounted /\ UNCHANGED vars => AnswersAreCounted'
BY DEF vars, AnswersAreCounted, Answered, Answering

LEMMA SuiteKeepsOn == SuiteInv /\ [PartNext]_all => SuiteInv'
<1> SUFFICES ASSUME SuiteInv, [PartNext]_all PROVE SuiteInv'
  OBVIOUS
<1>1. MemoryInv' BY SuiteSteps, MemoryStep DEF SuiteInv
<1>2. AnswersAreCounted'
  <2>1. CASE UNCHANGED vars BY <2>1, CountsKept DEF SuiteInv
  <2>2. CASE Next BY <2>2, AnswersStep DEF SuiteInv, Next
  <2> QED BY <2>1, <2>2, SuiteSteps
<1>3. ASSUME part = "sessions" PROVE Sessions!IInv' BY <1>3, SuiteSteps, SessionsStep DEF SuiteInv
<1>4. ASSUME part = "locks" PROVE Locks!IInv' BY <1>4, SuiteSteps, LocksStep DEF SuiteInv
<1>5. ASSUME part = "bash" PROVE Repl!IInv' BY <1>5, SuiteSteps, ReplStep DEF SuiteInv
<1>6. ASSUME part = "shell" PROVE Shell!IInv' BY <1>6, SuiteSteps, ShellStep DEF SuiteInv
<1>7. ASSUME part = "view" PROVE View!IInv' BY <1>7, SuiteSteps, ViewStep DEF SuiteInv
<1>8. ASSUME part = "m8trixsh" PROVE Trixsh!IInv' BY <1>8, SuiteSteps, TrixshStep DEF SuiteInv
<1>9. ASSUME part = "input" PROVE Input!IInv' BY <1>9, SuiteSteps, InputStep DEF SuiteInv
<1>10. ASSUME part = "terminal" PROVE Terminal!IInv'
  BY <1>10, SuiteSteps, TerminalStep DEF SuiteInv
<1>11. ASSUME part = "turn" PROVE Turn!IInv' BY <1>11, SuiteSteps, TurnStep DEF SuiteInv
<1>12. ASSUME part = "loading" PROVE Loading!IInv'
  BY <1>12, SuiteSteps, LoadingStep DEF SuiteInv
<1>13. ASSUME part = "commands" PROVE BashIndex!IInv'
  BY <1>13, SuiteSteps, CommandsStep DEF SuiteInv
<1>14. ASSUME part = "catalog" PROVE Catalog!IInv'
  BY <1>14, SuiteSteps, CatalogStep DEF SuiteInv
<1> QED BY <1>1, <1>2, <1>3, <1>4, <1>5, <1>6, <1>7, <1>8, <1>9, <1>10, <1>11, <1>12, <1>13,
           <1>14, SuiteSteps
        DEF SuiteInv

LEMMA SuiteInvariant == PartSpec => []SuiteInv
BY SuiteStarts, SuiteKeepsOn, PTL DEF PartSpec

----------------------------------------------------------------------------
(* What holds for any bounds.                                              *)

\* Every part keeps to its types: no memory was answered more often than there were
\* recalls, the threads of a store and of m8 are where they can be, a pane's view is
\* within its lines.
THEOREM PartsKeepTheirTypes == PartSpec => []Types
<1>1. SuiteInv => Types
  <2> SUFFICES ASSUME SuiteInv PROVE Types
    OBVIOUS
  <2>1. TypeOK BY MemoryTypes DEF SuiteInv
  <2>2. part = "locks" => Locks!TypeOK BY DEF SuiteInv, Locks!IInv
  <2>3. part = "bash" => Repl!TypeOK BY DEF SuiteInv, Repl!IInv
  <2>4. part = "shell" => Shell!TypeOK BY DEF SuiteInv, Shell!IInv
  <2>5. part = "view" => View!TypeOK BY DEF SuiteInv, View!IInv
  <2>6. part = "m8trixsh" => Trixsh!TypeOK BY DEF SuiteInv, Trixsh!IInv
  <2>7. part = "terminal" => Terminal!TypeOK BY DEF SuiteInv, Terminal!IInv
  <2>8. part = "turn" => Turn!TypeOK BY DEF SuiteInv, Turn!IInv
  <2>9. part = "loading" => Loading!TypeOK BY DEF SuiteInv, Loading!IInv
  <2>10. part = "commands" => BashIndex!TypeOK BY CommandsHold DEF SuiteInv
  <2> QED BY <2>1, <2>2, <2>3, <2>4, <2>5, <2>6, <2>7, <2>8, <2>9, <2>10 DEF Types
<1> QED BY <1>1, SuiteInvariant, PTL

\* However many threads use a store, and however its keys share locks: a deferred
\* change reaches the log before anything is lost of it, nobody waits in a circle
\* (vector_store.cpp); however many processes save sessions and die, what latest()
\* loads some store wrote whole (session_store.cpp:143-182); for any agents, widths,
\* memories and recalls, a file has vectors of one width, no recall answers a forgotten
\* memory, and no count is beyond the recalls that returned the memory
\* (memory_store.cpp:218-274, 397-465); for any callers and changes of what is installed,
\* when the worker is through, and nobody has scanned, the index of commands is no older
\* than the search that was served from the cache, and from the exit on no thread writes
\* it (tools_bash_search.cpp:583-617, 700-735).
THEOREM StoresStayTogether == PartSpec => []StoresAgree
<1>1. SuiteInv => StoresAgree
  <2> SUFFICES ASSUME SuiteInv PROVE StoresAgree
    OBVIOUS
  <2>1. ASSUME part = "locks" PROVE Locks!DeferredIsKept /\ Locks!NoCircularWait
    BY <2>1, LocksTurn DEF SuiteInv, Locks!IInv
  <2>2. part = "sessions" => Sessions!LatestIsTheLast BY DEF SuiteInv, Sessions!IInv
  <2>3. MemoriesAreRight BY DEF SuiteInv, MemoryInv
  <2>4. ASSUME part = "commands"
        PROVE  BashIndex!RefreshedBehindTheCaller /\ BashIndex!ExitIsQuiet
    BY <2>4, CommandsHold DEF SuiteInv
  <2> QED BY <2>1, <2>2, <2>3, <2>4 DEF StoresAgree
<1> QED BY <1>1, SuiteInvariant, PTL

\* For any skills, also in each other's directories, calls in a reply, tools, budgets and
\* changes of the registry: whenever the model is asked, every call of the transcript has
\* its own result behind it and no result stands alone, even after a skill was unloaded
\* between two calls of one reply, and of that skill nothing is left that the skill tool
\* loaded or a command read by a directory only it has (skills.cpp:188-221, 281-336,
\* agent.cpp:612-748); what a search or a first use of this turn has loaded is offered at
\* the next step, whatever becomes of its server meanwhile (agent.cpp:201-260, 505-563);
\* for any servers, lists of tools and names they are cleaned up to, the catalog finds
\* every tool by the name it gave it, and by no other's (catalog.cpp:150-190).
THEOREM TurnsStayRight == PartSpec => []TurnsAreRight
<1>1. SuiteInv => TurnsAreRight
  <2> SUFFICES ASSUME SuiteInv PROVE TurnsAreRight
    OBVIOUS
  <2>1. ASSUME part = "turn" PROVE Turn!CallsAreAnswered /\ Turn!UnloadForgetsAll
    BY <2>1, TurnHolds DEF SuiteInv
  <2>2. part = "loading" => Loading!PromiseKept
    BY DEF SuiteInv, Loading!IInv, Loading!PromiseInv
  <2>3. part = "catalog" => Catalog!EveryToolIsFound BY CatalogHolds DEF SuiteInv
  <2> QED BY <2>1, <2>2, <2>3 DEF TurnsAreRight
<1> QED BY <1>1, SuiteInvariant, PTL

\* However many commands are run and shells lost, the agent is told of each loss
\* (bash_repl.cpp); a terminal's shell gets no signal once its pid is free again
\* (shell_session.cpp).
THEOREM ShellsStayAccounted == PartSpec => []ShellsAreAccountedFor
<1>1. SuiteInv => ShellsAreAccountedFor
  BY DEF SuiteInv, ShellsAreAccountedFor, Repl!IInv, Shell!IInv
<1> QED BY <1>1, SuiteInvariant, PTL

\* For any subagents, memory commands, lines, messages and questions: what an event is
\* shown in is there, behind a turn the grid shows none but subagents its save did not
\* wait for (agent_pool.cpp:202-226), and sp's threads end before what they use; the
\* prompt settles on the mode; commands come whole; drafts and answers are the person's.
THEOREM ScreenStaysRight == PartSpec => []ScreenIsRight
<1>1. SuiteInv => ScreenIsRight
  <2> SUFFICES ASSUME SuiteInv PROVE ScreenIsRight
    OBVIOUS
  <2>1. ASSUME part = "view"
        PROVE  View!RoutesAreLive /\ View!GridIsNotStranded /\ View!FrameOutlivesThreads
    BY <2>1 DEF SuiteInv, View!IInv
  <2>2. part = "m8trixsh" => Trixsh!TagSettles BY TrixshTag DEF SuiteInv
  <2>3. part = "terminal" => Terminal!CommandsComeWhole BY DEF SuiteInv, Terminal!IInv
  <2>4. part = "input" => Input!DraftIsKept /\ Input!AnswersItsQuestion
    BY DEF SuiteInv, Input!IInv
  <2> QED BY <2>1, <2>2, <2>3, <2>4 DEF ScreenIsRight
<1> QED BY <1>1, SuiteInvariant, PTL

\* A command of bash_repl is answered by its own end, never by a marker another call
\* left (bash_repl.cpp:335-376); new output does not move what somebody scrolled back
\* to, as long as it is kept (terminal_emulator.cpp); /reset clears the transcript
\* only when no agent works but subagents the save of their turn did not wait for
\* (apps/m8, apps/sp); the tools a turn unloads were all used before those it keeps
\* (catalog.cpp:247-281).
THEOREM StepsAreRight == PartSpec => [][StepIsRight]_all
<1>1. SuiteInv /\ [PartNext]_all => [StepIsRight]_all
  <2> SUFFICES ASSUME SuiteInv, PartNext PROVE StepIsRight
    OBVIOUS
  <2>1. ASSUME part = "bash" PROVE Repl!OutcomeIsOwn
    <3>1. Repl!OutcomeIsOwn \/ UNCHANGED Repl!vars BY <2>1, SuiteSteps, ReplStep DEF SuiteInv
    <3> QED BY <3>1 DEF Repl!vars, Repl!OutcomeIsOwn
  <2>2. ASSUME part = "terminal" PROVE Terminal!ViewStaysPut
    <3>1. Terminal!ViewStaysPut \/ UNCHANGED Terminal!vars
      BY <2>2, SuiteSteps, TerminalStep DEF SuiteInv
    <3>2. ASSUME UNCHANGED Terminal!vars PROVE Terminal!Top' = Terminal!Top
      BY <3>2 DEF Terminal!vars, Terminal!Top
    <3> QED BY <3>1, <3>2 DEF Terminal!ViewStaysPut
  <2>3. ASSUME part = "view" PROVE View!ResetOnlyWhenQuiet
    BY <2>3, SuiteSteps, ViewStep DEF SuiteInv
  <2>4. part = "loading" => Loading!OldestGoFirst BY LoadingOldest DEF SuiteInv
  <2> QED BY <2>1, <2>2, <2>3, <2>4 DEF StepIsRight
<1> QED BY <1>1, SuiteInvariant, PTL DEF PartSpec
=============================================================================
