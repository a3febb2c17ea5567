------------------------ MODULE Conversations_proofs ------------------------
(***************************************************************************)
(* Theorems about Conversations, for any number of exchanges, bodies and   *)
(* capacities: the type invariant; the store is a window on the exchanges  *)
(* that ended last; what it holds is what happened; the model knows the id *)
(* that an exchange is recorded under; the chat API answers what has       *)
(* passed the proxy; an answered exchange is in the history of its         *)
(* conversation.                                                           *)
(***************************************************************************)
EXTENDS Conversations, NumberFacts, SequenceTheorems

Pcs     == {"idle", "requesting", "upstream", "answering", "ended", "cut", "done"}
Answers == {0, 200, 400, 500, 502}

LEMMA ExchangeIs ==
  Exchange = [pc : Pcs, via : {"client", "completions", "models", None}, body : Body, sent : Body,
              conv : Ids \cup {None}, header : {0, 200, 500}, status : {0, 200, 500},
              answer : Answers]
<1>1. Statuses \cup {0} = {0, 200, 500}
  BY DEF Statuses
<1> DEFINE statuses == Statuses \cup {0}
<1>2. statuses = {0, 200, 500}
  BY <1>1
<1>3. Exchange = [pc : Pcs, via : {"client", "completions", "models", None}, body : Body,
                  sent : Body, conv : Ids \cup {None}, header : statuses, status : statuses,
                  answer : Answers]
  BY Zenon DEF Exchange, Pcs, Answers
<1> HIDE DEF statuses
<1>4. QED
  BY <1>2, <1>3

-----------------------------------------------------------------------------
(* Messages and conversation ids.                                          *)

LEMMA IdsDiffer ==
  ASSUME NEW id \in Ids
  PROVE  id # Plain /\ id # NotText /\ id # None
  BY IdAssumption

LEMMA FirstId ==
  ASSUME NEW msgs \in Seq(Message)
  PROVE  FindExistingId(msgs) \in Ids \cup {None}
<1> DEFINE stops == {i \in DOMAIN msgs : msgs[i].system /\ msgs[i].text # Plain}
           least == CHOOSE i \in stops : \A j \in stops : i <= j
<1>1. stops \in SUBSET Nat /\ \A i \in stops : msgs[i] \in Message
  <2>1. DOMAIN msgs = 1..Len(msgs) /\ Len(msgs) \in Nat
    BY LenProperties
  <2>2. \A i \in 1..Len(msgs) : i \in Nat /\ msgs[i] \in Message
    BY <2>1, ElementOfSeq
  <2>3. QED
    BY <2>1, <2>2
<1>2. CASE stops = {}
  BY <1>2 DEF FindExistingId
<1>3. CASE stops # {}
  <2>1. \E i \in stops : \A j \in stops : i <= j
    BY <1>1, <1>3, Least
  <2>2. least \in stops
    BY <2>1
  <2>3. msgs[least].text \in Ids \cup {NotText}
    BY <1>1, <2>2 DEF Message
  <2>4. QED
    BY <1>3, <2>3 DEF FindExistingId
<1>4. QED
  BY <1>2, <1>3

(* A system message with an id, put in front, is what is found.            *)
LEMMA PromptIsFound ==
  ASSUME NEW msgs \in Seq(Message), NEW id \in Ids
  PROVE  /\ <<SystemPrompt(id)>> \o msgs \in Seq(Message)
         /\ FindExistingId(<<SystemPrompt(id)>> \o msgs) = id
<1> DEFINE all == <<SystemPrompt(id)>> \o msgs
           stops == {i \in DOMAIN all : all[i].system /\ all[i].text # Plain}
           least == CHOOSE i \in stops : \A j \in stops : i <= j
<1>1. SystemPrompt(id) \in Message /\ SystemPrompt(id).system /\ SystemPrompt(id).text = id
  BY DEF SystemPrompt, Message
<1>2. <<SystemPrompt(id)>> \in Seq(Message) /\ Len(<<SystemPrompt(id)>>) = 1
      /\ <<SystemPrompt(id)>>[1] = SystemPrompt(id)
  BY <1>1
<1>3. /\ all \in Seq(Message) /\ Len(all) = 1 + Len(msgs) /\ Len(msgs) \in Nat
      /\ all[1] = SystemPrompt(id)
  BY <1>2, ConcatProperties, LenProperties
<1>4. DOMAIN all = 1..Len(all) /\ 1 \in DOMAIN all
  BY <1>3, LenProperties
<1> HIDE DEF all
<1>5. 1 \in stops /\ \A j \in stops : j \in Nat /\ 1 <= j
  BY <1>1, <1>3, <1>4, IdsDiffer
<1>6. least = 1
  <2>1. \E i \in stops : \A j \in stops : i <= j
    BY <1>5
  <2>2. least \in stops /\ \A j \in stops : least <= j
    BY <2>1
  <2>3. QED
    BY <1>5, <2>2
<1>7. FindExistingId(all) = id
  BY <1>1, <1>3, <1>5, <1>6, IdsDiffer DEF FindExistingId
<1>8. QED
  BY <1>3, <1>7 DEF all

(* What is found is the first id that the messages tell.                   *)
LEMMA FoundIsFirst ==
  ASSUME NEW msgs \in Seq(Message), FindExistingId(msgs) # None
  PROVE  TellsFirst(msgs, FindExistingId(msgs))
<1> DEFINE stops == {i \in DOMAIN msgs : msgs[i].system /\ msgs[i].text # Plain}
           least == CHOOSE i \in stops : \A j \in stops : i <= j
<1>1. DOMAIN msgs = 1..Len(msgs) /\ Len(msgs) \in Nat
  BY LenProperties
<1>2. \A i \in 1..Len(msgs) : i \in Nat /\ msgs[i] \in Message
  BY <1>1, ElementOfSeq
<1>3. stops # {}
  BY DEF FindExistingId
<1>4. least \in stops /\ \A j \in stops : least <= j
  <2>1. stops \in SUBSET Nat
    BY <1>1
  <2>2. \E i \in stops : \A j \in stops : i <= j
    BY <1>3, <2>1, Least
  <2>3. QED
    BY <2>2
<1>5. FindExistingId(msgs) = msgs[least].text /\ msgs[least].text # NotText
  BY <1>3 DEF FindExistingId
<1> HIDE DEF least
<1>6. Tells(msgs[least])
  BY <1>1, <1>2, <1>4, <1>5 DEF Message, Tells
<1>7. \A j \in 1..(least - 1) : ~Tells(msgs[j])
  BY <1>1, <1>4, IdsDiffer DEF Tells
<1>8. QED
  BY <1>4, <1>5, <1>6, <1>7 DEF TellsFirst

(* Where every system message is text, an id that is told is found.        *)
LEMMA ToldIsFound ==
  ASSUME NEW msgs \in Seq(Message), FindExistingId(msgs) = None,
         \A i \in DOMAIN msgs : msgs[i].system => msgs[i].text # NotText
  PROVE  \A i \in DOMAIN msgs : ~Tells(msgs[i])
<1> DEFINE stops == {i \in DOMAIN msgs : msgs[i].system /\ msgs[i].text # Plain}
           least == CHOOSE i \in stops : \A j \in stops : i <= j
<1>1. DOMAIN msgs = 1..Len(msgs) /\ Len(msgs) \in Nat
  BY LenProperties
<1>2. \A i \in 1..Len(msgs) : i \in Nat /\ msgs[i] \in Message
  BY <1>1, ElementOfSeq
<1>3. stops = {}
  <2> SUFFICES ASSUME stops # {} PROVE FALSE
    OBVIOUS
  <2> stops \in SUBSET Nat
    BY <1>1
  <2>1. \E i \in stops : \A j \in stops : i <= j
    BY Least
  <2>2. least \in stops
    BY <2>1
  <2>3. FindExistingId(msgs) = IF msgs[least].text = NotText THEN None ELSE msgs[least].text
    BY DEF FindExistingId
  <2> HIDE DEF least
  <2>4. msgs[least].text \in Ids
    BY <1>1, <1>2, <2>2 DEF Message
  <2>5. QED
    BY <2>3, <2>4, IdsDiffer
<1>4. QED
  BY <1>3, IdsDiffer DEF Tells

(* A prompt that is put in front is the first to tell an id, and the only  *)
(* one where the messages behind it tell none.                             *)
LEMMA PromptTells ==
  ASSUME NEW msgs \in Seq(Message), NEW id \in Ids
  PROVE  /\ TellsFirst(<<SystemPrompt(id)>> \o msgs, id)
         /\ (\A i \in DOMAIN msgs : ~Tells(msgs[i]))
              => TellsOnly(<<SystemPrompt(id)>> \o msgs, id)
<1> DEFINE all == <<SystemPrompt(id)>> \o msgs
<1>1. SystemPrompt(id) \in Message /\ Tells(SystemPrompt(id)) /\ SystemPrompt(id).text = id
  BY DEF SystemPrompt, Message, Tells
<1>2. <<SystemPrompt(id)>> \in Seq(Message) /\ Len(<<SystemPrompt(id)>>) = 1
      /\ <<SystemPrompt(id)>>[1] = SystemPrompt(id)
  BY <1>1
<1>3. /\ all \in Seq(Message) /\ Len(all) = 1 + Len(msgs) /\ Len(msgs) \in Nat
      /\ all[1] = SystemPrompt(id) /\ \A i \in 2..Len(all) : all[i] = msgs[i - 1]
  BY <1>2, ConcatProperties, LenProperties
<1>4. DOMAIN all = 1..Len(all) /\ DOMAIN msgs = 1..Len(msgs)
  BY <1>3, LenProperties
<1> HIDE DEF all
<1>5. TellsFirst(all, id)
  <2>1. 1 \in DOMAIN all /\ \A j \in 1..(1 - 1) : ~Tells(all[j])
    BY <1>3, <1>4
  <2>2. QED
    BY <1>1, <1>3, <2>1 DEF TellsFirst
<1>6. ASSUME \A i \in DOMAIN msgs : ~Tells(msgs[i])
      PROVE  TellsOnly(all, id)
  <2> SUFFICES ASSUME NEW i \in DOMAIN all, Tells(all[i]) PROVE all[i].text = id
    BY DEF TellsOnly
  <2>1. CASE i = 1
    BY <1>1, <1>3, <2>1
  <2>2. CASE i # 1
    <3>1. i \in 2..Len(all) /\ i - 1 \in DOMAIN msgs
      BY <1>3, <1>4, <2>2
    <3>2. QED
      BY <1>3, <1>6, <3>1
  <2>3. QED
    BY <2>1, <2>2
<1>7. QED
  BY <1>5, <1>6 DEF all

(* What inject_system_prompt leaves: the id is found again, and told.      *)
Known(body, sent, id) == FindExistingId(sent.msgs) = id /\ Informed(body, sent, id)

LEMMA InjectedIs ==
  ASSUME NEW body \in Body, NEW id \in Ids
  PROVE  LET injected == InjectSystemPrompt(body, id)
         IN /\ injected.body \in Body /\ injected.conv \in Ids
            /\ injected.body.ok => Known(body, injected.body, injected.conv)
<1> DEFINE existing == FindExistingId(body.msgs)
           put == [body EXCEPT !.msgs = <<SystemPrompt(id)>> \o @]
<1>1. body.msgs \in Seq(Message) /\ body.ok \in BOOLEAN /\ existing \in Ids \cup {None}
  BY FirstId DEF Body
<1>2. CASE body.ok /\ existing # None
  <2>1. InjectSystemPrompt(body, id) = [body |-> body, conv |-> existing]
    BY <1>2 DEF InjectSystemPrompt
  <2>2. TellsFirst(body.msgs, existing)
    BY <1>1, <1>2, FoundIsFirst
  <2> HIDE DEF existing
  <2>3. (\E known \in Ids : TellsOnly(body.msgs, known)) => TellsOnly(body.msgs, existing)
    BY <2>2 DEF TellsFirst, TellsOnly
  <2>4. Informed(body, body, existing)
    BY <2>2, <2>3 DEF Informed
  <2>5. Known(body, body, existing)
    BY <2>4 DEF Known, existing
  <2>6. QED
    BY <1>1, <1>2, <2>1, <2>5
<1>3. CASE body.ok /\ existing = None
  <2>1. /\ put \in Body /\ Known(body, put, id)
    <3> DEFINE all == <<SystemPrompt(id)>> \o body.msgs
    <3>1. all \in Seq(Message) /\ FindExistingId(all) = id /\ TellsFirst(all, id)
      BY <1>1, PromptIsFound, PromptTells
    <3>2. (\A i \in DOMAIN body.msgs : body.msgs[i].system => body.msgs[i].text # NotText)
            => TellsOnly(all, id)
      BY <1>1, <1>3, ToldIsFound, PromptTells
    <3>3. put = [body EXCEPT !.msgs = all]
      OBVIOUS
    <3>4. all = <<SystemPrompt(id)>> \o body.msgs
      OBVIOUS
    <3> HIDE DEF all, put
    <3>5. put \in Body /\ put.msgs = all
      BY <1>1, <3>1, <3>3 DEF Body
    <3>6. Informed(body, put, id)
      BY <3>1, <3>2, <3>4, <3>5 DEF Informed
    <3>7. QED
      BY <3>1, <3>5, <3>6 DEF Known
  <2>2. InjectSystemPrompt(body, id) = [body |-> put, conv |-> id]
    BY <1>3 DEF InjectSystemPrompt
  <2> HIDE DEF put
  <2>3. QED
    BY <2>1, <2>2
<1>4. CASE ~body.ok
  <2>1. InjectSystemPrompt(body, id) = [body |-> body, conv |-> id]
    BY <1>4 DEF InjectSystemPrompt
  <2>2. QED
    BY <1>4, <2>1
<1>5. QED
  BY <1>1, <1>2, <1>3, <1>4

LEMMA ChatMessagesType ==
  ASSUME NEW request \in ChatRequests
  PROVE  [ok |-> TRUE, msgs |-> ChatMessages(request)] \in Body
<1> DEFINE system == IF request.system = None THEN <<>>
                     ELSE <<[system |-> TRUE, text |-> request.system]>>
           user == <<[system |-> FALSE, text |-> Plain]>>
<1>1. request.history \in Seq(Message) /\ request.system \in Ids \cup {Plain, NotText, None}
  <2>1. request \in [json : BOOLEAN, system : Ids \cup {Plain, NotText, None},
                     history : Seq(Message)]
    BY ChatAssumption
  <2>2. QED
    BY <2>1
<1>2. system \in Seq(Message)
  <2>1. CASE request.system = None
    BY <2>1, EmptySeq
  <2>2. CASE request.system # None
    <3>1. [system |-> TRUE, text |-> request.system] \in Message
      BY <1>1, <2>2 DEF Message
    <3>2. QED
      BY <2>2, <3>1
  <2>3. QED
    BY <2>1, <2>2
<1>3. user \in Seq(Message)
  BY DEF Message
<1> HIDE DEF system, user
<1>4. system \o request.history \o user \in Seq(Message)
  BY <1>1, <1>2, <1>3, ConcatProperties
<1>5. ChatMessages(request) \in Seq(Message)
  BY <1>4 DEF ChatMessages, system, user
<1>6. QED
  BY <1>5 DEF Body
-----------------------------------------------------------------------------
(* The window of a store on the exchanges that ended.                      *)

Record == [x : Exchanges, conv : Ids, status : {0, 200, 500}, request : Body]

Window(log, past, capacity) ==
  LET kept == IF capacity = 0 THEN 1 ELSE capacity
  IN /\ Len(log) = IF Len(past) < kept THEN Len(past) ELSE kept
     /\ \A i \in 1..Len(log) : log[i].x = past[Len(past) - Len(log) + i]

LEMMA StoreIs == Store = [capacity : Nat, log : Seq(Record)]
<1>1. Statuses \cup {0} = {0, 200, 500}
  BY DEF Statuses
<1>2. QED
  BY <1>1 DEF Store, Record

LEMMA EmptyWindow ==
  ASSUME NEW capacity \in Nat
  PROVE  Window(<<>>, <<>>, capacity)
  BY DEF Window

(* The oldest interaction makes room for the new one.                      *)
LEMMA WindowMoves ==
  ASSUME NEW log \in Seq(Record), log # <<>>, NEW past \in Seq(Exchanges), NEW r \in Record
  PROVE  LET new == Append(Tail(log), r)
         IN /\ new \in Seq(Record) /\ Len(new) = Len(log) /\ new[Len(log)] = r
            /\ \A i \in 1..(Len(log) - 1) : new[i] = log[i + 1]
<1>1. /\ Tail(log) \in Seq(Record) /\ Len(Tail(log)) = Len(log) - 1 /\ Len(log) \in Nat \ {0}
      /\ \A i \in 1..(Len(log) - 1) : Tail(log)[i] = log[i + 1]
  BY HeadTailProperties, LenProperties, EmptySeq
<1>2. LET new == Append(Tail(log), r)
      IN /\ new \in Seq(Record) /\ Len(new) = Len(Tail(log)) + 1 /\ new[Len(Tail(log)) + 1] = r
         /\ \A i \in 1..Len(Tail(log)) : new[i] = Tail(log)[i]
  BY <1>1, AppendProperties
<1>3. QED
  BY <1>1, <1>2

LEMMA WindowGrows ==
  ASSUME NEW T, NEW s \in Seq(T), NEW r \in T
  PROVE  /\ Append(s, r) \in Seq(T) /\ Len(Append(s, r)) = Len(s) + 1 /\ Len(s) \in Nat
         /\ Append(s, r)[Len(s) + 1] = r
         /\ \A i \in 1..Len(s) : Append(s, r)[i] = s[i]
  BY AppendProperties, LenProperties

LEMMA WindowNext ==
  ASSUME NEW log \in Seq(Record), NEW past \in Seq(Exchanges), NEW capacity \in Nat,
         NEW r \in Record, Window(log, past, capacity)
  PROVE  LET new == IF Len(log) >= capacity /\ log # <<>> THEN Append(Tail(log), r)
                                                          ELSE Append(log, r)
         IN new \in Seq(Record) /\ Window(new, Append(past, r.x), capacity)
<1> DEFINE kept == IF capacity = 0 THEN 1 ELSE capacity
           now  == Append(past, r.x)
           moved == Append(Tail(log), r)
           grown == Append(log, r)
<1>1. r.x \in Exchanges /\ kept \in Nat \ {0} /\ Len(log) \in Nat
  BY LenProperties DEF Record
<1>2. /\ now \in Seq(Exchanges) /\ Len(now) = Len(past) + 1 /\ Len(past) \in Nat
      /\ now[Len(past) + 1] = r.x
      /\ \A i \in 1..Len(past) : now[i] = past[i]
  BY <1>1, WindowGrows
<1>3. /\ Len(log) = IF Len(past) < kept THEN Len(past) ELSE kept
      /\ \A i \in 1..Len(log) : log[i].x = past[Len(past) - Len(log) + i]
  BY DEF Window
<1>4. CASE Len(log) >= capacity /\ log # <<>>
  <2>1. /\ moved \in Seq(Record) /\ Len(moved) = Len(log) /\ moved[Len(log)] = r
        /\ \A i \in 1..(Len(log) - 1) : moved[i] = log[i + 1]
    BY <1>4, WindowMoves
  <2>2. Len(log) # 0
    BY <1>4, EmptySeq
  <2> HIDE DEF now, moved
  <2>3. Len(log) = kept /\ Len(past) >= kept
    BY <1>1, <1>2, <1>3, <1>4, <2>2
  <2>4. Len(moved) = IF Len(now) < kept THEN Len(now) ELSE kept
    BY <1>1, <1>2, <2>1, <2>3
  <2>5. ASSUME NEW i \in 1..Len(log)
        PROVE  moved[i].x = now[Len(now) - Len(log) + i]
    <3>1. CASE i = Len(log)
      <4>1. Len(now) - Len(log) + i = Len(past) + 1
        BY <1>1, <1>2, <3>1
      <4>2. QED
        BY <1>2, <2>1, <3>1, <4>1
    <3>2. CASE i # Len(log)
      <4>1. /\ i \in 1..(Len(log) - 1) /\ i + 1 \in 1..Len(log)
            /\ Len(past) - Len(log) + (i + 1) \in 1..Len(past)
            /\ Len(now) - Len(log) + i = Len(past) - Len(log) + (i + 1)
        BY <1>1, <1>2, <2>3, <3>2
      <4>2. moved[i] = log[i + 1] /\ log[i + 1].x = past[Len(past) - Len(log) + (i + 1)]
        BY <1>3, <2>1, <4>1
      <4>3. QED
        BY <1>2, <4>1, <4>2
    <3>3. QED
      BY <3>1, <3>2
  <2>6. Window(moved, now, capacity)
    BY <2>1, <2>4, <2>5 DEF Window
  <2>7. QED
    BY <1>4, <2>1, <2>6 DEF now, moved
<1>5. CASE ~(Len(log) >= capacity /\ log # <<>>)
  <2>1. /\ grown \in Seq(Record) /\ Len(grown) = Len(log) + 1 /\ grown[Len(log) + 1] = r
        /\ \A i \in 1..Len(log) : grown[i] = log[i]
    BY WindowGrows
  <2>2. Len(log) < capacity \/ Len(log) = 0
    BY <1>1, <1>5, EmptySeq
  <2> HIDE DEF now, grown
  <2>3. Len(log) = Len(past) /\ Len(past) + 1 <= kept
    BY <1>1, <1>2, <1>3, <2>2
  <2>4. Len(grown) = IF Len(now) < kept THEN Len(now) ELSE kept
    BY <1>1, <1>2, <2>1, <2>3
  <2>5. ASSUME NEW i \in 1..Len(grown)
        PROVE  grown[i].x = now[Len(now) - Len(grown) + i]
    <3>1. Len(now) - Len(grown) + i = i
      BY <1>1, <1>2, <2>1, <2>3
    <3>2. CASE i = Len(log) + 1
      BY <1>2, <2>1, <2>3, <3>1, <3>2
    <3>3. CASE i # Len(log) + 1
      <4>1. i \in 1..Len(log) /\ Len(past) - Len(log) + i = i
        BY <1>1, <1>2, <2>1, <2>3, <3>3
      <4>2. grown[i] = log[i] /\ log[i].x = past[i] /\ now[i] = past[i]
        BY <1>2, <1>3, <2>1, <2>3, <4>1
      <4>3. QED
        BY <3>1, <4>2
    <3>4. QED
      BY <3>2, <3>3
  <2>6. Window(grown, now, capacity)
    BY <2>4, <2>5 DEF Window
  <2>7. QED
    BY <1>5, <2>1, <2>6 DEF now, grown
<1>6. QED
  BY <1>4, <1>5
-----------------------------------------------------------------------------
(* The inductive invariant.                                                *)

(* What main() has done so far.                                            *)
Booted ==
  /\ boot \in {BootSteps, <<"pipelines">>, <<>>}
  /\ boot # <<>> => ended = <<>> /\ store[feature].log = <<>>
  /\ boot = <<>> => pipeline = feature
  /\ boot # BootSteps /\ env # None => store[feature].capacity = env
  /\ boot = BootSteps => feature = Len(store)

(* An exchange: its header comes with the response, and the status that is *)
(* kept for it is that header; it has an id from its request on, which the *)
(* model is told.                                                          *)
Sound(e) ==
  /\ e.pc \in {"idle", "requesting"} => e.conv = None
  /\ e.pc \in {"idle", "requesting", "upstream"} => e.header = 0 /\ e.status = 0
  /\ e.pc \in {"answering", "ended"} => e.header \in Statuses
  /\ e.pc = "answering" /\ e.conv # None => e.status = e.header
  /\ e.via = "completions" /\ e.pc \in {"upstream", "answering", "ended"} => e.conv # None
  /\ e.conv # None /\ e.sent.ok => Known(e.body, e.sent, e.conv)
  /\ e.answer # 0 => e.pc = "done"

SoundInv == \A x \in Exchanges : Sound(ex[x])

Over(x) == ex[x].pc \in {"ended", "done"}

(* An interaction of the store is that of an exchange that has ended.      *)
Faithful ==
  \A i \in DOMAIN Listed :
    LET e == ex[Listed[i].x]
    IN /\ Over(Listed[i].x)
       /\ Listed[i].request = e.body /\ Listed[i].conv = e.conv
       /\ Listed[i].status = e.header /\ e.header # 0

EndedOnce ==
  /\ \A i \in DOMAIN ended : Over(ended[i])
  /\ \A i, j \in DOMAIN ended : ended[i] = ended[j] => i = j

WindowInv == Window(Listed, ended, store[feature].capacity)

Typed ==
  /\ env \in Capacities
  /\ store \in Seq(Store)
  /\ feature \in DOMAIN store
  /\ pipeline \in {0} \cup DOMAIN store
  /\ ex \in [Exchanges -> Exchange]
  /\ ended \in Seq(Exchanges)

Inv == Typed /\ Booted /\ SoundInv /\ Faithful /\ EndedOnce /\ WindowInv

LEMMA InvImplies ==
  ASSUME Inv
  PROVE  TypeOK /\ WindowOfRecent /\ RecordedAsHappened /\ ModelKnowsConversation
<1>1. TypeOK
  <2>1. boot \in Seq({"env", "pipelines"})
    <3> DEFINE S == {"env", "pipelines"}
    <3>1. <<"env", "pipelines">> \in Seq(S) /\ <<"pipelines">> \in Seq(S)
      OBVIOUS
    <3>2. <<>> \in Seq(S)
      BY EmptySeq
    <3>3. QED
      BY <3>1, <3>2, Zenon DEF Inv, Booted, BootSteps
  <2>2. QED
    BY <2>1 DEF Inv, Typed, TypeOK
<1>2. store[feature] \in Store /\ Listed \in Seq(Record) /\ ended \in Seq(Exchanges)
  <2>1. store[feature] \in Store
    BY ElementOfSeq DEF Inv, Typed
  <2>2. QED
    BY <2>1, StoreIs DEF Listed, Inv, Typed
<1>3. DOMAIN Listed = 1..Len(Listed) /\ DOMAIN ended = 1..Len(ended)
      /\ Len(Listed) \in Nat /\ Len(ended) \in Nat
  BY <1>2, LenProperties
<1>4. /\ Len(Listed) = IF Len(ended) < Kept THEN Len(ended) ELSE Kept
      /\ \A i \in 1..Len(Listed) : Listed[i].x = ended[Len(ended) - Len(Listed) + i]
  BY DEF Inv, WindowInv, Window, Kept
<1>5. Kept \in Nat
  BY <1>2, StoreIs DEF Kept
<1>6. WindowOfRecent
  <2>1. Serving /\ env # None => store[feature].capacity = env
    BY DEF Inv, Booted, Serving, BootSteps
  <2>2. QED
    BY <1>4, <2>1 DEF WindowOfRecent
<1>7. RecordedAsHappened
  <2>1. ASSUME NEW i \in DOMAIN Listed, NEW j \in DOMAIN Listed, Listed[i].x = Listed[j].x
        PROVE  i = j
    <3> DEFINE a == Len(ended) - Len(Listed) + i
               b == Len(ended) - Len(Listed) + j
    <3>1. a \in DOMAIN ended /\ b \in DOMAIN ended
      BY <1>3, <1>4, <1>5
    <3>2. ended[a] = ended[b]
      BY <1>3, <1>4, <2>1
    <3>3. a = b
      BY <3>1, <3>2 DEF Inv, EndedOnce
    <3>4. QED
      BY <1>3, <3>3
  <2>2. \A i \in DOMAIN Listed :
          LET x == Listed[i].x
          IN /\ Listed[i].request = ex[x].body
             /\ Listed[i].status = ex[x].header /\ ex[x].header # 0
             /\ Listed[i].conv = ex[x].conv
    BY DEF Inv, Faithful
  <2>3. QED
    BY <2>1, <2>2 DEF RecordedAsHappened
<1>8. ModelKnowsConversation
  <2> SUFFICES ASSUME NEW x \in Exchanges, ex[x].conv # None, ex[x].sent.ok
               PROVE  /\ Informed(ex[x].body, ex[x].sent, ex[x].conv)
                      /\ InjectSystemPrompt(ex[x].sent, None) = [body |-> ex[x].sent, conv |-> ex[x].conv]
    BY DEF ModelKnowsConversation
  <2>1. Known(ex[x].body, ex[x].sent, ex[x].conv)
    BY DEF Inv, SoundInv, Sound
  <2>2. QED
    BY <2>1 DEF Known, InjectSystemPrompt
<1>9. QED
  BY <1>1, <1>6, <1>7, <1>8

LEMMA InitInv == Init => Inv
<1> SUFFICES ASSUME Init PROVE Inv
  OBVIOUS
<1>1. Default \in Nat /\ Opaque \in Body
  BY CapacityAssumption DEF Opaque, Body
<1>2. NoExchange \in Exchange /\ Sound(NoExchange)
  BY <1>1, ExchangeIs DEF NoExchange, Pcs, Answers, Sound
<1>3. NewStore(Default) \in Store /\ NewStore(Default).log = <<>>
      /\ NewStore(Default).capacity = Default
  BY <1>1, StoreIs DEF NewStore
<1>4. /\ store \in Seq(Store) /\ feature \in DOMAIN store /\ store[feature] = NewStore(Default)
  BY <1>3 DEF Init
<1>5. Typed
  BY <1>2, <1>4 DEF Init, Typed
<1>6. Booted
  BY <1>3, <1>4 DEF Init, Booted, BootSteps
<1>7. SoundInv
  BY <1>2 DEF Init, SoundInv
<1>8. Faithful /\ EndedOnce
  BY <1>3, <1>4 DEF Init, Faithful, EndedOnce, Listed
<1>9. WindowInv
  BY <1>1, <1>3, <1>4, EmptyWindow DEF Init, WindowInv, Listed
<1>10. QED
  BY <1>5, <1>6, <1>7, <1>8, <1>9 DEF Inv
-----------------------------------------------------------------------------
(* Steps that change one exchange, and nothing else.                       *)

(* An exchange that has not ended is in no store; one that has keeps what  *)
(* was recorded.                                                           *)
Follows(x, e) ==
  \/ ~Over(x)
  \/ /\ e.pc \in {"ended", "done"}
     /\ e.body = ex[x].body /\ e.conv = ex[x].conv /\ e.header = ex[x].header

LEMMA ExchangeStep ==
  ASSUME Inv, NEW x \in Exchanges, NEW e \in Exchange, Sound(e), Follows(x, e),
         ex' = [ex EXCEPT ![x] = e],
         UNCHANGED <<boot, env, store, feature, pipeline, ended>>
  PROVE  Inv'
<1>1. ex \in [Exchanges -> Exchange] /\ ended \in Seq(Exchanges) /\ Listed \in Seq(Record)
  <2>1. store[feature] \in Store
    BY ElementOfSeq DEF Inv, Typed
  <2>2. QED
    BY <2>1, StoreIs DEF Listed, Inv, Typed
<1>2. ex'[x] = e /\ \A y \in Exchanges : y # x => ex'[y] = ex[y]
  BY <1>1
<1>3. Listed' = Listed
  BY DEF Listed
<1>4. \A i \in DOMAIN Listed : Listed[i].x \in Exchanges
  <2>1. \A i \in DOMAIN Listed : Listed[i] \in Record
    BY <1>1, ElementOfSeq, LenProperties
  <2>2. QED
    BY <2>1 DEF Record
<1>5. \A i \in DOMAIN ended : ended[i] \in Exchanges
  BY <1>1, ElementOfSeq, LenProperties
<1>6. Typed'
  BY <1>1 DEF Inv, Typed
<1>7. Booted'
  <2>1. Booted
    BY DEF Inv
  <2>2. QED
    BY <2>1 DEF Booted, BootSteps
<1>8. SoundInv'
  <2> SUFFICES ASSUME NEW y \in Exchanges PROVE Sound(ex'[y])
    BY DEF SoundInv, Sound, Statuses, Known, FindExistingId, Informed, TellsFirst, TellsOnly,
           Tells, SystemPrompt, Ids
  <2>1. Sound(ex[y])
    BY DEF Inv, SoundInv
  <2>2. QED
    BY <1>2, <2>1
<1>9. \A y \in Exchanges : Over(y) => /\ Over(y)' /\ ex'[y].body = ex[y].body
                                      /\ ex'[y].conv = ex[y].conv /\ ex'[y].header = ex[y].header
  BY <1>2 DEF Over, Follows
<1>10. Faithful'
  <2>1. Faithful
    BY DEF Inv
  <2>2. QED
    BY <1>3, <1>4, <1>9, <2>1 DEF Faithful, Over
<1>11. EndedOnce'
  <2>1. EndedOnce
    BY DEF Inv
  <2>2. QED
    BY <1>5, <1>9, <2>1 DEF EndedOnce, Over
<1>12. WindowInv'
  BY <1>3 DEF Inv, WindowInv, Window
<1>13. QED
  BY <1>6, <1>7, <1>8, <1>10, <1>11, <1>12 DEF Inv

(* Each of these steps makes such a change.                                *)
Change(x, e) ==
  /\ e \in Exchange /\ Sound(e) /\ Follows(x, e) /\ ex' = [ex EXCEPT ![x] = e]
  /\ UNCHANGED <<boot, env, store, feature, pipeline, ended>>

(* An exchange with a new stage, and one that a client or the chat begins. *)
LEMMA BegunIs ==
  ASSUME NEW pc \in Pcs, NEW via \in {"client", "completions", "models"}, NEW body \in Body,
         NEW answer \in Answers, answer # 0 => pc = "done", pc \in {"requesting", "done"}
  PROVE  LET e == [pc |-> pc, via |-> via, body |-> body, sent |-> Opaque, conv |-> None,
                   header |-> 0, status |-> 0, answer |-> answer]
         IN e \in Exchange /\ Sound(e)
<1> DEFINE e == [pc |-> pc, via |-> via, body |-> body, sent |-> Opaque, conv |-> None,
                 header |-> 0, status |-> 0, answer |-> answer]
<1>1. Opaque \in Body
  BY DEF Opaque, Body
<1>2. e \in Exchange
  BY <1>1, ExchangeIs
<1>3. Sound(e)
  BY DEF Sound
<1>4. QED
  BY <1>2, <1>3

LEMMA RequestStep ==
  ASSUME Inv, NEW x \in Exchanges, NEW body \in Bodies, Request(x, body)
  PROVE  Inv'
<1> DEFINE e(pc, via, b) == [pc |-> pc, via |-> via, body |-> b, sent |-> Opaque, conv |-> None,
                             header |-> 0, status |-> 0, answer |-> 0]
           n == e("requesting", "client", body)
<1>1. [NoExchange EXCEPT !.pc = "requesting"] = e("requesting", None, Opaque)
  BY DEF NoExchange
<1>2. [e("requesting", None, Opaque) EXCEPT !.via = "client"] = e("requesting", "client", Opaque)
  OBVIOUS
<1>3. [e("requesting", "client", Opaque) EXCEPT !.body = body] = n
  OBVIOUS
<1>4. [NoExchange EXCEPT !.pc = "requesting", !.via = "client", !.body = body] = n
  BY <1>1, <1>2, <1>3, Zenon
<1>5. body \in Body
  BY BodyAssumption
<1>6. n \in Exchange /\ Sound(n)
  BY <1>5, BegunIs DEF Pcs, Answers
<1>7. Follows(x, n) /\ ex' = [ex EXCEPT ![x] = n]
  BY <1>4 DEF Request, Follows, Over, Become
<1> HIDE DEF n
<1>8. QED
  BY <1>6, <1>7, ExchangeStep DEF Request

LEMMA ChatCompletionsStep ==
  ASSUME Inv, NEW x \in Exchanges, NEW request \in ChatRequests, ChatCompletions(x, request)
  PROVE  Inv'
<1> DEFINE body == [ok |-> TRUE, msgs |-> ChatMessages(request)]
           e(pc, b, answer) == [pc |-> pc, via |-> "completions", body |-> b, sent |-> Opaque,
                                conv |-> None, header |-> 0, status |-> 0, answer |-> answer]
           refused == e("done", Opaque, 400)
           asked   == e("requesting", body, 0)
<1>1. body \in Body /\ Opaque \in Body
  BY ChatMessagesType DEF Opaque, Body
<1> HIDE DEF body
<1>2. [NoExchange EXCEPT !.via = "completions"] = e("idle", Opaque, 0)
  BY DEF NoExchange
<1>3. [e("idle", Opaque, 0) EXCEPT !.pc = "done"] = e("done", Opaque, 0)
  OBVIOUS
<1>4. [e("done", Opaque, 0) EXCEPT !.answer = 400] = refused
  OBVIOUS
<1>5. [e("idle", Opaque, 0) EXCEPT !.pc = "requesting"] = e("requesting", Opaque, 0)
  OBVIOUS
<1>6. [e("requesting", Opaque, 0) EXCEPT !.body = body] = asked
  OBVIOUS
<1>7. /\ [e("idle", Opaque, 0) EXCEPT !.pc = "done", !.answer = 400] = refused
      /\ [e("idle", Opaque, 0) EXCEPT !.pc = "requesting", !.body = body] = asked
  <2>1. [e("idle", Opaque, 0) EXCEPT !.pc = "done", !.answer = 400] = refused
    BY <1>3, <1>4, ZenonT(40)
  <2>2. [e("idle", Opaque, 0) EXCEPT !.pc = "requesting", !.body = body] = asked
    BY <1>5, <1>6, ZenonT(40)
  <2>3. QED
    BY <2>1, <2>2, Zenon
<1>8. refused \in Exchange /\ Sound(refused) /\ asked \in Exchange /\ Sound(asked)
  <2>1. /\ {"done", "requesting"} \subseteq Pcs /\ 400 \in Answers /\ 0 \in Answers
        /\ "completions" \in {"client", "completions", "models"}
    BY DEF Pcs, Answers
  <2>2. refused \in Exchange /\ Sound(refused)
    BY <1>1, <2>1, BegunIs
  <2>3. asked \in Exchange /\ Sound(asked)
    BY <1>1, <2>1, BegunIs
  <2>4. QED
    BY <2>2, <2>3
<1>9. Follows(x, refused) /\ Follows(x, asked)
  BY DEF ChatCompletions, Follows, Over
<1> DEFINE n == [NoExchange EXCEPT !.via = "completions"]
           first == [n EXCEPT !.pc = "done", !.answer = 400]
           other == [n EXCEPT !.pc = "requesting", !.body = body]
<1>10. first = refused /\ other = asked
  BY <1>2, <1>7, Zenon
<1>11. ex' = [ex EXCEPT ![x] = first] \/ ex' = [ex EXCEPT ![x] = other]
  BY Zenon DEF ChatCompletions, Become, body
<1> HIDE DEF refused, asked, first, other
<1>12. ex' = [ex EXCEPT ![x] = refused] \/ ex' = [ex EXCEPT ![x] = asked]
  BY <1>10, <1>11
<1>13. QED
  BY <1>8, <1>9, <1>12, ExchangeStep DEF ChatCompletions

LEMMA ChatListModelsStep ==
  ASSUME Inv, NEW x \in Exchanges, ChatListModels(x)
  PROVE  Inv'
<1> DEFINE e(pc, via) == [pc |-> pc, via |-> via, body |-> Opaque, sent |-> Opaque, conv |-> None,
                          header |-> 0, status |-> 0, answer |-> 0]
           n == e("requesting", "models")
<1>1. [NoExchange EXCEPT !.pc = "requesting"] = e("requesting", None)
  BY DEF NoExchange
<1>2. [e("requesting", None) EXCEPT !.via = "models"] = n
  OBVIOUS
<1>3. [NoExchange EXCEPT !.pc = "requesting", !.via = "models"] = n
  BY <1>1, <1>2, Zenon
<1>4. n \in Exchange /\ Sound(n)
  <2>1. Opaque \in Body
    BY DEF Opaque, Body
  <2>2. QED
    BY <2>1, BegunIs DEF Pcs, Answers
<1>5. Follows(x, n) /\ ex' = [ex EXCEPT ![x] = n]
  BY <1>3 DEF ChatListModels, Follows, Over, Become
<1> HIDE DEF n
<1>6. QED
  BY <1>4, <1>5, ExchangeStep DEF ChatListModels

(* The exchange has its id, and the model is told it.                      *)
LEMMA OnRequestBodyStep ==
  ASSUME Inv, NEW x \in Exchanges, OnRequestBody(x)
  PROVE  Inv'
<1> DEFINE injected == InjectSystemPrompt(ex[x].body, x)
           a == [ex[x] EXCEPT !.pc = "upstream"]
           b == [a EXCEPT !.sent = injected.body]
           c == [b EXCEPT !.conv = injected.conv]
<1>1. ex[x] \in Exchange /\ Sound(ex[x]) /\ ex[x].pc = "requesting"
  BY DEF Inv, Typed, SoundInv, OnRequestBody
<1>2. /\ injected.body \in Body /\ injected.conv \in Ids
      /\ injected.body.ok => Known(ex[x].body, injected.body, injected.conv)
  BY <1>1, ExchangeIs, InjectedIs DEF Ids
<1>3. ex' = [ex EXCEPT ![x] = c]
  BY DEF OnRequestBody, Become
<1> HIDE DEF injected
<1>4. /\ a \in Exchange /\ a.pc = "upstream" /\ a.header = ex[x].header
      /\ a.status = ex[x].status /\ a.answer = ex[x].answer /\ a.body = ex[x].body
  BY <1>1, ExchangeIs DEF Pcs
<1> HIDE DEF a
<1>5. /\ b \in Exchange /\ b.pc = "upstream" /\ b.header = ex[x].header
      /\ b.status = ex[x].status /\ b.answer = ex[x].answer /\ b.sent = injected.body
      /\ b.body = ex[x].body
  BY <1>2, <1>4, ExchangeIs
<1> HIDE DEF b
<1>6. /\ c \in Exchange /\ c.pc = "upstream" /\ c.header = ex[x].header
      /\ c.status = ex[x].status /\ c.answer = ex[x].answer /\ c.sent = injected.body
      /\ c.conv = injected.conv /\ c.body = ex[x].body
  BY <1>2, <1>5, ExchangeIs
<1> HIDE DEF c
<1>7. injected.conv # None
  BY <1>2, IdsDiffer
<1>8. Sound(c)
  BY <1>1, <1>2, <1>6, <1>7 DEF Sound
<1>9. Follows(x, c)
  BY <1>1 DEF Follows, Over
<1>10. QED
  BY <1>3, <1>6, <1>8, <1>9, ExchangeStep DEF OnRequestBody

LEMMA NoRequestBodyStep ==
  ASSUME Inv, NEW x \in Exchanges, NoRequestBody(x)
  PROVE  Inv'
<1> DEFINE e == [ex[x] EXCEPT !.pc = "upstream"]
<1>1. ex[x] \in Exchange /\ Sound(ex[x]) /\ ex[x].pc = "requesting" /\ ex[x].via = "models"
  BY DEF Inv, Typed, SoundInv, NoRequestBody
<1>2. ex' = [ex EXCEPT ![x] = e]
  BY DEF NoRequestBody, Become
<1>3. /\ e \in Exchange /\ e.pc = "upstream" /\ e.header = ex[x].header /\ e.via = ex[x].via
      /\ e.status = ex[x].status /\ e.answer = ex[x].answer /\ e.conv = ex[x].conv
  BY <1>1, ExchangeIs DEF Pcs
<1> HIDE DEF e
<1>4. Sound(e) /\ Follows(x, e)
  BY <1>1, <1>3 DEF Sound, Follows, Over
<1>5. QED
  BY <1>2, <1>3, <1>4, ExchangeStep DEF NoRequestBody

LEMMA OnResponseStep ==
  ASSUME Inv, NEW x \in Exchanges, NEW status \in Statuses, OnResponse(x, status)
  PROVE  Inv'
<1> DEFINE kept == IF ex[x].conv = None THEN ex[x].status ELSE status
           a == [ex[x] EXCEPT !.pc = "answering"]
           b == [a EXCEPT !.header = status]
           c == [b EXCEPT !.status = kept]
<1>1. ex[x] \in Exchange /\ Sound(ex[x]) /\ ex[x].pc = "upstream"
  BY DEF Inv, Typed, SoundInv, OnResponse
<1>2. status \in {0, 200, 500} /\ kept \in {0, 200, 500}
  BY <1>1, ExchangeIs DEF Statuses
<1>3. ex' = [ex EXCEPT ![x] = c]
  BY <1>1, ExchangeIs DEF OnResponse, Become
<1>4. kept = status \/ ex[x].conv = None
  OBVIOUS
<1> HIDE DEF kept
<1>5. /\ a \in Exchange /\ a.pc = "answering" /\ a.conv = ex[x].conv /\ a.sent = ex[x].sent
      /\ a.via = ex[x].via /\ a.body = ex[x].body /\ a.answer = ex[x].answer
  BY <1>1, ExchangeIs DEF Pcs
<1> HIDE DEF a
<1>6. /\ b \in Exchange /\ b.pc = "answering" /\ b.conv = ex[x].conv /\ b.sent = ex[x].sent
      /\ b.via = ex[x].via /\ b.body = ex[x].body /\ b.answer = ex[x].answer /\ b.header = status
  BY <1>2, <1>5, ExchangeIs
<1> HIDE DEF b
<1>7. /\ c \in Exchange /\ c.pc = "answering" /\ c.conv = ex[x].conv /\ c.sent = ex[x].sent
      /\ c.via = ex[x].via /\ c.body = ex[x].body /\ c.answer = ex[x].answer
      /\ c.header = status /\ c.status = kept
  BY <1>2, <1>6, ExchangeIs
<1> HIDE DEF c
<1>8. Sound(c)
  BY <1>1, <1>4, <1>7 DEF Sound
<1>9. Follows(x, c)
  BY <1>1 DEF Follows, Over
<1>10. QED
  BY <1>3, <1>7, <1>8, <1>9, ExchangeStep DEF OnResponse

LEMMA CutStep ==
  ASSUME Inv, NEW x \in Exchanges, Cut(x)
  PROVE  Inv'
<1> DEFINE e == [ex[x] EXCEPT !.pc = "cut"]
<1>1. /\ ex[x] \in Exchange /\ Sound(ex[x])
      /\ ex[x].pc \in {"requesting", "upstream", "answering"}
  BY DEF Inv, Typed, SoundInv, Cut
<1>2. ex' = [ex EXCEPT ![x] = e]
  BY DEF Cut, Become
<1>3. /\ e \in Exchange /\ e.pc = "cut" /\ e.answer = ex[x].answer /\ e.conv = ex[x].conv
      /\ e.sent = ex[x].sent /\ e.body = ex[x].body
  BY <1>1, ExchangeIs DEF Pcs
<1> HIDE DEF e
<1>4. Sound(e) /\ Follows(x, e)
  BY <1>1, <1>3 DEF Sound, Follows, Over
<1>5. QED
  BY <1>2, <1>3, <1>4, ExchangeStep DEF Cut

LEMMA ChatReplyStep ==
  ASSUME Inv, NEW x \in Exchanges, NEW parses \in BOOLEAN, ChatReply(x, parses)
  PROVE  Inv'
<1> DEFINE answer == AnswerOf(x, parses)
           a == [ex[x] EXCEPT !.pc = "done"]
           b == [a EXCEPT !.answer = answer]
<1>1. ex[x] \in Exchange /\ Sound(ex[x]) /\ ex[x].pc \in {"ended", "cut"}
  BY DEF Inv, Typed, SoundInv, ChatReply
<1>2. answer \in Answers
  BY <1>1, ExchangeIs DEF AnswerOf, Answers
<1>3. ex' = [ex EXCEPT ![x] = b]
  BY DEF ChatReply, Become
<1> HIDE DEF answer
<1>4. /\ a \in Exchange /\ a.pc = "done" /\ a.conv = ex[x].conv /\ a.sent = ex[x].sent
      /\ a.header = ex[x].header /\ a.body = ex[x].body
  BY <1>1, ExchangeIs DEF Pcs
<1> HIDE DEF a
<1>5. /\ b \in Exchange /\ b.pc = "done" /\ b.conv = ex[x].conv /\ b.sent = ex[x].sent
      /\ b.header = ex[x].header /\ b.body = ex[x].body
  BY <1>2, <1>4, ExchangeIs
<1> HIDE DEF b
<1>6. Sound(b) /\ Follows(x, b)
  BY <1>1, <1>5 DEF Sound, Follows, Over
<1>7. QED
  BY <1>3, <1>5, <1>6, ExchangeStep DEF ChatReply
-----------------------------------------------------------------------------
(* Steps that change the store.                                            *)

NewLog(log, capacity, r) ==
  IF Len(log) >= capacity /\ log # <<>> THEN Append(Tail(log), r) ELSE Append(log, r)

LEMMA NewLogHas ==
  ASSUME NEW log \in Seq(Record), NEW capacity \in Nat, NEW r \in Record
  PROVE  /\ NewLog(log, capacity, r) \in Seq(Record)
         /\ \A i \in DOMAIN NewLog(log, capacity, r) :
              \/ NewLog(log, capacity, r)[i] = r
              \/ \E j \in DOMAIN log : NewLog(log, capacity, r)[i] = log[j]
<1>1. Len(log) \in Nat
  BY LenProperties
<1>2. CASE Len(log) >= capacity /\ log # <<>>
  <2> DEFINE new == Append(Tail(log), r)
  <2>1. /\ new \in Seq(Record) /\ Len(new) = Len(log) /\ new[Len(log)] = r
        /\ \A i \in 1..(Len(log) - 1) : new[i] = log[i + 1]
    BY <1>2, WindowMoves
  <2> HIDE DEF new
  <2>2. DOMAIN new = 1..Len(log)
    BY <2>1, LenProperties
  <2>3. ASSUME NEW i \in 1..Len(log)
        PROVE  new[i] = r \/ \E j \in 1..Len(log) : new[i] = log[j]
    <3>1. CASE i = Len(log)
      BY <2>1, <3>1
    <3>2. CASE i # Len(log)
      <4>1. i \in 1..(Len(log) - 1) /\ i + 1 \in 1..Len(log)
        BY <1>1, <3>2
      <4>2. QED
        BY <2>1, <4>1
    <3>3. QED
      BY <3>1, <3>2
  <2>4. NewLog(log, capacity, r) = new
    BY <1>2 DEF NewLog, new
  <2>5. DOMAIN log = 1..Len(log)
    BY LenProperties
  <2>6. QED
    BY <2>1, <2>2, <2>3, <2>4, <2>5
<1>3. CASE ~(Len(log) >= capacity /\ log # <<>>)
  <2> DEFINE new == Append(log, r)
  <2>1. /\ new \in Seq(Record) /\ Len(new) = Len(log) + 1 /\ new[Len(log) + 1] = r
        /\ \A i \in 1..Len(log) : new[i] = log[i]
    BY WindowGrows
  <2> HIDE DEF new
  <2>2. DOMAIN new = 1..(Len(log) + 1)
    BY <2>1, LenProperties
  <2>3. ASSUME NEW i \in 1..(Len(log) + 1)
        PROVE  new[i] = r \/ \E j \in 1..Len(log) : new[i] = log[j]
    <3>1. i = Len(log) + 1 \/ i \in 1..Len(log)
      BY <1>1
    <3>2. QED
      BY <2>1, <3>1
  <2>4. NewLog(log, capacity, r) = new
    BY <1>3 DEF NewLog, new
  <2>5. DOMAIN log = 1..Len(log)
    BY LenProperties
  <2>6. QED
    BY <2>1, <2>2, <2>3, <2>4, <2>5
<1>4. QED
  BY <1>2, <1>3

LEMMA InteractionIs ==
  ASSUME Inv, NEW x \in Exchanges, ex[x].pc = "answering", HasState(x)
  PROVE  /\ Interaction(x) \in Record
         /\ Interaction(x).x = x /\ Interaction(x).conv = ex[x].conv
         /\ Interaction(x).status = ex[x].header /\ ex[x].header # 0
         /\ Interaction(x).request = ex[x].body
<1>1. ex[x] \in Exchange /\ Sound(ex[x])
  BY DEF Inv, Typed, SoundInv
<1>2. ex[x].conv \in Ids /\ ex[x].status \in {0, 200, 500} /\ ex[x].body \in Body
  BY <1>1, ExchangeIs DEF HasState
<1>3. Interaction(x) \in Record
  BY <1>2 DEF Interaction, Record
<1>4. ex[x].status = ex[x].header /\ ex[x].header # 0
  BY <1>1 DEF Sound, HasState, Statuses
<1>5. QED
  BY <1>3, <1>4 DEF Interaction

LEMMA OnResponseBodyStep ==
  ASSUME Inv, NEW x \in Exchanges, OnResponseBody(x)
  PROVE  Inv'
<1> DEFINE e == [ex[x] EXCEPT !.pc = "ended"]
           r == Interaction(x)
           s == store[feature]
           log == NewLog(s.log, s.capacity, r)
<1>1. /\ ex[x] \in Exchange /\ Sound(ex[x]) /\ ex[x].pc = "answering"
      /\ ex \in [Exchanges -> Exchange]
  BY DEF Inv, Typed, SoundInv, OnResponseBody
<1>2. ex' = [ex EXCEPT ![x] = e]
  BY DEF OnResponseBody, Become
<1>3. /\ e \in Exchange /\ e.pc = "ended" /\ e.conv = ex[x].conv /\ e.header = ex[x].header
      /\ e.sent = ex[x].sent /\ e.answer = ex[x].answer /\ e.body = ex[x].body
      /\ e.via = ex[x].via
  BY <1>1, ExchangeIs DEF Pcs
<1> HIDE DEF e
<1>4. Sound(e) /\ Follows(x, e)
  BY <1>1, <1>3 DEF Sound, Follows, Over
<1>5. CASE ~HasState(x)
  BY <1>2, <1>3, <1>4, <1>5, ExchangeStep DEF OnResponseBody
<1>6. CASE HasState(x)
  <2>1. /\ store' = [store EXCEPT ![pipeline] = Recorded(@, r)] /\ ended' = Append(ended, x)
        /\ UNCHANGED <<boot, env, feature, pipeline>> /\ pipeline = feature
    BY <1>6 DEF OnResponseBody, Become, Serving, Inv, Booted
  <2>2. s \in Store /\ s.log \in Seq(Record) /\ s.capacity \in Nat /\ Listed = s.log
    <3>1. s \in Store
      BY ElementOfSeq DEF Inv, Typed
    <3>2. QED
      BY <3>1, StoreIs DEF Listed
  <2>3. /\ r \in Record /\ r.x = x /\ r.conv = ex[x].conv /\ r.status = ex[x].header
        /\ ex[x].header # 0 /\ r.request = ex[x].body
    BY <1>1, <1>6, InteractionIs
  <2> HIDE DEF r
  <2>4. /\ log \in Seq(Record)
        /\ \A i \in DOMAIN log : log[i] = r \/ \E j \in DOMAIN s.log : log[i] = s.log[j]
    BY <2>2, <2>3, NewLogHas
  <2>5. Window(log, Append(ended, x), s.capacity)
    BY <2>2, <2>3, WindowNext DEF Inv, Typed, WindowInv, NewLog
  <2>6. Recorded(s, r) = [s EXCEPT !.log = log]
    BY DEF Recorded, NewLog
  <2> HIDE DEF log
  <2>7. Recorded(s, r) \in Store /\ Recorded(s, r).log = log /\ Recorded(s, r).capacity = s.capacity
    BY <2>2, <2>4, <2>6, StoreIs
  <2>8. /\ store' \in Seq(Store) /\ store'[feature] = Recorded(s, r)
        /\ DOMAIN store' = DOMAIN store
    <3>1. store \in Seq(Store) /\ feature \in DOMAIN store /\ DOMAIN store = 1..Len(store)
      BY LenProperties DEF Inv, Typed
    <3>2. store' = [store EXCEPT ![feature] = Recorded(s, r)]
      BY <2>1
    <3>3. [store EXCEPT ![feature] = Recorded(s, r)] \in Seq(Store)
      BY <2>7, <3>1, ExceptSeq
    <3>4. QED
      BY <3>1, <3>2, <3>3
  <2>9. Listed' = log
    BY <2>1, <2>7, <2>8 DEF Listed
  <2>10. Typed'
    <3>1. ended' \in Seq(Exchanges)
      BY <2>1, AppendProperties DEF Inv, Typed
    <3>2. QED
      BY <1>1, <1>2, <1>3, <2>1, <2>8, <3>1 DEF Inv, Typed
  <2>11. Booted'
    BY <2>1, <2>7, <2>8 DEF Inv, Booted, OnResponseBody, Become, Serving, BootSteps
  <2>12. SoundInv'
    <3> SUFFICES ASSUME NEW y \in Exchanges PROVE Sound(ex'[y])
      BY DEF SoundInv, Sound, Statuses, Known, FindExistingId, Informed, TellsFirst, TellsOnly,
           Tells, SystemPrompt, Ids
    <3>1. Sound(ex[y])
      BY DEF Inv, SoundInv
    <3>2. QED
      BY <1>1, <1>2, <1>4, <3>1
  <2>13. \A y \in Exchanges : Over(y) => ex'[y] = ex[y] /\ Over(y)'
    BY <1>1, <1>2 DEF Over
  <2>14. ex'[x] = e /\ Over(x)' /\ ~Over(x)
    BY <1>1, <1>2, <1>3 DEF Over
  <2>15. Faithful'
    <3> SUFFICES ASSUME NEW i \in DOMAIN log
                 PROVE  LET f == ex'[log[i].x]
                        IN /\ f.pc \in {"ended", "done"}
                           /\ log[i].request = f.body /\ log[i].conv = f.conv
                           /\ log[i].status = f.header /\ f.header # 0
      BY <2>9 DEF Faithful, Over
    <3>1. CASE log[i] = r
      BY <1>3, <2>3, <2>14, <3>1
    <3>2. CASE \E j \in DOMAIN s.log : log[i] = s.log[j]
      <4>1. PICK j \in DOMAIN Listed : log[i] = Listed[j]
        BY <2>2, <3>2
      <4>2. Listed[j] \in Record /\ Listed[j].x \in Exchanges
        <5>1. Listed \in Seq(Record) /\ j \in 1..Len(Listed)
          BY <2>2, LenProperties
        <5>2. Listed[j] \in Record
          BY <5>1, ElementOfSeq
        <5>3. QED
          BY <5>2 DEF Record
      <4>3. /\ Over(Listed[j].x) /\ Listed[j].request = ex[Listed[j].x].body
            /\ Listed[j].conv = ex[Listed[j].x].conv
            /\ Listed[j].status = ex[Listed[j].x].header /\ ex[Listed[j].x].header # 0
        BY DEF Inv, Faithful
      <4>4. ex'[Listed[j].x] = ex[Listed[j].x]
        BY <2>13, <4>2, <4>3
      <4>5. QED
        BY <4>1, <4>3, <4>4 DEF Over
    <3>3. QED
      BY <2>4, <3>1, <3>2
  <2>16. EndedOnce'
    <3>1. /\ Len(ended) \in Nat /\ DOMAIN ended = 1..Len(ended) /\ DOMAIN ended' = 1..(Len(ended) + 1)
          /\ ended'[Len(ended) + 1] = x /\ \A i \in 1..Len(ended) : ended'[i] = ended[i]
          /\ \A i \in 1..Len(ended) : ended[i] \in Exchanges
      <4>1. ended \in Seq(Exchanges)
        BY DEF Inv, Typed
      <4>2. ended' \in Seq(Exchanges) /\ Len(ended') = Len(ended) + 1
        BY <2>1, <4>1, WindowGrows
      <4>3. QED
        BY <2>1, <4>1, <4>2, WindowGrows, LenProperties, ElementOfSeq
    <3>2. \A i \in 1..Len(ended) : Over(ended[i])
      BY <3>1 DEF Inv, EndedOnce
    <3>3. \A i \in 1..(Len(ended) + 1) : i = Len(ended) + 1 \/ i \in 1..Len(ended)
      BY <3>1
    <3>4. \A i \in 1..Len(ended) : ended[i] # x
      BY <2>14, <3>2
    <3>5. \A i \in DOMAIN ended' : Over(ended[i])'
      BY <2>13, <2>14, <3>1, <3>2, <3>3 DEF Over
    <3>6. \A i, j \in DOMAIN ended' : ended'[i] = ended'[j] => i = j
      <4>1. \A i, j \in 1..Len(ended) : ended[i] = ended[j] => i = j
        BY <3>1 DEF Inv, EndedOnce
      <4>2. QED
        BY <3>1, <3>3, <3>4, <4>1
    <3>7. QED
      BY <3>5, <3>6 DEF EndedOnce
  <2>17. WindowInv'
    BY <2>1, <2>5, <2>7, <2>8, <2>9 DEF WindowInv, Window
  <2>18. QED
    BY <2>10, <2>11, <2>12, <2>15, <2>16, <2>17 DEF Inv
<1>7. QED
  BY <1>5, <1>6

(* load_env_config: before anything is recorded, the store may change.     *)
LEMMA LoadEnvConfigStep == Inv /\ LoadEnvConfig => Inv'
<1> SUFFICES ASSUME Inv, LoadEnvConfig PROVE Inv'
  OBVIOUS
<1>1. /\ boot = BootSteps /\ boot' = <<"pipelines">> /\ ended = <<>> /\ store[feature].log = <<>>
      /\ feature = Len(store) /\ UNCHANGED <<env, pipeline, ex, ended>>
  <2>1. Head(<<"pipelines">>) = "pipelines" /\ Head(BootSteps) = "env"
        /\ Tail(BootSteps) = <<"pipelines">>
    BY DEF BootSteps
  <2>2. boot \in {BootSteps, <<"pipelines">>, <<>>} /\ boot # <<>> /\ Head(boot) = "env"
        /\ boot' = Tail(boot)
    BY DEF LoadEnvConfig, Boot, Inv, Booted
  <2>3. boot = BootSteps /\ boot' = <<"pipelines">>
    BY <2>1, <2>2
  <2>4. QED
    BY <2>2, <2>3 DEF LoadEnvConfig, Inv, Booted
<1>2. /\ store \in Seq(Store) /\ feature \in DOMAIN store /\ env \in Capacities
      /\ pipeline \in {0} \cup DOMAIN store /\ ex \in [Exchanges -> Exchange]
  BY DEF Inv, Typed
<1>3. /\ store' \in Seq(Store) /\ feature' \in DOMAIN store'
      /\ store'[feature'].log = <<>> /\ (env # None => store'[feature'].capacity = env)
      /\ DOMAIN store \subseteq DOMAIN store'
  <2>1. CASE env = None
    <3>1. store' = store /\ feature' = feature
      BY <1>1, <2>1 DEF LoadEnvConfig
    <3>2. QED
      BY <1>1, <1>2, <2>1, <3>1
  <2>2. CASE env # None
    <3>1. store' = Append(store, NewStore(env)) /\ feature' = Len(store')
      BY <2>2 DEF LoadEnvConfig
    <3>2. NewStore(env) \in Store /\ NewStore(env).log = <<>> /\ NewStore(env).capacity = env
      BY <1>2, <2>2, StoreIs, CapacityAssumption DEF NewStore
    <3>3. /\ store' \in Seq(Store) /\ Len(store') = Len(store) + 1 /\ Len(store) \in Nat
          /\ store'[Len(store) + 1] = NewStore(env)
      BY <1>2, <3>1, <3>2, WindowGrows
    <3>4. DOMAIN store = 1..Len(store) /\ DOMAIN store' = 1..(Len(store) + 1)
      BY <1>2, <3>3, LenProperties
    <3>5. QED
      BY <3>1, <3>2, <3>3, <3>4
  <2>3. QED
    BY <2>1, <2>2
<1>4. Typed'
  BY <1>1, <1>2, <1>3 DEF Typed, Inv
<1>5. Booted'
  <2>1. <<"pipelines">> # BootSteps /\ <<"pipelines">> # <<>>
    BY DEF BootSteps
  <2>2. BootSteps' = BootSteps
    BY DEF BootSteps
  <2>3. QED
    BY <1>1, <1>3, <2>1, <2>2 DEF Booted
<1>6. SoundInv'
  <2> SUFFICES ASSUME NEW y \in Exchanges PROVE Sound(ex'[y])
    BY DEF SoundInv, Sound, Statuses, Known, FindExistingId, Informed, TellsFirst, TellsOnly,
           Tells, SystemPrompt, Ids
  <2>1. ex'[y] = ex[y] /\ Sound(ex[y])
    BY <1>1 DEF Inv, SoundInv
  <2>2. QED
    BY <2>1, Zenon
<1>7. Listed' = <<>>
  BY <1>3 DEF Listed
<1>8. Faithful' /\ EndedOnce'
  BY <1>1, <1>7 DEF Faithful, EndedOnce
<1>9. WindowInv'
  <2>1. store'[feature'].capacity \in Nat
    <3>1. store'[feature'] \in Store
      BY <1>3, ElementOfSeq, LenProperties
    <3>2. QED
      BY <3>1, StoreIs
  <2>2. QED
    BY <1>1, <1>7, <2>1, EmptyWindow DEF WindowInv, Window
<1>10. QED
  BY <1>4, <1>5, <1>6, <1>8, <1>9 DEF Inv

(* resolve_pipelines: the pipelines record in the store that is listed.    *)
LEMMA ResolvePipelinesStep == Inv /\ ResolvePipelines => Inv'
<1> SUFFICES ASSUME Inv, ResolvePipelines PROVE Inv'
  OBVIOUS
<1>1. /\ boot # BootSteps /\ boot' = <<>> /\ pipeline' = feature
      /\ UNCHANGED <<env, store, feature, ex, ended>>
  <2>1. /\ Head(<<"pipelines">>) = "pipelines" /\ Head(BootSteps) = "env"
        /\ Tail(<<"pipelines">>) = <<>>
    BY DEF BootSteps
  <2>2. boot \in {BootSteps, <<"pipelines">>, <<>>} /\ boot # <<>> /\ Head(boot) = "pipelines"
        /\ boot' = Tail(boot)
    BY DEF ResolvePipelines, Boot, Inv, Booted
  <2>3. boot = <<"pipelines">> /\ boot # BootSteps
    BY <2>1, <2>2
  <2>4. QED
    BY <2>1, <2>2, <2>3 DEF ResolvePipelines
<1>2. Listed' = Listed
  BY <1>1 DEF Listed
<1>3. Typed'
  BY <1>1 DEF Inv, Typed
<1>4. Booted'
  <2>1. <<>> # BootSteps /\ BootSteps' = BootSteps
    BY DEF BootSteps
  <2>2. QED
    BY <1>1, <2>1 DEF Inv, Booted
<1>5. SoundInv'
  <2> SUFFICES ASSUME NEW y \in Exchanges PROVE Sound(ex'[y])
    BY DEF SoundInv, Sound, Statuses, Known, FindExistingId, Informed, TellsFirst, TellsOnly,
           Tells, SystemPrompt, Ids
  <2>1. ex'[y] = ex[y] /\ Sound(ex[y])
    BY <1>1 DEF Inv, SoundInv
  <2>2. QED
    BY <2>1, Zenon
<1>6. Faithful' /\ EndedOnce'
  BY <1>1, <1>2 DEF Inv, Faithful, EndedOnce, Over
<1>7. WindowInv'
  BY <1>1, <1>2 DEF Inv, WindowInv, Window
<1>8. QED
  BY <1>3, <1>4, <1>5, <1>6, <1>7 DEF Inv

(* handle_interaction_clear: nothing is listed, until an exchange ends.    *)
LEMMA InteractionClearStep == Inv /\ InteractionClear => Inv'
<1> SUFFICES ASSUME Inv, InteractionClear PROVE Inv'
  OBVIOUS
<1> DEFINE s == store[feature]
           c == Cleared(s)
<1>1. /\ store' = [store EXCEPT ![feature] = c] /\ ended' = <<>> /\ boot = <<>>
      /\ UNCHANGED <<boot, env, feature, pipeline, ex>>
  BY DEF InteractionClear, Serving
<1>2. /\ store \in Seq(Store) /\ feature \in DOMAIN store /\ s \in Store
      /\ DOMAIN store = 1..Len(store)
  BY ElementOfSeq, LenProperties DEF Inv, Typed
<1>3. c \in Store /\ c.log = <<>> /\ c.capacity = s.capacity /\ s.capacity \in Nat
  <2>1. <<>> \in Seq(Record)
    BY EmptySeq
  <2>2. QED
    BY <1>2, <2>1, StoreIs DEF Cleared
<1> HIDE DEF c
<1>4. store' \in Seq(Store) /\ store'[feature] = c /\ DOMAIN store' = DOMAIN store
  <2>1. [store EXCEPT ![feature] = c] \in Seq(Store)
    BY <1>2, <1>3, ExceptSeq
  <2>2. QED
    BY <1>1, <1>2, <2>1
<1>5. Listed' = <<>>
  BY <1>1, <1>3, <1>4 DEF Listed
<1>6. Typed'
  <2>1. ended' \in Seq(Exchanges)
    BY <1>1, EmptySeq
  <2>2. QED
    BY <1>1, <1>4, <2>1 DEF Inv, Typed
<1>7. Booted'
  <2>1. <<>> # BootSteps /\ BootSteps' = BootSteps
    BY DEF BootSteps
  <2>2. QED
    BY <1>1, <1>3, <1>4, <2>1 DEF Inv, Booted
<1>8. SoundInv'
  <2> SUFFICES ASSUME NEW y \in Exchanges PROVE Sound(ex'[y])
    BY DEF SoundInv, Sound, Statuses, Known, FindExistingId, Informed, TellsFirst, TellsOnly,
           Tells, SystemPrompt, Ids
  <2>1. ex'[y] = ex[y] /\ Sound(ex[y])
    BY <1>1 DEF Inv, SoundInv
  <2>2. QED
    BY <2>1, Zenon
<1>9. Faithful' /\ EndedOnce'
  BY <1>1, <1>5 DEF Faithful, EndedOnce
<1>10. WindowInv'
  BY <1>1, <1>3, <1>4, <1>5, EmptyWindow DEF WindowInv, Window
<1>11. QED
  BY <1>6, <1>7, <1>8, <1>9, <1>10 DEF Inv

LEMMA NextInv == Inv /\ [Next]_vars => Inv'
<1> SUFFICES ASSUME Inv, [Next]_vars PROVE Inv'
  OBVIOUS
<1>1. CASE \E x \in Exchanges : Step(x)
  <2> SUFFICES ASSUME NEW x \in Exchanges, Step(x) PROVE Inv'
    BY <1>1
  <2>1. ASSUME NEW body \in Bodies, Request(x, body) PROVE Inv'
    BY <2>1, RequestStep
  <2>2. ASSUME NEW request \in ChatRequests, ChatCompletions(x, request) PROVE Inv'
    BY <2>2, ChatCompletionsStep
  <2>3. CASE ChatListModels(x)
    BY <2>3, ChatListModelsStep
  <2>4. CASE OnRequestBody(x)
    BY <2>4, OnRequestBodyStep
  <2>5. CASE NoRequestBody(x)
    BY <2>5, NoRequestBodyStep
  <2>6. ASSUME NEW status \in Statuses, OnResponse(x, status) PROVE Inv'
    BY <2>6, OnResponseStep
  <2>7. CASE OnResponseBody(x)
    BY <2>7, OnResponseBodyStep
  <2>8. CASE Cut(x)
    BY <2>8, CutStep
  <2>9. ASSUME NEW parses \in BOOLEAN, ChatReply(x, parses) PROVE Inv'
    BY <2>9, ChatReplyStep
  <2>10. QED
    BY <2>1, <2>2, <2>3, <2>4, <2>5, <2>6, <2>7, <2>8, <2>9 DEF Step
<1>2. CASE UNCHANGED vars
  <2>1. /\ UNCHANGED <<boot, env, store, feature, pipeline, ex, ended>> /\ Listed' = Listed
    BY <1>2 DEF vars, Listed
  <2>2. Typed' /\ Booted'
    BY <2>1 DEF Inv, Typed, Booted, BootSteps
  <2>3. SoundInv'
    <3> SUFFICES ASSUME NEW y \in Exchanges PROVE Sound(ex'[y])
      BY DEF SoundInv, Sound, Statuses, Known, FindExistingId, Informed, TellsFirst, TellsOnly,
           Tells, SystemPrompt, Ids
    <3>1. ex'[y] = ex[y] /\ Sound(ex[y])
      BY <2>1 DEF Inv, SoundInv
    <3>2. QED
      BY <3>1, Zenon
  <2>4. Faithful' /\ EndedOnce'
    BY <2>1 DEF Inv, Faithful, EndedOnce, Over
  <2>5. WindowInv'
    BY <2>1 DEF Inv, WindowInv, Window
  <2>6. QED
    BY <2>2, <2>3, <2>4, <2>5 DEF Inv
<1>3. QED
  BY <1>1, <1>2, LoadEnvConfigStep, ResolvePipelinesStep, InteractionClearStep DEF Next
-----------------------------------------------------------------------------
(* The theorems.                                                           *)

(* The stores, the exchanges and the handles on the stores keep their      *)
(* shapes (InteractionStore, the pipelines built by resolve_pipelines and  *)
(* the state that the intercept filter keeps of an exchange).              *)
THEOREM TypeCorrect == Spec => []TypeOK
<1>1. Inv => TypeOK
  BY InvImplies
<1>2. QED
  BY <1>1, InitInv, NextInv, PTL DEF Spec

(* Whatever the environment says and however the exchanges overlap, the    *)
(* management API lists the exchanges that ended last, in that order, up   *)
(* to the capacity (InteractionStore::record and list, load_env_config     *)
(* before resolve_pipelines in main).                                      *)
THEOREM StoreIsWindow == Spec => []WindowOfRecent
<1>1. Inv => WindowOfRecent
  BY InvImplies
<1>2. QED
  BY <1>1, InitInv, NextInv, PTL DEF Spec

(* What the intercept filter records of an exchange is that exchange's own *)
(* request, status and conversation, and it records it once.               *)
THEOREM RecordedOnceAsHappened == Spec => []RecordedAsHappened
<1>1. Inv => RecordedAsHappened
  BY InvImplies
<1>2. QED
  BY <1>1, InitInv, NextInv, PTL DEF Spec

(* For any messages that a client or the chat API sends, the first id that *)
(* the model is told is the one of the exchange, and the only one where    *)
(* the client's system messages are text and tell at most one              *)
(* (inject_system_prompt and find_existing_id).                            *)
THEOREM ModelKnowsId == Spec => []ModelKnowsConversation
<1>1. Inv => ModelKnowsConversation
  BY InvImplies
<1>2. QED
  BY <1>1, InitInv, NextInv, PTL DEF Spec

(* A completion gets its 200 in no other step than the last one.           *)
LEMMA AnswerIsLast ==
  ASSUME Inv, NEW x \in Exchanges, NEW y \in Exchanges, Step(y),
         ex'[x].via = "completions", ex'[x].answer = 200, ex[x].answer # 200
  PROVE  ex[x].pc = "ended" /\ ex[x].conv # None
<1>1. ex \in [Exchanges -> Exchange] /\ ex[x] \in Exchange /\ Sound(ex[x])
  BY DEF Inv, Typed, SoundInv
<1>2. ASSUME NEW e, ex' = [ex EXCEPT ![y] = e]
      PROVE  y = x /\ ex'[x] = e /\ e.answer = 200 /\ e.via = "completions"
  BY <1>1, <1>2
<1>3. ASSUME NEW body \in Bodies, Request(y, body) PROVE FALSE
  <2>1. [NoExchange EXCEPT !.pc = "requesting", !.via = "client", !.body = body].answer = 0
    BY DEF NoExchange
  <2>2. QED
    BY <1>2, <1>3, <2>1 DEF Request, Become
<1>4. ASSUME NEW request \in ChatRequests, ChatCompletions(y, request) PROVE FALSE
  <2> DEFINE n == [NoExchange EXCEPT !.via = "completions"]
             body == [ok |-> TRUE, msgs |-> ChatMessages(request)]
  <2>1. n.answer = 0 /\ [n EXCEPT !.pc = "done", !.answer = 400].answer # 200
        /\ [n EXCEPT !.pc = "requesting", !.body = body].answer = 0
    BY DEF NoExchange
  <2>2. \/ ex' = [ex EXCEPT ![y] = [n EXCEPT !.pc = "done", !.answer = 400]]
        \/ ex' = [ex EXCEPT ![y] = [n EXCEPT !.pc = "requesting", !.body = body]]
    BY <1>4, Zenon DEF ChatCompletions, Become
  <2> DEFINE refused == [n EXCEPT !.pc = "done", !.answer = 400]
             asked   == [n EXCEPT !.pc = "requesting", !.body = body]
  <2>3. /\ refused.answer # 200 /\ asked.answer # 200
        /\ ex' = [ex EXCEPT ![y] = refused] \/ ex' = [ex EXCEPT ![y] = asked]
    BY <2>1, <2>2
  <2> HIDE DEF refused, asked
  <2>4. CASE ex' = [ex EXCEPT ![y] = refused]
    BY <1>2, <2>3, <2>4
  <2>5. CASE ex' = [ex EXCEPT ![y] = asked]
    BY <1>2, <2>3, <2>5
  <2>6. QED
    BY <2>3, <2>4, <2>5
<1>5. CASE ChatListModels(y)
  <2>1. [NoExchange EXCEPT !.pc = "requesting", !.via = "models"].answer = 0
    BY DEF NoExchange
  <2>2. QED
    BY <1>2, <1>5, <2>1 DEF ChatListModels, Become
<1>6. CASE OnRequestBody(y)
  <2> DEFINE injected == InjectSystemPrompt(ex[y].body, y)
             e == [ex[y] EXCEPT !.pc = "upstream", !.sent = injected.body, !.conv = injected.conv]
  <2>1. ex' = [ex EXCEPT ![y] = e]
    BY <1>6, Zenon DEF OnRequestBody, Become
  <2> HIDE DEF injected
  <2>2. e.answer = ex[y].answer
    BY <1>1, ExchangeIs
  <2> HIDE DEF e
  <2>3. QED
    BY <1>2, <2>1, <2>2
<1>7. CASE NoRequestBody(y)
  BY <1>1, <1>2, <1>7, ExchangeIs DEF NoRequestBody, Become
<1>8. ASSUME NEW status \in Statuses, OnResponse(y, status) PROVE FALSE
  <2> DEFINE recorded == IF ex[y].conv = None THEN ex[y].status ELSE status
             e == [ex[y] EXCEPT !.pc = "answering", !.header = status, !.status = recorded]
  <2>1. ex' = [ex EXCEPT ![y] = e]
    BY <1>1, <1>8, ExchangeIs DEF OnResponse, Become
  <2> HIDE DEF recorded
  <2>2. e.answer = ex[y].answer
    BY <1>1, ExchangeIs
  <2> HIDE DEF e
  <2>3. QED
    BY <1>2, <2>1, <2>2
<1>9. CASE OnResponseBody(y)
  BY <1>1, <1>2, <1>9, ExchangeIs DEF OnResponseBody, Become
<1>10. CASE Cut(y)
  BY <1>1, <1>2, <1>10, ExchangeIs DEF Cut, Become
<1>11. ASSUME NEW parses \in BOOLEAN, ChatReply(y, parses)
       PROVE  ex[x].pc = "ended" /\ ex[x].conv # None
  <2> DEFINE e(a) == [ex[y] EXCEPT !.pc = "done", !.answer = a]
  <2>1. ex' = [ex EXCEPT ![y] = e(AnswerOf(y, parses))] /\ ex[y].pc \in {"ended", "cut"}
    BY <1>11 DEF ChatReply, Become
  <2>2. \A a : e(a).answer = a /\ e(a).via = ex[y].via
    BY <1>1, <1>2, <2>1, ExchangeIs
  <2> HIDE DEF e
  <2>3. y = x /\ AnswerOf(x, parses) = 200 /\ ex[x].via = "completions"
    BY <1>2, <2>1, <2>2
  <2>4. ex[x].pc = "ended"
    BY <2>1, <2>3 DEF AnswerOf
  <2>5. QED
    BY <1>1, <2>3, <2>4 DEF Sound
<1>12. QED
  BY <1>3, <1>4, <1>5, <1>6, <1>7, <1>8, <1>9, <1>10, <1>11 DEF Step

(* A completion that the chat API answers with 200 has an id and has gone  *)
(* through the proxy to its end, where it is recorded                      *)
(* (handle_chat_completions, on_response_body).                            *)
THEOREM ChatAnswered == Spec => ChatAnsweredHasEnded
<1> DEFINE Passed ==
      \A x \in Exchanges :
        ex'[x].via = "completions" /\ ex'[x].answer = 200 /\ ex[x].answer # 200 =>
          ex[x].pc = "ended" /\ ex[x].conv # None
<1>1. Inv /\ [Next]_vars => [Passed]_vars
  <2> SUFFICES ASSUME Inv, Next, NEW x \in Exchanges, ex'[x].via = "completions",
                      ex'[x].answer = 200, ex[x].answer # 200
               PROVE  ex[x].pc = "ended" /\ ex[x].conv # None
    OBVIOUS
  <2>1. CASE \E y \in Exchanges : Step(y)
    BY <2>1, AnswerIsLast
  <2>2. CASE LoadEnvConfig \/ ResolvePipelines \/ InteractionClear
    BY <2>2 DEF LoadEnvConfig, ResolvePipelines, InteractionClear
  <2>3. QED
    BY <2>1, <2>2 DEF Next
<1>2. Spec => [][Passed]_vars
  <2> HIDE DEF Passed
  <2>1. QED
    BY <1>1, InitInv, NextInv, PTL DEF Spec
<1>3. QED
  BY <1>2 DEF ChatAnsweredHasEnded
-----------------------------------------------------------------------------
(* The history of a conversation.                                          *)

(* The n-th step of get_by_conversation_id, after the one that found       *)
(* `before'.                                                               *)
Sift(log, c, before, n) ==
  IF n = 0 THEN <<>>
  ELSE IF log[n].conv = c THEN Append(before, log[n]) ELSE before

Sifted(log, c, m) ==
  {g \in [0..m -> Seq(Record)] : \A n \in 0..m : g[n] = Sift(log, c, g[n - 1], n)}

LEMMA SiftType ==
  ASSUME NEW log \in Seq(Record), NEW c, NEW before \in Seq(Record), NEW n \in 0..Len(log)
  PROVE  Sift(log, c, before, n) \in Seq(Record)
<1>1. n # 0 => log[n] \in Record
  <2>1. Len(log) \in Nat
    BY LenProperties
  <2>2. n # 0 => n \in 1..Len(log)
    BY <2>1
  <2>3. QED
    BY <2>2, ElementOfSeq
<1>2. CASE n = 0
  BY <1>2, EmptySeq DEF Sift
<1>3. CASE n # 0
  BY <1>1, <1>3, AppendProperties DEF Sift
<1>4. QED
  BY <1>2, <1>3

LEMMA SiftZero ==
  ASSUME NEW log, NEW c, NEW before, NEW other
  PROVE  Sift(log, c, before, 0) = Sift(log, c, other, 0)
  BY DEF Sift

LEMMA SiftedZero ==
  ASSUME NEW log \in Seq(Record), NEW c
  PROVE  Sifted(log, c, 0) # {}
<1> DEFINE g == [n \in 0..0 |-> Sift(log, c, <<>>, n)]
<1>1. Len(log) \in Nat /\ <<>> \in Seq(Record)
  BY LenProperties, EmptySeq
<1>2. g \in [0..0 -> Seq(Record)]
  <2>1. ASSUME NEW n \in 0..0
        PROVE  Sift(log, c, <<>>, n) \in Seq(Record)
    <3>1. n = 0 /\ n \in 0..Len(log)
      BY <1>1
    <3>2. QED
      BY <1>1, <3>1, SiftType
  <2>2. QED
    BY <2>1
<1>3. \A n \in 0..0 : g[n] = Sift(log, c, g[n - 1], n)
  BY SiftZero
<1> HIDE DEF g
<1>4. QED
  BY <1>2, <1>3 DEF Sifted

LEMMA SiftedNext ==
  ASSUME NEW log \in Seq(Record), NEW c, NEW m \in 0..Len(log), m < Len(log),
         Sifted(log, c, m) # {}
  PROVE  Sifted(log, c, m + 1) # {}
<1>1. PICK g \in [0..m -> Seq(Record)] : \A n \in 0..m : g[n] = Sift(log, c, g[n - 1], n)
  BY DEF Sifted
<1> DEFINE h == [n \in 0..(m + 1) |-> IF n <= m THEN g[n] ELSE Sift(log, c, g[m], n)]
<1>2. Len(log) \in Nat /\ m \in Nat /\ m + 1 \in 0..Len(log) /\ m \in 0..m
  BY LenProperties
<1>3. Sift(log, c, g[m], m + 1) \in Seq(Record)
  <2>1. g[m] \in Seq(Record)
    BY <1>1, <1>2
  <2>2. QED
    BY <1>2, <2>1, SiftType
<1>4. h \in [0..(m + 1) -> Seq(Record)]
  <2>1. \A n \in 0..(m + 1) : n <= m \/ n = m + 1
    BY <1>2
  <2>2. \A n \in 0..(m + 1) : n <= m => n \in 0..m
    BY <1>2
  <2>3. QED
    BY <1>1, <1>3, <2>1, <2>2
<1>5. ASSUME NEW n \in 0..(m + 1)
      PROVE  h[n] = Sift(log, c, h[n - 1], n)
  <2>1. CASE n = 0
    <3>1. h[0] = g[0] /\ g[0] = Sift(log, c, g[0 - 1], 0)
      BY <1>1, <1>2
    <3>2. QED
      BY <2>1, <3>1, SiftZero
  <2>2. CASE n \in 1..m
    <3>1. n - 1 \in 0..(m + 1) /\ n - 1 <= m /\ n \in 0..m
      BY <1>2, <2>2
    <3>2. QED
      BY <1>1, <3>1
  <2>3. CASE n = m + 1
    <3>1. n - 1 = m /\ m \in 0..(m + 1) /\ ~(n <= m)
      BY <1>2, <2>3
    <3>2. QED
      BY <2>3, <3>1
  <2>4. QED
    BY <1>2, <2>1, <2>2, <2>3
<1> HIDE DEF h
<1>6. QED
  BY <1>4, <1>5 DEF Sifted

LEMMA HistoryIsSifted ==
  ASSUME NEW s, s.log \in Seq(Record), NEW c
  PROVE  \E g \in Sifted(s.log, c, Len(s.log)) : GetByConversationId(s, c) = g[Len(s.log)]
<1> DEFINE log == s.log
           P   == {n \in Nat : Sifted(log, c, n) # {}}
<1>1. Len(log) \in Nat
  BY LenProperties
<1>2. 0 \in P /\ \A n \in 0..Len(log) : n \in P /\ n < Len(log) => n + 1 \in P
  BY <1>1, SiftedZero, SiftedNext
<1>3. 0..Len(log) \subseteq P
  <2> HIDE DEF P
  <2>1. QED
    BY <1>1, <1>2, Induction
<1>4. Sifted(log, c, Len(log)) # {}
  BY <1>1, <1>3
<1> DEFINE Found == CHOOSE g : g = [n \in 0..Len(log) |->
             IF n = 0 THEN <<>>
             ELSE IF log[n].conv = c THEN Append(g[n - 1], log[n]) ELSE g[n - 1]]
<1>5. PICK g \in [0..Len(log) -> Seq(Record)] :
             \A n \in 0..Len(log) : g[n] = Sift(log, c, g[n - 1], n)
  BY <1>4 DEF Sifted
<1>6. g = [n \in 0..Len(log) |->
             IF n = 0 THEN <<>>
             ELSE IF log[n].conv = c THEN Append(g[n - 1], log[n]) ELSE g[n - 1]]
  BY <1>5 DEF Sift
<1>7. Found = [n \in 0..Len(log) |->
             IF n = 0 THEN <<>>
             ELSE IF log[n].conv = c THEN Append(Found[n - 1], log[n]) ELSE Found[n - 1]]
  BY <1>6, Zenon
<1>8. GetByConversationId(s, c) = Found[Len(log)]
  BY DEF GetByConversationId
<1> HIDE DEF Found
<1>9. \A n \in 0..Len(log) : Found[n] = Sift(log, c, Found[n - 1], n)
  BY <1>7 DEF Sift
<1>10. Found \in [0..Len(log) -> Seq(Record)]
  <2> DEFINE T == {n \in Nat : Found[n] \in Seq(Record)}
  <2>1. 0 \in T
    <3>1. Found[0] = Sift(log, c, Found[0 - 1], 0)
      BY <1>1, <1>9
    <3>2. QED
      BY <3>1, EmptySeq DEF Sift
  <2>2. ASSUME NEW n \in 0..Len(log), n \in T, n < Len(log)
        PROVE  n + 1 \in T
    <3>1. n + 1 \in 0..Len(log) /\ (n + 1) - 1 = n /\ n + 1 \in Nat
      BY <1>1, <2>2
    <3>2. Found[n + 1] = Sift(log, c, Found[n], n + 1)
      BY <1>9, <3>1
    <3>3. QED
      BY <2>2, <3>1, <3>2, SiftType
  <2>3. 0..Len(log) \subseteq T
    <3> HIDE DEF T
    <3>1. QED
      BY <1>1, <2>1, <2>2, Induction
  <2>4. QED
    BY <1>7, <2>3
<1>11. Found \in Sifted(log, c, Len(log))
  BY <1>9, <1>10 DEF Sifted
<1>12. QED
  BY <1>8, <1>11

(* An interaction of the conversation that is in the log is in the history.*)
LEMMA HistoryHas ==
  ASSUME NEW s, s.log \in Seq(Record), NEW p \in 1..Len(s.log)
  PROVE  \E j \in DOMAIN GetByConversationId(s, s.log[p].conv) :
           GetByConversationId(s, s.log[p].conv)[j] = s.log[p]
<1> DEFINE log == s.log
           c   == log[p].conv
<1>1. PICK g \in Sifted(log, c, Len(log)) : GetByConversationId(s, c) = g[Len(log)]
  BY HistoryIsSifted
<1>2. /\ g \in [0..Len(log) -> Seq(Record)]
      /\ \A n \in 0..Len(log) : g[n] = Sift(log, c, g[n - 1], n)
  BY <1>1 DEF Sifted
<1>3. Len(log) \in Nat /\ log[p] \in Record
  BY LenProperties, ElementOfSeq
<1> DEFINE Has(q) == \E j \in DOMAIN q : q[j] = log[p]
           P == {n \in Nat : n < p \/ Has(g[n])}
<1>4. 0 \in P
  BY <1>3
<1>5. ASSUME NEW n \in 0..Len(log), n \in P, n < Len(log)
      PROVE  n + 1 \in P
  <2>1. /\ n + 1 \in 1..Len(log) /\ n + 1 \in 0..Len(log) /\ (n + 1) - 1 = n /\ n + 1 # 0
        /\ n + 1 \in Nat
    BY <1>3, <1>5
  <2>2. g[n + 1] = IF log[n + 1].conv = c THEN Append(g[n], log[n + 1]) ELSE g[n]
    <3>1. g[n + 1] = Sift(log, c, g[n], n + 1)
      BY <1>2, <2>1
    <3>2. QED
      BY <2>1, <3>1 DEF Sift
  <2>3. g[n] \in Seq(Record) /\ log[n + 1] \in Record
    BY <1>2, <2>1, ElementOfSeq
  <2> DEFINE longer == Append(g[n], log[n + 1])
  <2>4. /\ Len(longer) = Len(g[n]) + 1 /\ Len(g[n]) \in Nat /\ longer \in Seq(Record)
        /\ longer[Len(g[n]) + 1] = log[n + 1]
        /\ \A i \in 1..Len(g[n]) : longer[i] = g[n][i]
    BY <2>3, AppendProperties, LenProperties
  <2>5. DOMAIN longer = 1..(Len(g[n]) + 1) /\ DOMAIN g[n] = 1..Len(g[n])
    BY <2>3, <2>4, LenProperties
  <2> HIDE DEF longer
  <2>6. CASE n + 1 < p
    BY <2>1, <2>6
  <2>7. CASE n + 1 = p
    <3>1. g[n + 1] = longer
      BY <2>2, <2>7 DEF longer
    <3>2. Len(g[n]) + 1 \in DOMAIN longer
      BY <2>4, <2>5
    <3>3. Has(longer)
      BY <2>4, <2>7, <3>2
    <3>4. QED
      BY <2>1, <3>1, <3>3
  <2>8. CASE p < n + 1
    <3>1. ~(n < p)
      BY <1>3, <2>8
    <3>2. PICK j \in DOMAIN g[n] : g[n][j] = log[p]
      BY <1>5, <3>1
    <3>3. j \in 1..Len(g[n]) /\ j \in DOMAIN longer /\ longer[j] = log[p]
      BY <2>4, <2>5, <3>2
    <3>4. Has(g[n + 1])
      BY <2>2, <3>2, <3>3 DEF longer
    <3>5. QED
      BY <2>1, <3>4
  <2>9. QED
    BY <1>3, <2>6, <2>7, <2>8
<1>6. 0..Len(log) \subseteq P
  <2> HIDE DEF P
  <2>1. QED
    BY <1>3, <1>4, <1>5, Induction
<1>7. Has(g[Len(log)])
  <2>1. Len(log) \in P /\ ~(Len(log) < p)
    BY <1>3, <1>6
  <2>2. QED
    BY <2>1
<1>8. QED
  BY <1>1, <1>7

(* When an exchange has been answered, and as long as it is among those    *)
(* that the capacity keeps, the evaluator finds it in the history of its   *)
(* conversation, in the very store that the pipelines record in            *)
(* (get_by_conversation_id, on_response_body of the intercept filter).     *)
THEOREM AnsweredIsFound == Spec => []AnsweredIsInHistory
<1>1. ASSUME Inv
      PROVE  AnsweredIsInHistory
  <2> SUFFICES ASSUME NEW i \in DOMAIN ended, Len(ended) - i < Kept
               PROVE  LET history == GetByConversationId(store[pipeline], ex[ended[i]].conv)
                      IN \E j \in DOMAIN history : history[j].x = ended[i]
    BY DEF AnsweredIsInHistory
  <2> DEFINE s == store[feature]
             p == Len(s.log) - (Len(ended) - i)
  <2>1. Len(ended) \in Nat /\ i \in 1..Len(ended) /\ ended # <<>>
    BY <1>1, LenProperties, EmptySeq DEF Inv, Typed
  <2>2. pipeline = feature
    BY <1>1, <2>1 DEF Inv, Booted
  <2>3. s \in Store /\ s.log \in Seq(Record) /\ Len(s.log) \in Nat /\ s.capacity \in Nat
    <3>1. s \in Store
      BY <1>1, ElementOfSeq, LenProperties DEF Inv, Typed
    <3>2. s.log \in Seq(Record) /\ s.capacity \in Nat
      BY <3>1, StoreIs
    <3>3. QED
      BY <3>1, <3>2, LenProperties
  <2>4. /\ Len(s.log) = IF Len(ended) < Kept THEN Len(ended) ELSE Kept
        /\ \A k \in 1..Len(s.log) : s.log[k].x = ended[Len(ended) - Len(s.log) + k]
    BY <1>1 DEF Inv, WindowInv, Window, Listed, Kept
  <2>5. Kept \in Nat
    BY <2>3 DEF Kept
  <2>6. p \in 1..Len(s.log) /\ Len(ended) - Len(s.log) + p = i
    <3> DEFINE l == Len(s.log)
               e == Len(ended)
               k == Kept
    <3>1. /\ l \in Nat /\ e \in Nat /\ k \in Nat /\ i \in 1..e /\ e - i < k
          /\ l = IF e < k THEN e ELSE k
      BY <2>1, <2>3, <2>4, <2>5
    <3> HIDE DEF l, e, k
    <3>2. l - (e - i) \in 1..l /\ e - l + (l - (e - i)) = i
      BY <3>1
    <3>3. QED
      BY <3>2 DEF l, e
  <2>7. s.log[p].x = ended[i]
    BY <2>4, <2>6
  <2>8. s.log[p].conv = ex[ended[i]].conv
    <3>1. p \in DOMAIN Listed
      BY <2>3, <2>6, LenProperties DEF Listed
    <3>2. QED
      BY <1>1, <2>7, <3>1 DEF Inv, Faithful, Listed
  <2> DEFINE history == GetByConversationId(s, s.log[p].conv)
  <2>9. PICK j \in DOMAIN history : history[j] = s.log[p]
    <3> HIDE DEF s, p
    <3>1. QED
      BY <2>3, <2>6, HistoryHas
  <2>10. history[j].x = ended[i]
    BY <2>7, <2>9
  <2> HIDE DEF history
  <2>11. \E k \in DOMAIN history : history[k].x = ended[i]
    BY <2>10
  <2>12. QED
    BY <2>2, <2>8, <2>11 DEF history
<1>2. Inv => AnsweredIsInHistory
  BY <1>1
<1>3. QED
  BY <1>2, InitInv, NextInv, PTL DEF Spec
=============================================================================
