------------------------- MODULE ChatGatewayProofs -------------------------
(***************************************************************************)
(* For any messages, isolates, posts, faults and changes by the owner:     *)
(*                                                                         *)
(*   - an isolate that remembers a message charges it once.  The jobs that *)
(*     matter are those admitted or charged (Served): of each message an   *)
(*     isolate serves one (ServedOnce), because it has what it serves in   *)
(*     its memory (ServedIsSeen), and a job not yet posted is untouched    *)
(*     (UnpostedIsNew);                                                    *)
(*   - what is refused is not charged.  As long as no pause was undone the *)
(*     channel still refuses what it refused (RefusesStill), and a refused *)
(*     job never gets to the charge (RefusedIsHeld);                       *)
(*   - the variables keep their types, for finitely many messages: the     *)
(*     bound on the sum of the posts bounds the posts of each;             *)
(*   - as long as no call throws and the cron passes do not overlap, the   *)
(*     result of a question is told once.  What a poll has told it does    *)
(*     not leave to the cron pass, and what a pass has sent it takes away  *)
(*     before it lists again (Told).                                       *)
(***************************************************************************)
EXTENDS ChatGateway, SumTheorems, TLAPS

Memory == [seen : [Messages -> {"none", "fresh", "old"}], hits : Nat]
Job == [at : Points, on : Isolates \cup {NoIsolate}]
Channel == [platform : Platforms, backend : Backends,
            status : {"pending", "active", "paused"}, blocked : BOOLEAN, undone : BOOLEAN]

JobsOK ==
    /\ channel \in Channel
    /\ posts \in [Messages -> Nat]
    /\ memory \in [Isolates -> Memory]
    /\ job \in [Jobs -> Job]
    /\ charged \subseteq Jobs

Admitted == Points \ {"none", "hook", "hookwake", "done", "dropped"}
Served(j) == j \in charged \/ job[j].at \in Admitted
RefusedAt == {"none", "hook", "hookwake", "load", "wakeblocked", "done", "dropped"}

UnpostedIsNew == \A j \in Jobs : j[2] > posts[j[1]] => job[j].at = "none" /\ j \notin charged
HasIsolate == \A j \in Jobs : job[j].at # "none" => job[j].on \in Isolates
ChargedIsPosted == \A j \in charged : job[j].at # "none"
ServedIsSeen ==
    \A j \in Jobs : Served(j) => memory[job[j].on].seen[j[1]] = "fresh" \/ j[1] \in forgot
ServedOnce ==
    \A j, k \in Jobs : Served(j) /\ Served(k) /\ j[1] = k[1] /\ job[j].on = job[k].on
                       => j = k \/ j[1] \in forgot
RefusesStill == refused # {} => Refusing(channel) \/ channel.undone
RefusedIsHeld ==
    ~ channel.undone => \A j \in Jobs : j \in refused => job[j].at \in RefusedAt /\ j \notin charged

GatewayInv == /\ JobsOK /\ UnpostedIsNew /\ HasIsolate /\ ChargedIsPosted
              /\ ServedIsSeen /\ ServedOnce /\ RefusesStill /\ RefusedIsHeld

-----------------------------------------------------------------------------
(* A job is a message and the number of its post. *)
LEMMA JobParts == \A j \in Jobs : j[1] \in Messages /\ j[2] \in Nat /\ j = <<j[1], j[2]>>
  BY DEF Jobs

(* Before the first webhook nothing is posted, admitted or refused. *)
LEMMA InitGateway == ASSUME GatewayAssumption, Init PROVE GatewayInv
<1>1. JobsOK
  <2>1. channel \in Channel
    BY DEF Init, Channel
  <2>2. NothingSeen \in Memory
    BY DEF NothingSeen, Memory
  <2>3. [at |-> "none", on |-> NoIsolate] \in Job
    BY DEF Job, Points
  <2> QED
    BY <2>1, <2>2, <2>3 DEF Init, JobsOK
<1>2. \A j \in Jobs : job[j].at = "none" /\ j \notin charged
  BY DEF Init
<1>3. refused = {}
  BY DEF Init
<1> QED
  BY <1>1, <1>2, <1>3 DEF GatewayInv, UnpostedIsNew, HasIsolate, ChargedIsPosted, ServedIsSeen,
     ServedOnce, RefusesStill, RefusedIsHeld, Served, Admitted, JobsOK, RefusedAt

(* A step of the promise of one job: it goes on to be served only where it *)
(* was, it is charged only at the charge, and what refuses it holds it.    *)
LEMMA PromiseKeeps ==
    ASSUME GatewayInv, NEW j \in Jobs,
           job[j].at # "none",
           job' \in [Jobs -> Job], \A k \in Jobs \ {j} : job'[k] = job[k],
           job'[j].on = job[j].on, job'[j].at # "none",
           job'[j].at \in Admitted => job[j].at \in Admitted,
           charged' \subseteq Jobs,
           \A k \in Jobs \ {j} : k \in charged' <=> k \in charged,
           j \in charged => j \in charged',
           j \in charged' => j \in charged \/ job[j].at = "charge",
           UNCHANGED <<memory, posts, refused, forgot>>,
           channel' \in Channel,
           ~ channel'.undone => ~ channel.undone /\ (Refusing(channel) => Refusing(channel')),
           job[j].at \in RefusedAt /\ Refusing(channel) => job'[j].at \in RefusedAt
    PROVE  GatewayInv'
<1>1. JobsOK'
  BY DEF GatewayInv, JobsOK
<1>2. UnpostedIsNew' /\ HasIsolate' /\ ChargedIsPosted'
  BY JobParts DEF GatewayInv, JobsOK, UnpostedIsNew, HasIsolate, ChargedIsPosted
<1>3. \A k \in Jobs : (Served(k)' => Served(k)) /\ job'[k].on = job[k].on
  BY DEF Served, Admitted, Points
<1>4. ServedIsSeen' /\ ServedOnce'
  BY <1>3 DEF GatewayInv, ServedIsSeen, ServedOnce
<1>5. RefusesStill'
  BY DEF GatewayInv, RefusesStill, Channel
<1>6. RefusedIsHeld'
  BY DEF GatewayInv, RefusedIsHeld, RefusesStill, RefusedAt
<1> QED
  BY <1>1, <1>2, <1>4, <1>5, <1>6 DEF GatewayInv

(* Every step of a promise after the webhook is such a step. *)
LEMMA PromiseStepKeeps ==
    ASSUME GatewayInv, NEW j \in Jobs,
           \/ Load(j) \/ Wake(j) \/ Charge(j) \/ Create(j) \/ PollSees(j)
           \/ PollGivesUp(j) \/ Tell(j) \/ Note(j) \/ Store(j) \/ Throw(j)
    PROVE  GatewayInv'
<1> DEFINE Goes(x) == job' = [job EXCEPT ![j].at = x]
<1>1. \A x \in Points : Goes(x) => /\ job' \in [Jobs -> Job] /\ job'[j].at = x
                                   /\ job'[j].on = job[j].on
                                   /\ \A k \in Jobs \ {j} : job'[k] = job[k]
  BY DEF GatewayInv, JobsOK, Job
<1>2. UNCHANGED <<posts, refused, forgot, memory>>
  BY DEF Load, Wake, Charge, Create, PollSees, PollGivesUp, Tell, Note, Store, Throw, envVars
<1>3. \A x \in Points : Proceed(j, x) => Goes(x) \/ Goes("dropped")
  BY DEF Proceed
<1>4. CASE Wake(j)
  <2>1. /\ channel' \in Channel /\ charged' = charged
        /\ ~ channel'.undone => ~ channel.undone /\ (Refusing(channel) => Refusing(channel'))
    BY <1>4 DEF Wake, Activated, GatewayInv, JobsOK, Channel, Refusing
  <2>2. \/ job[j].at = "wake" /\ Goes("charge")
        \/ job[j].at = "wakeblocked" /\ Goes("done")
        \/ job[j].at \in {"wake", "wakeblocked"} /\ Goes("dropped")
    BY <1>4 DEF Wake, Proceed
  <2> QED
    BY <1>1, <1>2, <2>1, <2>2, PromiseKeeps DEF GatewayInv, JobsOK, Admitted, Points, RefusedAt
<1>5. CASE Load(j)
  <2>1. channel' = channel /\ charged' = charged /\ job[j].at = "load"
    BY <1>5 DEF Load
  <2>2. \/ Goes("done") \/ Goes("dropped") \/ Goes("wakeblocked")
        \/ ~ Refusing(channel) /\ (Goes("wake") \/ Goes("charge"))
    BY <1>5 DEF Load, Proceed, Refusing
  <2> QED
    BY <1>1, <1>2, <2>1, <2>2, PromiseKeeps DEF GatewayInv, JobsOK, Admitted, Points, RefusedAt
<1>6. CASE Charge(j)
  <2>1. /\ channel' = channel /\ charged' \in {charged, charged \cup {j}} /\ job[j].at = "charge"
        /\ Goes("create") \/ Goes("done") \/ Goes("dropped")
    BY <1>6 DEF Charge, Proceed
  <2> QED
    BY <1>1, <1>2, <2>1, PromiseKeeps DEF GatewayInv, JobsOK, Admitted, Points, RefusedAt
<1>7. CASE \/ Create(j) \/ PollSees(j) \/ PollGivesUp(j) \/ Tell(j) \/ Note(j) \/ Store(j)
  <2>1. /\ channel' = channel /\ charged' = charged
        /\ job[j].at \in {"create", "poll", "tell", "note", "store"}
    BY <1>7 DEF Create, PollSees, PollGivesUp, Tell, Note, Store
  <2>2. \/ Goes("poll") \/ Goes("done") \/ Goes("dropped") \/ Goes("tell")
        \/ Goes("store") \/ Goes("note")
    BY <1>7 DEF Create, PollSees, PollGivesUp, Tell, Note, Store, Proceed
  <2> QED
    BY <1>1, <1>2, <2>1, <2>2, PromiseKeeps DEF GatewayInv, JobsOK, Admitted, Points, RefusedAt
<1>8. CASE Throw(j)
  <2>1. /\ channel' = channel /\ charged' = charged
        /\ job[j].at \in Running /\ Goes("dropped")
    BY <1>8 DEF Throw
  <2> QED
    BY <1>1, <1>2, <2>1, PromiseKeeps DEF GatewayInv, JobsOK, Admitted, Points, RefusedAt, Running
<1> QED
  BY <1>4, <1>5, <1>6, <1>7, <1>8

(* Only what memory forgets, and no job, changes when entries expire.      *)
LEMMA ForgetKeeps ==
    ASSUME GatewayInv,
           memory' \in [Isolates -> Memory],
           forgot \subseteq forgot',
           \A i \in Isolates, m \in Messages :
               memory[i].seen[m] = "fresh" => memory'[i].seen[m] = "fresh" \/ m \in forgot',
           UNCHANGED <<channel, posts, refused, charged>>,
           job' \in [Jobs -> Job],
           \A j \in Jobs : \/ job'[j] = job[j]
                           \/ job[j].at # "none" /\ job'[j].at = "dropped" /\ job'[j].on = job[j].on
    PROVE  GatewayInv'
<1>1. JobsOK' /\ UnpostedIsNew' /\ HasIsolate' /\ ChargedIsPosted'
  BY DEF GatewayInv, JobsOK, UnpostedIsNew, HasIsolate, ChargedIsPosted
<1>2. \A k \in Jobs : (Served(k)' => Served(k)) /\ job'[k].on = job[k].on
  BY DEF Served, Admitted
<1>3. \A k \in Jobs : Served(k) => job[k].on \in Isolates
  BY DEF Served, Admitted, GatewayInv, HasIsolate, ChargedIsPosted
<1>4. ServedIsSeen' /\ ServedOnce'
  BY <1>2, <1>3, JobParts DEF GatewayInv, ServedIsSeen, ServedOnce
<1>5. RefusesStill' /\ RefusedIsHeld'
  BY DEF GatewayInv, RefusesStill, RefusedIsHeld, RefusedAt
<1> QED
  BY <1>1, <1>4, <1>5 DEF GatewayInv

(* An entry or a hit expires, or the isolate is recycled with its promises. *)
LEMMA MemoryKeeps ==
    ASSUME GatewayInv, NEW i \in Isolates, Expire(i) \/ Recycle(i)
    PROVE  GatewayInv'
<1>1. CASE Expire(i) /\ \E m \in Messages : IsDuplicate(i, m) /\ memory' = [memory EXCEPT ![i].seen[m] = "old"]
                                                              /\ forgot' = forgot \cup {m}
  <2>1. PICK m \in Messages : memory' = [memory EXCEPT ![i].seen[m] = "old"] /\ forgot' = forgot \cup {m}
    BY <1>1
  <2>2. memory' \in [Isolates -> Memory]
    BY <2>1 DEF GatewayInv, JobsOK, Memory
  <2>3. \A k \in Isolates, x \in Messages : memory'[k].seen[x] = memory[k].seen[x] \/ x = m
    BY <2>1 DEF GatewayInv, JobsOK, Memory
  <2>4. UNCHANGED <<channel, posts, refused, charged>> /\ job' = job /\ job' \in [Jobs -> Job]
    BY <1>1 DEF Expire, jobVars, GatewayInv, JobsOK
  <2>6. \A j \in Jobs : \/ job'[j] = job[j]
                        \/ job[j].at # "none" /\ job'[j].at = "dropped" /\ job'[j].on = job[j].on
    BY <2>4
  <2>5. /\ forgot \subseteq forgot'
        /\ \A k \in Isolates, x \in Messages :
               memory[k].seen[x] = "fresh" => memory'[k].seen[x] = "fresh" \/ x \in forgot'
    BY <2>1, <2>3
  <2> QED
    BY <2>2, <2>4, <2>5, <2>6, ForgetKeeps
<1>2. CASE Expire(i) /\ memory[i].hits > 0 /\ memory' = [memory EXCEPT ![i].hits = @ - 1] /\ forgot' = forgot
  <2>1. memory' \in [Isolates -> Memory]
    BY <1>2 DEF GatewayInv, JobsOK, Memory
  <2>2. \A k \in Isolates, x \in Messages : memory'[k].seen[x] = memory[k].seen[x]
    BY <1>2 DEF GatewayInv, JobsOK, Memory
  <2>3. UNCHANGED <<channel, posts, refused, charged>> /\ job' = job /\ job' \in [Jobs -> Job]
    BY <1>2 DEF Expire, jobVars, GatewayInv, JobsOK
  <2>5. \A j \in Jobs : \/ job'[j] = job[j]
                        \/ job[j].at # "none" /\ job'[j].at = "dropped" /\ job'[j].on = job[j].on
    BY <2>3
  <2>4. /\ forgot \subseteq forgot'
        /\ \A k \in Isolates, x \in Messages :
               memory[k].seen[x] = "fresh" => memory'[k].seen[x] = "fresh" \/ x \in forgot'
    BY <1>2, <2>2
  <2> QED
    BY <2>1, <2>3, <2>4, <2>5, ForgetKeeps
<1>3. CASE Recycle(i)
  <2>1. NothingSeen \in Memory
    BY DEF NothingSeen, Memory
  <2>2. memory' \in [Isolates -> Memory] /\ \A k \in Isolates \ {i} : memory'[k] = memory[k]
    BY <1>3, <2>1 DEF Recycle, GatewayInv, JobsOK
  <2>3. forgot' = forgot \cup {m \in Messages : memory[i].seen[m] # "none"}
    BY <1>3 DEF Recycle
  <2> DEFINE ended(j) == [job[j] EXCEPT !.at = "dropped"]
             lost == {j \in Jobs : job[j].on = i /\ job[j].at \in Running}
  <2>4. \A j \in Jobs : ended(j) \in Job /\ ended(j).at = "dropped" /\ ended(j).on = job[j].on
    <3>1. \A x \in Job : LET d == [x EXCEPT !.at = "dropped"]
                         IN d \in Job /\ d.at = "dropped" /\ d.on = x.on
      BY DEF Job, Points
    <3> QED
      BY <3>1, Zenon DEF GatewayInv, JobsOK
  <2>5. job' = [j \in Jobs |-> IF j \in lost THEN ended(j) ELSE job[j]]
    BY <1>3 DEF Recycle
  <2>6. /\ job' \in [Jobs -> Job]
        /\ \A j \in Jobs : \/ job'[j] = job[j]
                           \/ job[j].at # "none" /\ job'[j].at = "dropped" /\ job'[j].on = job[j].on
    <3>1. \A j \in lost : job[j].at # "none"
      BY DEF Running
    <3> HIDE DEF ended, lost
    <3> QED
      BY <2>4, <2>5, <3>1 DEF GatewayInv, JobsOK
  <2>7. UNCHANGED <<channel, posts, refused, charged>>
    BY <1>3 DEF Recycle
  <2> QED
    BY <2>2, <2>3, <2>6, <2>7, ForgetKeeps
<1> QED
  BY <1>1, <1>2, <1>3 DEF Expire

(* Remembering a message forgets no fresh one. *)
LEMMA RememberKeeps ==
    ASSUME NEW seen \in [Messages -> {"none", "fresh", "old"}], NEW m \in Messages
    PROVE  /\ Remember(seen, m) \in [Messages -> {"none", "fresh", "old"}]
           /\ Remember(seen, m)[m] = "fresh"
           /\ \A x \in Messages : seen[x] = "fresh" => Remember(seen, m)[x] = "fresh"
<1> DEFINE noted == [seen EXCEPT ![m] = "fresh"]
<1>1. /\ noted \in [Messages -> {"none", "fresh", "old"}] /\ noted[m] = "fresh"
      /\ \A x \in Messages : seen[x] = "fresh" => noted[x] = "fresh"
  OBVIOUS
<1>2. \/ Remember(seen, m) = noted
      \/ Remember(seen, m) = [x \in Messages |-> IF noted[x] = "old" THEN "none" ELSE noted[x]]
  BY DEF Remember
<1> HIDE DEF noted
<1> QED
  BY <1>1, <1>2

(* The webhook admits a new job, or one that waited at it: the isolate     *)
(* remembers the message from then on, and lets a second one go.           *)
LEMMA AdmitKeeps ==
    ASSUME GatewayInv, NEW j, j[1] \in Messages, NEW i \in Isolates, Admit(j, i),
           j \in Jobs => \/ job[j].on = i /\ job[j].at \in {"hook", "hookwake"}
                         \/ j \notin charged /\ job[j].at = "none",
           posts' \in [Messages -> Nat],
           \A m \in Messages : posts[m] <= posts'[m],
           j \in Jobs => j[2] <= posts'[j[1]],
           UNCHANGED <<charged, forgot>>,
           channel' \in Channel,
           ~ channel'.undone => ~ channel.undone /\ (Refusing(channel) => Refusing(channel')),
           refused' = refused \/ (refused' = refused \cup {j} /\ j \notin charged /\ Refusing(channel'))
    PROVE  GatewayInv'
<1> DEFINE at == job'[j].at
<1>1. /\ job' \in [Jobs -> Job] /\ \A k \in Jobs : k # j => job'[k] = job[k]
      /\ j \in Jobs => at \in {"load", "done"} /\ job'[j].on = i
      /\ j \in Jobs /\ at = "load" => ~ IsDuplicate(i, j[1])
  BY DEF Admit, GatewayInv, JobsOK, Job, Points
<1>2. /\ memory' \in [Isolates -> Memory]
      /\ \A k \in Isolates, m \in Messages :
             memory[k].seen[m] = "fresh" => memory'[k].seen[m] = "fresh"
      /\ memory'[i].seen[j[1]] = "fresh"
  <2> DEFINE m == j[1]
             seen == Remember(memory[i].seen, m)
             hits == IF channel.platform # "discord" THEN memory[i].hits + 1 ELSE memory[i].hits
  <2>1. CASE IsDuplicate(i, m)
    BY <2>1 DEF Admit, IsDuplicate, GatewayInv, JobsOK
  <2>2. CASE ~ IsDuplicate(i, m)
    <3>1. /\ seen \in [Messages -> {"none", "fresh", "old"}] /\ seen[m] = "fresh"
          /\ \A x \in Messages : memory[i].seen[x] = "fresh" => seen[x] = "fresh"
      BY <2>2, RememberKeeps DEF GatewayInv, JobsOK, Memory
    <3>2. hits \in Nat
      BY DEF GatewayInv, JobsOK, Memory
    <3>3. memory' = [memory EXCEPT ![i] = [seen |-> seen, hits |-> hits]]
      <4>1. memory[i] \in Memory
        BY DEF GatewayInv, JobsOK
      <4>2. \/ memory' = [memory EXCEPT ![i].seen = seen, ![i].hits = memory[i].hits + 1]
               /\ channel.platform # "discord"
            \/ memory' = [memory EXCEPT ![i].seen = seen, ![i].hits = memory[i].hits]
               /\ channel.platform = "discord"
        BY <2>2 DEF Admit
      <4> HIDE DEF m, seen
      <4> QED
        BY <4>1, <4>2 DEF GatewayInv, JobsOK, Memory
    <3> HIDE DEF m, seen, hits
    <3>4. [seen |-> seen, hits |-> hits] \in Memory
      BY <3>1, <3>2 DEF Memory
    <3>5. memory'[i].seen = seen /\ \A k \in Isolates \ {i} : memory'[k] = memory[k]
      BY <3>3 DEF GatewayInv, JobsOK
    <3>6. memory' \in [Isolates -> Memory]
      BY <3>3, <3>4 DEF GatewayInv, JobsOK
    <3> QED
      BY <3>1, <3>5, <3>6 DEF m
  <2> QED
    BY <2>1, <2>2
<1>3. JobsOK'
  BY <1>1, <1>2 DEF GatewayInv, JobsOK
<1>4. UnpostedIsNew' /\ HasIsolate' /\ ChargedIsPosted'
  BY <1>1, JobParts DEF GatewayInv, JobsOK, UnpostedIsNew, HasIsolate, ChargedIsPosted
<1>5. \A k \in Jobs : k # j => (Served(k)' <=> Served(k)) /\ job'[k].on = job[k].on
  BY <1>1 DEF Served
<1>6. \A k \in Jobs : Served(k) => job[k].on \in Isolates
  BY DEF Served, Admitted, GatewayInv, HasIsolate, ChargedIsPosted
<1>7. ServedIsSeen'
  BY <1>1, <1>2, <1>5, <1>6, JobParts DEF GatewayInv, ServedIsSeen
<1>8. ServedOnce'
  BY <1>1, <1>5, <1>6, JobParts DEF GatewayInv, ServedIsSeen, ServedOnce, Served, Admitted, IsDuplicate
<1>9. RefusesStill' /\ RefusedIsHeld'
  BY <1>1 DEF GatewayInv, JobsOK, Channel, RefusesStill, RefusedIsHeld, RefusedAt
<1> QED
  BY <1>3, <1>4, <1>7, <1>8, <1>9 DEF GatewayInv

(* The webhook of Slack looks at the channel before it admits the message. *)
LEMMA SlackHookKeeps ==
    ASSUME GatewayInv, NEW j \in Jobs, SlackHook(j) PROVE GatewayInv'
<1>1. /\ job[j].at \in {"hook", "hookwake"} /\ job[j].on \in Isolates
      /\ j[1] \in Messages /\ j[2] <= posts[j[1]] /\ posts \in [Messages -> Nat]
      /\ \A m \in Messages : posts[m] <= posts[m]
      /\ UNCHANGED <<charged, posts, forgot, refused>>
  BY JobParts DEF SlackHook, GatewayInv, JobsOK, HasIsolate, UnpostedIsNew, envVars
<1>2. CASE Admit(j, job[j].on) /\ (UNCHANGED channel \/ Activated)
  <2>1. /\ channel' \in Channel
        /\ ~ channel'.undone => ~ channel.undone /\ (Refusing(channel) => Refusing(channel'))
    BY <1>2 DEF Activated, GatewayInv, JobsOK, Channel, Refusing
  <2> DEFINE i == job[j].on
  <2>2. i \in Isolates /\ Admit(j, i) /\ job[j].on = i
    BY <1>1, <1>2
  <2> HIDE DEF i
  <2> QED
    BY <1>1, <2>1, <2>2, AdmitKeeps
<1>3. CASE \E x \in {"hookwake", "done"} : /\ job' = [job EXCEPT ![j].at = x]
                                           /\ UNCHANGED <<channel, memory>>
  <2>1. /\ job' \in [Jobs -> Job] /\ job'[j].at \in {"hookwake", "done"}
        /\ job'[j].on = job[j].on /\ \A k \in Jobs \ {j} : job'[k] = job[k]
    BY <1>3 DEF GatewayInv, JobsOK, Job, Points
  <2> QED
    BY <1>1, <1>3, <2>1, PromiseKeeps DEF GatewayInv, JobsOK, Admitted, RefusedAt
<1> QED
  BY <1>2, <1>3 DEF SlackHook

(* A webhook is a job that was not there before. *)
LEMMA PostKeeps ==
    ASSUME GatewayInv, NEW m \in Messages, NEW i \in Isolates, Post(m, i) PROVE GatewayInv'
<1> DEFINE j == <<m, posts[m] + 1>>
<1>1. /\ j[1] = m /\ j[1] \in Messages
      /\ j \in Jobs => j \notin charged /\ job[j].at = "none"
      /\ j \notin charged
      /\ UNCHANGED <<channel, charged, forgot>> /\ channel' \in Channel
      /\ refused' = refused \/ (refused' = refused \cup {j} /\ Refusing(channel'))
  BY DEF Post, GatewayInv, JobsOK, UnpostedIsNew
<1>2. /\ posts' \in [Messages -> Nat] /\ \A x \in Messages : posts[x] <= posts'[x]
      /\ j[2] <= posts'[j[1]]
  BY DEF Post, GatewayInv, JobsOK
<1>3. \/ Admit(j, i)
      \/ job' = [job EXCEPT ![j] = [at |-> "hook", on |-> i]] /\ UNCHANGED memory
  BY DEF Post
<1> HIDE DEF j
<1>4. CASE Admit(j, i)
  BY <1>1, <1>2, <1>4, AdmitKeeps
<1>5. CASE job' = [job EXCEPT ![j] = [at |-> "hook", on |-> i]] /\ UNCHANGED memory
  <2>1. /\ job' \in [Jobs -> Job] /\ \A k \in Jobs : k # j => job'[k] = job[k]
        /\ j \in Jobs => job'[j].at = "hook" /\ job'[j].on = i
    BY <1>5 DEF GatewayInv, JobsOK, Job, Points
  <2>2. JobsOK' /\ UnpostedIsNew' /\ HasIsolate' /\ ChargedIsPosted'
    BY <1>1, <1>2, <1>5, <2>1, JobParts DEF GatewayInv, JobsOK, UnpostedIsNew, HasIsolate, ChargedIsPosted
  <2>3. \A k \in Jobs : (Served(k)' => Served(k) /\ k # j) /\ (k # j => job'[k].on = job[k].on)
    BY <1>1, <2>1 DEF Served, Admitted
  <2>4. ServedIsSeen' /\ ServedOnce'
    BY <1>1, <1>5, <2>3 DEF GatewayInv, ServedIsSeen, ServedOnce
  <2>5. RefusesStill' /\ RefusedIsHeld'
    BY <1>1, <2>1 DEF GatewayInv, RefusesStill, RefusedIsHeld, RefusedAt
  <2> QED
    BY <2>2, <2>4, <2>5 DEF GatewayInv
<1> QED
  BY <1>3, <1>4, <1>5

(* The owner's change ends what is refused, unless the channel still       *)
(* refuses.                                                                *)
LEMMA OwnerKeeps == ASSUME GatewayInv, OwnerChanges PROVE GatewayInv'
<1>1. /\ channel' \in Channel /\ channel'.undone = channel.undone
      /\ refused' = IF Refusing(channel') THEN refused ELSE {}
  BY DEF OwnerChanges, GatewayInv, JobsOK, Channel
<1>2. UNCHANGED <<memory, posts, forgot, job, charged>>
  BY DEF OwnerChanges, jobVars
<1>3. JobsOK' /\ UnpostedIsNew' /\ HasIsolate' /\ ChargedIsPosted' /\ ServedIsSeen' /\ ServedOnce'
  BY <1>1, <1>2 DEF GatewayInv, JobsOK, UnpostedIsNew, HasIsolate, ChargedIsPosted, ServedIsSeen,
     ServedOnce, Served
<1>4. RefusesStill' /\ RefusedIsHeld'
  BY <1>1, <1>2 DEF GatewayInv, RefusesStill, RefusedIsHeld
<1> QED
  BY <1>3, <1>4 DEF GatewayInv

(* What neither the memory, the jobs nor the channel takes part in: the    *)
(* end of a task and the cron pass.                                        *)
LEMMA ElsewhereKeeps ==
    ASSUME GatewayInv, UNCHANGED <<channel, memory, job, charged, posts, refused, forgot>>
    PROVE  GatewayInv'
  BY DEF GatewayInv, JobsOK, UnpostedIsNew, HasIsolate, ChargedIsPosted, ServedIsSeen, ServedOnce,
     Served, RefusesStill, RefusedIsHeld

LEMMA NextKeepsGateway == ASSUME GatewayInv, [Next]_vars PROVE GatewayInv'
<1>1. CASE \E j \in Jobs : PromiseStep(j) \/ Throw(j)
  BY <1>1, SlackHookKeeps, PromiseStepKeeps DEF PromiseStep
<1>2. CASE \E j \in Jobs : WorkEnds(j)
  BY <1>2, ElsewhereKeeps DEF WorkEnds, envVars
<1>3. CASE \E i \in Isolates : Expire(i) \/ Recycle(i) \/ \E m \in Messages : Post(m, i)
  BY <1>3, MemoryKeeps, PostKeeps
<1>4. CASE \E p \in Passes : PassStep(p)
  BY <1>4, ElsewhereKeeps DEF PassStep, PassBegin, PassSkip, PassSend, PassLog, jobVars, envVars
<1>5. CASE OwnerChanges
  BY <1>5, OwnerKeeps
<1>6. CASE UNCHANGED vars
  BY <1>6, ElsewhereKeeps DEF vars, jobVars, envVars
<1> QED
  BY <1>1, <1>2, <1>3, <1>4, <1>5, <1>6 DEF Next

LEMMA GatewayHolds == Spec => []GatewayInv
  BY InitGateway, NextKeepsGateway, GatewayAssumption, PTL DEF Spec

(* An isolate that remembers a message charges it once, however often it   *)
(* is posted (isDuplicate of the gateway worker).                          *)
THEOREM MemoryChargesOnce == Spec => []ChargedOncePerMemory
<1>1. GatewayInv => ChargedOncePerMemory
  BY DEF GatewayInv, JobsOK, ServedOnce, Served, ChargedOncePerMemory
<1> QED
  BY <1>1, GatewayHolds, PTL

(* What arrives while the user is blocked or the channel paused is not     *)
(* charged, unless a heartbeat has undone a pause (getConnection).         *)
THEOREM RefusedStaysUncharged == Spec => []RefusedIsNotServed
<1>1. GatewayInv => RefusedIsNotServed
  BY DEF GatewayInv, JobsOK, Channel, RefusedIsHeld, RefusedIsNotServed
<1> QED
  BY <1>1, GatewayHolds, PTL

-----------------------------------------------------------------------------
(* The types of what GatewayInv does not speak of                          *)
Answer == [error : BOOLEAN, late : BOOLEAN, ack : BOOLEAN, result : 0 .. MaxTold]
Pass == [at : {"idle", "tasks", "runs"}, todo : SUBSET Jobs, sent : SUBSET Jobs]

RestOK ==
    /\ posts \in [Messages -> 0 .. MaxPosts]
    /\ work \in [Jobs -> Ended \cup {"none", "open"}]
    /\ refused \subseteq Jobs /\ stored \subseteq Jobs /\ logged \subseteq Jobs
    /\ told \in [Jobs -> Answer]
    /\ pass \in [Passes -> Pass]
    /\ forgot \subseteq Messages
    /\ faults \in 0 .. MaxEvents
    /\ owner \in 0 .. MaxEvents

LEMMA TypesAreThese == ASSUME GatewayInv, RestOK PROVE TypeOK
<1>1. job \in [Jobs -> [at: Points, on: Isolates \cup {NoIsolate}]]
  BY DEF GatewayInv, JobsOK, Job
<1>2. memory \in [Isolates -> [seen: [Messages -> {"none", "fresh", "old"}], hits: Nat]]
  BY DEF GatewayInv, JobsOK, Memory
<1>3. channel \in [platform: Platforms, backend: Backends,
                   status: {"pending", "active", "paused"}, blocked: BOOLEAN, undone: BOOLEAN]
  BY DEF GatewayInv, JobsOK, Channel
<1>4. charged \subseteq Jobs
  BY DEF GatewayInv, JobsOK
<1> QED
  BY <1>1, <1>2, <1>3, <1>4 DEF TypeOK, RestOK, Answer, Pass

LEMMA InitRest == ASSUME GatewayAssumption, Init PROVE RestOK
<1>1. NothingTold \in Answer
  BY DEF NothingTold, Answer, GatewayAssumption
<1>2. IdlePass \in Pass
  BY DEF IdlePass, Pass
<1> QED
  BY <1>1, <1>2 DEF Init, RestOK, GatewayAssumption

(* A flag of an answer is set.                                             *)
LEMMA FlagTold ==
    ASSUME NEW j \in Jobs, told \in [Jobs -> Answer],
           NEW x \in {"error", "late", "ack"}, Tells(j, x)
    PROVE  /\ told' \in [Jobs -> Answer]
           /\ \A k \in Jobs : told'[k].result = told[k].result
<1> DEFINE r == [told[j] EXCEPT ![x] = TRUE]
<1>1. r \in Answer /\ r.result = told[j].result
  BY DEF Answer
<1>2. told' = [told EXCEPT ![j] = r]
  BY DEF Tells
<1> HIDE DEF r
<1> QED
  BY <1>1, <1>2

(* The result of a job is told once more, or counted no further.           *)
LEMMA ResultTold ==
    ASSUME NEW j \in Jobs, told \in [Jobs -> Answer], MaxTold \in Nat, TellsResult(j)
    PROVE  /\ told' \in [Jobs -> Answer]
           /\ \A k \in Jobs \ {j} : told'[k] = told[k]
           /\ told'[j].result <= told[j].result + 1
<1> DEFINE n == IF told[j].result < MaxTold THEN told[j].result + 1 ELSE told[j].result
           r == [told[j] EXCEPT !.result = n]
<1>1. told' = [told EXCEPT ![j] = r]
  BY DEF TellsResult
<1>2. n \in 0 .. MaxTold /\ n <= told[j].result + 1
  BY DEF Answer
<1> HIDE DEF n
<1>3. r \in Answer /\ r.result = n
  BY <1>2 DEF Answer
<1> HIDE DEF r
<1> QED
  BY <1>1, <1>2, <1>3

(* A fault counts within the bound.                                        *)
LEMMA FaultCounts ==
    ASSUME RestOK, MaxEvents \in Nat, Fault \/ UNCHANGED faults
    PROVE  faults' \in 0 .. MaxEvents /\ (faults' = 0 => faults = 0 /\ ~ Fault)
  BY DEF RestOK, Fault

(* The webhooks of one message are no more than those of all.              *)
LEMMA PostIsJob ==
    ASSUME RestOK, GatewayAssumption, IsFiniteSet(Messages),
           NEW m \in Messages, NEW i \in Isolates, Post(m, i)
    PROVE  posts[m] + 1 \in 1 .. MaxPosts /\ <<m, posts[m] + 1>> \in Jobs
<1>1. \A x \in Messages : posts[x] \in Nat
  BY DEF RestOK
<1>2. posts[m] <= SumFunctionOnSet(posts, Messages) /\ SumFunctionOnSet(posts, Messages) \in Nat
  BY <1>1, SumOfNats
<1>3. SumFunctionOnSet(posts, Messages) < MaxPosts
  BY DEF Post
<1>4. MaxPosts \in Nat
  BY DEF GatewayAssumption
<1> QED
  BY <1>1, <1>2, <1>3, <1>4 DEF Jobs

LEMMA ListsAreJobs ==
    ASSUME RestOK PROVE PendingTasks \subseteq Jobs /\ PendingRuns \subseteq Jobs
  BY DEF RestOK, PendingTasks, PendingRuns

(* What a pass has left is less than before, or the runs it lists next.    *)
LEMMA RestIsLess ==
    ASSUME RestOK, NEW p \in Passes, NEW j
    PROVE  /\ Rest(p, j) \in Pass /\ Rest(p, j).sent = {}
           /\ \A k \in Rest(p, j).todo : (k \in pass[p].todo /\ k # j) \/ IsFlow(k)
<1>1. pass[p] \in Pass
  BY DEF RestOK
<1>2. CASE Rest(p, j) = IdlePass
  BY <1>2 DEF IdlePass, Pass
<1>3. CASE Rest(p, j) = Listed("runs", PendingRuns)
  BY <1>3, ListsAreJobs DEF Listed, Pass, PendingRuns
<1>4. CASE Rest(p, j) = [pass[p] EXCEPT !.todo = pass[p].todo \ {j}, !.sent = {}]
  BY <1>1, <1>4 DEF Pass
<1> QED
  BY <1>2, <1>3, <1>4 DEF Rest

(* Every step of a pass puts one record in its place.                      *)
PassBecomes(p, r) == pass' = [pass EXCEPT ![p] = r]

LEMMA PassBeginBecomes ==
    ASSUME RestOK, NEW p \in Passes, PassBegin(p)
    PROVE  \E r \in Pass : /\ PassBecomes(p, r) /\ r.sent = {} /\ pass[p].sent = {}
                           /\ r.todo \in {PendingTasks, PendingRuns}
<1>1. ASSUME NEW at \in {"tasks", "runs"}, NEW todo \in {PendingTasks, PendingRuns}
      PROVE  Listed(at, todo) \in Pass /\ Listed(at, todo).sent = {} /\ Listed(at, todo).todo = todo
  BY ListsAreJobs DEF Listed, Pass
<1>2. pass[p].sent = {}
  BY DEF PassBegin, IdlePass
<1> QED
  BY <1>1, <1>2 DEF PassBegin, PassBecomes

LEMMA PassSendBecomes ==
    ASSUME RestOK, NEW p \in Passes, NEW j \in Jobs, PassSend(p, j)
    PROVE  \E r \in Pass : PassBecomes(p, r) /\ r.sent = {j} /\ r.todo = pass[p].todo
<1>1. pass[p] \in Pass
  BY DEF RestOK
<1> DEFINE r == [pass[p] EXCEPT !.sent = {j}]
<1>2. r \in Pass /\ r.sent = {j} /\ r.todo = pass[p].todo
  BY <1>1 DEF Pass
<1>3. PassBecomes(p, r)
  BY DEF PassSend, PassBecomes
<1> QED
  BY <1>2, <1>3

LEMMA PassKeepsTypes ==
    ASSUME RestOK, NEW p \in Passes, NEW r \in Pass, PassBecomes(p, r)
    PROVE  pass' \in [Passes -> Pass] /\ pass'[p] = r /\ \A q \in Passes \ {p} : pass'[q] = pass[q]
  BY DEF RestOK, PassBecomes

-----------------------------------------------------------------------------
(* Every step keeps the types.                                             *)
LEMMA PromiseTypes ==
    ASSUME RestOK, GatewayAssumption, NEW j \in Jobs,
           PromiseStep(j) \/ Throw(j) \/ WorkEnds(j)
    PROVE  RestOK'
<1>1. faults' \in 0 .. MaxEvents
  <2>1. Fault \/ UNCHANGED faults
    BY DEF PromiseStep, Throw, WorkEnds, SlackHook, Load, Wake, Charge, Create, PollSees, PollGivesUp,
           Tell, Note, Store, Proceed
  <2> QED
    BY <2>1, FaultCounts DEF GatewayAssumption
<1>2. told' \in [Jobs -> Answer]
  <2>1. \/ UNCHANGED told
        \/ \E x \in {"error", "late", "ack"} : Tells(j, x)
        \/ TellsResult(j)
    BY DEF PromiseStep, Throw, WorkEnds, SlackHook, Load, Wake, Charge, Create, PollSees, PollGivesUp,
           Tell, Note, Store
  <2>2. told \in [Jobs -> Answer] /\ MaxTold \in Nat
    BY DEF RestOK, GatewayAssumption
  <2> QED
    BY <2>1, <2>2, FlagTold, ResultTold
<1>3. work' \in [Jobs -> Ended \cup {"none", "open"}]
  BY DEF PromiseStep, Throw, WorkEnds, SlackHook, Load, Wake, Charge, Create, PollSees, PollGivesUp,
         Tell, Note, Store, RestOK
<1>4. stored' \subseteq Jobs /\ logged' \subseteq Jobs
  BY DEF PromiseStep, Throw, WorkEnds, SlackHook, Load, Wake, Charge, Create, PollSees, PollGivesUp,
         Tell, Note, Store, RestOK, Recorded
<1>5. UNCHANGED <<posts, refused, forgot, owner, pass>>
  BY DEF PromiseStep, Throw, WorkEnds, SlackHook, Load, Wake, Charge, Create, PollSees, PollGivesUp,
         Tell, Note, Store, envVars
<1> QED
  BY <1>1, <1>2, <1>3, <1>4, <1>5 DEF RestOK

LEMMA IsolateTypes ==
    ASSUME RestOK, GatewayAssumption, IsFiniteSet(Messages), NEW i \in Isolates,
           Expire(i) \/ Recycle(i) \/ \E m \in Messages : Post(m, i)
    PROVE  RestOK'
<1>1. CASE Expire(i)
  BY <1>1 DEF Expire, RestOK, jobVars
<1>2. CASE Recycle(i)
  <2>1. faults' \in 0 .. MaxEvents
    BY <1>2, FaultCounts DEF Recycle, GatewayAssumption
  <2> QED
    BY <1>2, <2>1 DEF Recycle, RestOK
<1>3. ASSUME NEW m \in Messages, Post(m, i) PROVE RestOK'
  <2>1. posts[m] + 1 \in 1 .. MaxPosts /\ <<m, posts[m] + 1>> \in Jobs
    BY <1>3, PostIsJob
  <2>2. posts' \in [Messages -> 0 .. MaxPosts] /\ refused' \subseteq Jobs
    BY <1>3, <2>1 DEF Post, RestOK
  <2> QED
    BY <1>3, <2>2 DEF Post, RestOK
<1> QED
  BY <1>1, <1>2, <1>3

LEMMA PassTypes ==
    ASSUME RestOK, GatewayAssumption, NEW p \in Passes, PassStep(p)
    PROVE  RestOK'
<1>1. CASE PassBegin(p)
  <2>1. pass' \in [Passes -> Pass]
    BY <1>1, PassBeginBecomes, PassKeepsTypes
  <2> QED
    BY <1>1, <2>1 DEF PassBegin, RestOK, jobVars, envVars
<1>2. ASSUME NEW j \in Jobs, PassSkip(p, j) PROVE RestOK'
  <2>1. pass' \in [Passes -> Pass]
    BY <1>2, RestIsLess, PassKeepsTypes DEF PassSkip, PassBecomes
  <2>2. faults' \in 0 .. MaxEvents
    BY <1>2, FaultCounts DEF PassSkip, GatewayAssumption
  <2> QED
    BY <1>2, <2>1, <2>2 DEF PassSkip, RestOK, jobVars, envVars
<1>3. ASSUME NEW j \in Jobs, PassSend(p, j) PROVE RestOK'
  <2>1. pass' \in [Passes -> Pass]
    BY <1>3, PassSendBecomes, PassKeepsTypes
  <2>2. told' \in [Jobs -> Answer]
    BY <1>3, ResultTold DEF PassSend, RestOK, GatewayAssumption
  <2> QED
    BY <1>3, <2>1, <2>2 DEF PassSend, RestOK, envVars
<1>4. ASSUME NEW j \in Jobs, PassLog(p, j) PROVE RestOK'
  <2>1. pass' \in [Passes -> Pass]
    BY <1>4, RestIsLess, PassKeepsTypes DEF PassLog, PassBecomes
  <2>2. faults' \in 0 .. MaxEvents
    BY <1>4, FaultCounts DEF PassLog, GatewayAssumption
  <2> QED
    BY <1>4, <2>1, <2>2 DEF PassLog, RestOK, envVars
<1> QED
  BY <1>1, <1>2, <1>3, <1>4 DEF PassStep

LEMMA NextKeepsTypes ==
    ASSUME RestOK, GatewayAssumption, IsFiniteSet(Messages), [Next]_vars PROVE RestOK'
<1>1. CASE OwnerChanges
  BY <1>1 DEF OwnerChanges, RestOK, jobVars
<1>2. CASE UNCHANGED vars
  BY <1>2 DEF vars, RestOK, jobVars, envVars
<1> QED
  BY <1>1, <1>2, PromiseTypes, IsolateTypes, PassTypes DEF Next

(* Channels, memories, jobs, answers and passes keep their types, and the  *)
(* numbers their bounds: of finitely many messages none is posted more     *)
(* often than all of them may be (gateway-worker.js).                      *)
THEOREM GatewayStaysTyped == ASSUME IsFiniteSet(Messages) PROVE Spec => []TypeOK
<1>1. Init => RestOK
  BY InitRest, GatewayAssumption
<1>2. RestOK /\ [Next]_vars => RestOK'
  BY NextKeepsTypes, GatewayAssumption
<1>3. GatewayInv /\ RestOK => TypeOK
  BY TypesAreThese
<1> QED
  BY <1>1, <1>2, <1>3, GatewayHolds, PTL DEF Spec

-----------------------------------------------------------------------------
(* The result of a question.  A pass has sent at most one of its list.     *)
OnePass == \A p, q \in Passes : p = q

Listing(j) == \E p \in Passes : j \in pass[p].todo
Sending(j) == \E p \in Passes : j \in pass[p].sent

SentIsListed == \A p \in Passes : pass[p].sent = {} \/ \E j \in pass[p].todo : pass[p].sent = {j}

Told(j) ==
    /\ told[j].result <= 1
    /\ told[j].result > 0 => job[j].at \in {"note", "done"}
    /\ j \in stored => job[j].at = "done" /\ (told[j].result = 0 \/ Sending(j))
    /\ Listing(j) => j \in stored

ToldInv == /\ SentIsListed
           /\ faults = 0 => \A j \in Jobs : IsFlow(j) \/ Told(j)

LEMMA InitTold == ASSUME GatewayAssumption, Init PROVE ToldInv
<1>1. \A j \in Jobs : told[j].result = 0 /\ j \notin stored
  BY DEF Init, NothingTold
<1>2. \A p \in Passes : pass[p].todo = {} /\ pass[p].sent = {}
  BY DEF Init, IdlePass
<1> QED
  BY <1>1, <1>2 DEF ToldInv, SentIsListed, Told, Listing, Sending

(* A step of a promise: until it logs, the cron pass knows nothing of it.  *)
LEMMA PromiseTells ==
    ASSUME ToldInv, RestOK, RestOK', faults = 0, NEW j,
           j \in Jobs /\ ~ IsFlow(j) =>
               /\ job[j].at # "done"
               /\ told'[j].result <= 1
               /\ told'[j].result > 0 => job'[j].at \in {"note", "done"}
               /\ j \in stored' => job'[j].at = "done" /\ told'[j].result = 0,
           \A k \in Jobs : k # j => /\ job'[k].at = job[k].at
                                    /\ told'[k].result = told[k].result
                                    /\ k \in stored' <=> k \in stored,
           pass' = pass
    PROVE  ToldInv'
<1>1. \A k : (Listing(k)' <=> Listing(k)) /\ (Sending(k)' <=> Sending(k))
  BY DEF Listing, Sending
<1>2. \A k \in Jobs : IsFlow(k) \/ Told(k)
  BY DEF ToldInv
<1>3. ASSUME NEW k \in Jobs, ~ IsFlow(k), k # j PROVE Told(k)'
  <2>1. /\ job'[k].at = job[k].at /\ told'[k].result = told[k].result
        /\ k \in stored' <=> k \in stored
    BY <1>3
  <2>2. Told(k) /\ (Listing(k)' <=> Listing(k)) /\ (Sending(k)' <=> Sending(k))
    BY <1>1, <1>2, <1>3
  <2> QED
    BY <2>1, <2>2 DEF Told
<1>4. ASSUME j \in Jobs, ~ IsFlow(j) PROVE Told(j)'
  BY <1>1, <1>2, <1>4 DEF Told
<1>5. SentIsListed'
  BY DEF ToldInv, SentIsListed
<1> QED
  BY <1>3, <1>4, <1>5 DEF ToldInv, IsFlow

LEMMA NoFaultNow ==
    ASSUME RestOK, Fault \/ UNCHANGED faults, faults' = 0 PROVE faults = 0 /\ ~ Fault
  BY DEF RestOK, Fault

(* A fault, or what has happened since one: nothing is claimed of answers. *)
LEMMA FaultTells ==
    ASSUME ToldInv, faults' # 0, SentIsListed' PROVE ToldInv'
  BY DEF ToldInv

LEMMA PromiseStepTells ==
    ASSUME ToldInv, RestOK, RestOK', GatewayInv, GatewayAssumption, NEW j \in Jobs,
           PromiseStep(j) \/ Throw(j) \/ WorkEnds(j)
    PROVE  ToldInv'
<1>1. pass' = pass /\ SentIsListed'
  BY DEF PromiseStep, Throw, WorkEnds, SlackHook, Load, Wake, Charge, Create, PollSees, PollGivesUp,
         Tell, Note, Store, ToldInv, SentIsListed
<1>2. Fault \/ UNCHANGED faults
  BY DEF PromiseStep, Throw, WorkEnds, SlackHook, Load, Wake, Charge, Create, PollSees, PollGivesUp,
         Tell, Note, Store, Proceed
<1> SUFFICES ASSUME faults' = 0 PROVE ToldInv'
  BY <1>1, FaultTells
<1>3. faults = 0 /\ ~ Fault
  BY <1>2, NoFaultNow
<1>4. (~ IsFlow(j) => Told(j)) /\ job \in [Jobs -> Job] /\ job[j] \in Job
  BY <1>3 DEF ToldInv, GatewayInv, JobsOK
<1>5. told \in [Jobs -> Answer] /\ MaxTold \in Nat /\ told[j].result \in Nat
  BY DEF RestOK, GatewayAssumption, Answer
<1>6. \A at : Proceed(j, at) => job' = [job EXCEPT ![j].at = at]
  BY <1>3 DEF Proceed
<1>7. \A at : job' = [job EXCEPT ![j].at = at] =>
                 job'[j].at = at /\ \A k \in Jobs : k # j => job'[k].at = job[k].at
  BY <1>4 DEF Job
<1>8. CASE SlackHook(j)
  <2>1. UNCHANGED <<told, stored>> /\ job[j].at \in {"hook", "hookwake"}
        /\ \A k \in Jobs : k # j => job'[k].at = job[k].at
    BY <1>7, <1>8, <1>4 DEF SlackHook, Admit
  <2> QED
    BY <1>1, <1>3, <1>4, <2>1, PromiseTells DEF Told
<1>9. CASE Load(j) \/ Wake(j) \/ Charge(j) \/ Create(j) \/ PollSees(j) \/ PollGivesUp(j)
  <2>1. /\ stored' = stored /\ job[j].at \in Running \ {"note", "tell", "store"}
        /\ \E at \in Points : job' = [job EXCEPT ![j].at = at]
    BY <1>6, <1>9 DEF Load, Wake, Charge, Create, PollSees, PollGivesUp, Running, Points
  <2>2. \A k \in Jobs : told'[k].result = told[k].result
    <3>1. told' = told \/ \E x \in {"error", "late", "ack"} : Tells(j, x)
      BY <1>9 DEF Load, Wake, Charge, Create, PollSees, PollGivesUp
    <3> QED
      BY <1>5, <3>1, FlagTold
  <2> QED
    BY <1>1, <1>3, <1>4, <1>5, <1>7, <2>1, <2>2, PromiseTells DEF Told, Running
<1>10. CASE Tell(j)
  <2>1. stored' = stored /\ job[j].at = "tell" /\ job' = [job EXCEPT ![j].at = "note"] /\ TellsResult(j)
    BY <1>6, <1>10 DEF Tell
  <2>2. /\ told'[j].result <= told[j].result + 1
        /\ \A k \in Jobs : k # j => told'[k].result = told[k].result
    BY <1>5, <2>1, ResultTold
  <2> QED
    BY <1>1, <1>3, <1>4, <1>5, <1>7, <2>1, <2>2, PromiseTells DEF Told
<1>11. CASE Note(j)
  <2>1. stored' = stored /\ job[j].at = "note" /\ job' = [job EXCEPT ![j].at = "done"] /\ told' = told
    BY <1>6, <1>11 DEF Note
  <2> QED
    BY <1>1, <1>3, <1>4, <1>5, <1>7, <2>1, PromiseTells DEF Told
<1>12. CASE Store(j)
  <2>1. /\ stored' \in {stored, stored \cup {j}} /\ job[j].at = "store"
        /\ job' = [job EXCEPT ![j].at = "done"] /\ told' = told
    BY <1>6, <1>12 DEF Store, Recorded
  <2> QED
    BY <1>1, <1>3, <1>4, <1>5, <1>7, <2>1, PromiseTells DEF Told
<1>13. CASE Throw(j)
  BY <1>3, <1>13 DEF Throw
<1>14. CASE WorkEnds(j)
  <2>1. UNCHANGED <<told, stored, job, pass>>
    BY <1>14 DEF WorkEnds
  <2> QED
    BY <1>3, <2>1 DEF ToldInv, SentIsListed, Told, Listing, Sending
<1> QED
  BY <1>8, <1>9, <1>10, <1>11, <1>12, <1>13, <1>14 DEF PromiseStep

(* A webhook is a job of which nothing has been told.                      *)
LEMMA IsolateTells ==
    ASSUME ToldInv, RestOK, RestOK', GatewayInv, GatewayAssumption, IsFiniteSet(Messages),
           NEW i \in Isolates, Expire(i) \/ Recycle(i) \/ \E m \in Messages : Post(m, i)
    PROVE  ToldInv'
<1>1. CASE Expire(i)
  <2>1. UNCHANGED <<told, stored, job, pass, faults>>
    BY <1>1 DEF Expire, jobVars
  <2> QED
    BY <2>1 DEF ToldInv, SentIsListed, Told, Listing, Sending
<1>2. CASE Recycle(i)
  <2>1. faults' # 0 /\ SentIsListed'
    BY <1>2 DEF Recycle, Fault, RestOK, ToldInv, SentIsListed
  <2> QED
    BY <2>1, FaultTells
<1>3. ASSUME NEW m \in Messages, Post(m, i) PROVE ToldInv'
  <2> DEFINE j == <<m, posts[m] + 1>>
  <2>1. j \in Jobs /\ job[j].at = "none"
    BY <1>3, PostIsJob DEF GatewayInv, UnpostedIsNew, JobsOK
  <2>2. UNCHANGED <<told, stored, pass, faults>>
    BY <1>3 DEF Post
  <2>3. \A k \in Jobs : k # j => job'[k].at = job[k].at
    BY <1>3 DEF Post, Admit, GatewayInv, JobsOK
  <2> HIDE DEF j
  <2>4. CASE faults = 0
    <3>1. IsFlow(j) \/ Told(j)
      BY <2>1, <2>4 DEF ToldInv
    <3>2. told[j].result \in Nat
      BY <2>1 DEF RestOK, Answer
    <3> QED
      BY <2>1, <2>2, <2>3, <2>4, <3>1, <3>2, PromiseTells DEF Told
  <2>5. CASE faults # 0
    BY <2>2, <2>5, FaultTells DEF ToldInv, SentIsListed
  <2> QED
    BY <2>4, <2>5
<1> QED
  BY <1>1, <1>2, <1>3

(* A pass tells what is stored and not told, and stores no more.           *)
LEMMA PassTells ==
    ASSUME ToldInv, RestOK, RestOK', GatewayAssumption, OnePass, NEW p \in Passes, PassStep(p)
    PROVE  ToldInv'
<1>0. \A q \in Passes : q = p
  BY DEF OnePass
<1>1. /\ \A k : (Listing(k) <=> k \in pass[p].todo) /\ (Sending(k) <=> k \in pass[p].sent)
      /\ \A k : (Listing(k)' <=> k \in pass'[p].todo) /\ (Sending(k)' <=> k \in pass'[p].sent)
      /\ pass[p].sent = {} \/ \E j \in pass[p].todo : pass[p].sent = {j}
      /\ SentIsListed' <=> (pass'[p].sent = {} \/ \E j \in pass'[p].todo : pass'[p].sent = {j})
  BY <1>0 DEF Listing, Sending, ToldInv, SentIsListed
<1>2. \A k \in Jobs : told[k].result \in Nat
  BY DEF RestOK, Answer
<1>3. CASE PassBegin(p)
  <2>1. PICK r \in Pass : /\ PassBecomes(p, r) /\ r.sent = {} /\ pass[p].sent = {}
                          /\ r.todo \in {PendingTasks, PendingRuns}
    BY <1>3, PassBeginBecomes
  <2>2. pass'[p] = r
    BY <2>1, PassKeepsTypes
  <2>3. \A k \in r.todo : k \in stored \/ IsFlow(k)
    BY <2>1 DEF PendingTasks, PendingRuns
  <2>4. UNCHANGED <<told, stored, job, faults>>
    BY <1>3 DEF PassBegin, jobVars
  <2>5. \A k \in Jobs : Told(k) /\ ~ IsFlow(k) => Told(k)'
    BY <1>1, <2>1, <2>2, <2>3, <2>4 DEF Told
  <2> QED
    BY <1>1, <2>1, <2>2, <2>4, <2>5 DEF ToldInv, IsFlow
<1>4. ASSUME NEW j \in Jobs, PassSkip(p, j) PROVE ToldInv'
  <2>1. pass'[p] = Rest(p, j) /\ Rest(p, j).sent = {} /\ pass[p].sent = {}
    BY <1>4, RestIsLess, PassKeepsTypes DEF PassSkip, PassBecomes
  <2>2. \A k \in Rest(p, j).todo : k \in pass[p].todo \/ IsFlow(k)
    BY RestIsLess
  <2>3. UNCHANGED <<told, stored, job>> /\ (Fault \/ UNCHANGED faults)
    BY <1>4 DEF PassSkip, jobVars
  <2>4. \A k \in Jobs : Told(k) /\ ~ IsFlow(k) => Told(k)'
    BY <1>1, <2>1, <2>2, <2>3 DEF Told
  <2>5. faults' = 0 => faults = 0
    BY <2>3, NoFaultNow
  <2> QED
    BY <1>1, <2>1, <2>4, <2>5 DEF ToldInv, IsFlow
<1>5. ASSUME NEW j \in Jobs, PassSend(p, j) PROVE ToldInv'
  <2>1. PICK r \in Pass : PassBecomes(p, r) /\ r.sent = {j} /\ r.todo = pass[p].todo
    BY <1>5, PassSendBecomes
  <2>2. pass'[p] = r /\ pass[p].sent = {} /\ j \in pass[p].todo
    BY <1>5, <2>1, PassKeepsTypes DEF PassSend
  <2>3. UNCHANGED <<stored, job, faults>> /\ TellsResult(j)
    BY <1>5 DEF PassSend
  <2>4. /\ told'[j].result <= told[j].result + 1
        /\ \A k \in Jobs : k # j => told'[k].result = told[k].result
    BY <2>3, ResultTold DEF RestOK, GatewayAssumption
  <2>5. \A k \in Jobs : k # j /\ Told(k) => Told(k)'
    BY <1>1, <2>1, <2>2, <2>3, <2>4 DEF Told
  <2>6. Told(j) => Told(j)'
    <3>1. Told(j) => j \in stored /\ told[j].result = 0 /\ job[j].at = "done"
      BY <1>1, <2>2 DEF Told
    <3>2. told'[j].result \in Nat
      BY DEF RestOK, Answer
    <3> QED
      BY <1>1, <1>2, <2>1, <2>2, <2>3, <2>4, <3>1, <3>2 DEF Told
  <2>7. SentIsListed'
    BY <1>1, <2>1, <2>2
  <2> QED
    BY <2>3, <2>5, <2>6, <2>7 DEF ToldInv, IsFlow
<1>6. ASSUME NEW j \in Jobs, PassLog(p, j) PROVE ToldInv'
  <2>1. pass'[p] = Rest(p, j) /\ Rest(p, j).sent = {} /\ pass[p].sent = {j}
    <3>1. pass'[p] = Rest(p, j) /\ Rest(p, j).sent = {}
      BY <1>6, RestIsLess, PassKeepsTypes DEF PassLog, PassBecomes
    <3>2. j \in pass[p].sent
      BY <1>6 DEF PassLog
    <3> QED
      BY <1>1, <3>1, <3>2
  <2>2. \A k \in Rest(p, j).todo : (k \in pass[p].todo /\ k # j) \/ IsFlow(k)
    BY RestIsLess
  <2>3. SentIsListed'
    BY <1>1, <2>1
  <2>4. CASE Fault
    BY <2>3, <2>4, FaultTells DEF Fault, RestOK
  <2>5. CASE ~ Fault
    <3>1. stored' = stored \ {j} /\ UNCHANGED <<told, job, faults>>
      BY <1>6, <2>5 DEF PassLog
    <3>2. \A k \in Jobs : Told(k) /\ ~ IsFlow(k) => Told(k)'
      BY <1>1, <2>1, <2>2, <3>1 DEF Told
    <3> QED
      BY <2>3, <3>1, <3>2 DEF ToldInv, IsFlow
  <2> QED
    BY <2>4, <2>5
<1> QED
  BY <1>3, <1>4, <1>5, <1>6 DEF PassStep

LEMMA NextTells ==
    ASSUME ToldInv, RestOK, RestOK', GatewayInv, GatewayAssumption, IsFiniteSet(Messages), OnePass,
           [Next]_vars
    PROVE  ToldInv'
<1>1. CASE OwnerChanges \/ UNCHANGED vars
  <2>1. UNCHANGED <<told, stored, job, pass, faults>>
    BY <1>1 DEF OwnerChanges, vars, jobVars
  <2> QED
    BY <2>1 DEF ToldInv, SentIsListed, Told, Listing, Sending
<1> QED
  BY <1>1, PromiseStepTells, IsolateTells, PassTells DEF Next

(* As long as no call throws and no cron pass overlaps another, the result *)
(* of a question reaches the user at most once (the polls and              *)
(* deliverPendingResponses of the gateway worker).                         *)
THEOREM OnePassTellsOnce ==
    ASSUME IsFiniteSet(Messages), OnePass PROVE Spec => []ResultIsToldOnce
<1>1. Init => RestOK /\ ToldInv
  BY InitRest, InitTold, GatewayAssumption
<1>2. RestOK /\ [Next]_vars => RestOK'
  BY NextKeepsTypes, GatewayAssumption
<1>3. ToldInv /\ RestOK /\ RestOK' /\ GatewayInv /\ [Next]_vars => ToldInv'
  BY NextTells, GatewayAssumption
<1>4. ToldInv => ResultIsToldOnce
  BY DEF ToldInv, ResultIsToldOnce, Told
<1> QED
  BY <1>1, <1>2, <1>3, <1>4, GatewayHolds, PTL DEF Spec
=============================================================================
