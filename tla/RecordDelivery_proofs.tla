------------------------- MODULE RecordDelivery_proofs -------------------------
(***************************************************************************)
(* Proofs about StorageService, for any clients, channel and queue: the    *)
(* state keeps its type, and every question that is asked has either its   *)
(* one place in the channel or its own answer in the client's signal.      *)
(*                                                                         *)
(* Then RecordDelivery implements StorageService: whatever the network,    *)
(* the server and the central do, the uploader and the BLE session are     *)
(* clients as StorageService takes them to be, so what is proved for any   *)
(* client holds of them.                                                   *)
(*                                                                         *)
(* Last, what the numbers of records are good for: measurements keep their *)
(* order, no two records share a number, an acknowledgement names the      *)
(* record its client holds, and only delivered records leave. All of that  *)
(* rests on NumbersLast: the numbers outlast the measurements.             *)
(***************************************************************************)
EXTENDS RecordDelivery, SpoolRecords_proofs

-----------------------------------------------------------------------------
(* The spool of SpoolFifo.                                                 *)

LEMMA SpoolPush ==
    ASSUME NEW q \in Seq(Record), Len(q) <= Capacity, NEW r \in Record
    PROVE  /\ Spool!Push(q, r) \in Seq(Record)
           /\ Len(Spool!Push(q, r)) \in 1 .. Capacity
<1>1. Spool!Push(q, r) = Push(q, r)
  BY DEF Spool!Push, Push
<1>. QED
  BY <1>1, PushProperties

\* The newest record always stays (FirstFitting of SpoolRecords).
LEMMA SpoolFirstFitting ==
    ASSUME NEW q \in Seq(Record), q # <<>>
    PROVE  Spool!FirstFitting(q) \in 1 .. Len(q)
<1>. DEFINE T == {k \in 1 .. Len(q) : k = Len(q) \/ Spool!FitsRegion(Spool!From(q, k))}
<1>1. T \in SUBSET Nat /\ Len(q) \in T
  OBVIOUS
<1>2. PICK k \in T : \A j \in T : k <= j
  BY <1>1, LeastElement
<1>3. \E n \in 1 .. Len(q) :
          /\ n = Len(q) \/ Spool!FitsRegion(Spool!From(q, n))
          /\ \A j \in 1 .. n - 1 : ~Spool!FitsRegion(Spool!From(q, j))
  <2>1. \A j \in 1 .. k - 1 : ~Spool!FitsRegion(Spool!From(q, j))
    BY <1>1, <1>2
  <2>. QED
    BY <1>2, <2>1
<1>. QED
  BY <1>3 DEF Spool!FirstFitting

LEMMA SpoolAppend ==
    ASSUME NEW q \in Seq(Record), Len(q) <= Capacity, NEW r \in Record
    PROVE  /\ Spool!Fitting(Spool!Push(q, r)) \in Seq(Record)
           /\ Len(Spool!Fitting(Spool!Push(q, r))) <= Capacity
<1>. DEFINE p == Spool!Push(q, r)
            k == Spool!FirstFitting(p)
<1>1. p \in Seq(Record) /\ Len(p) \in 1 .. Capacity /\ p # <<>>
  BY SpoolPush
<1>2. k \in 1 .. Len(p)
  BY <1>1, SpoolFirstFitting
<1>3. Spool!Fitting(p) = From(p, k)
  BY DEF Spool!Fitting, Spool!From, From
<1>. HIDE DEF p, k
<1>4. From(p, k) \in Seq(Record) /\ Len(From(p, k)) = Len(p) - k + 1
  BY <1>1, <1>2, FromProperties
<1>5. Len(From(p, k)) <= Capacity
  BY <1>1, <1>2, <1>4, SpoolAssumption
<1>. QED
  BY <1>3, <1>4, <1>5 DEF p
-----------------------------------------------------------------------------
(* The channel and the signals.                                            *)

\* Appends carry a measurement, questions their client (StorageCommand), and
\* a client sends nothing but questions.
WellFormed(request) ==
    /\ request \in Command
    /\ request.op = "append" => request.about \in Payloads
    /\ request.op # "append" => request.from \in Clients

CommandsWellFormed ==
    /\ \A i \in DOMAIN requests : WellFormed(requests[i])
    /\ \A i \in DOMAIN requests : requests[i].op = "append" => requests[i].from = "aggregator"
    /\ \A c \in Clients : command[c].from = c /\ command[c].op # "append"

\* The inductive invariant.
ServiceInv == TypeService /\ CommandsWellFormed /\ OneOutstanding

\* What the channel, the signals and the clients need to be.
TypeChannel ==
    /\ requests \in Seq(Command) /\ Len(requests) <= ChannelCapacity
    /\ reply \in [Clients -> Seq(Response)]
    /\ stage \in [Clients -> {"idle", "sending", "waiting"}]
    /\ command \in [Clients -> Command]
    /\ held \in [Clients -> Seq(StoredPayload)]

ChannelInv == TypeChannel /\ CommandsWellFormed /\ OneOutstanding

\* The rest of the type.
TypeTask ==
    /\ queue \in Seq(Record) /\ Len(queue) <= Capacity
    /\ next_sequence \in Sequence
    /\ storage \in {"recovering", "ready", "unavailable"}
    /\ first_of_boot \in Sequence
    /\ pending_count \in 0 .. Capacity
    /\ measured \in 0 .. MaxMeasurements
    /\ booted_at \in 0 .. measured
    /\ diverged \in Divergence
    /\ troubles \in 0 .. MaxTroubles

LEMMA ServiceInvSplit == ServiceInv <=> TypeTask /\ ChannelInv
BY DEF ServiceInv, TypeTask, ChannelInv, TypeService, TypeChannel

\* The channel part only looks at these variables.
LEMMA ChannelUnchanged ==
    ASSUME ChannelInv, UNCHANGED <<requests, reply, stage, command, held>>
    PROVE  ChannelInv'
BY DEF ChannelInv, TypeChannel, CommandsWellFormed, OneOutstanding, InChannel

\* In the channel before and after a command was taken from its front.
LEMMA AfterTail ==
    ASSUME NEW q \in Seq(Command), q # <<>>
    PROVE  /\ Tail(q) \in Seq(Command)
           /\ Len(Tail(q)) = Len(q) - 1
           /\ DOMAIN Tail(q) = 1 .. Len(q) - 1
           /\ \A i \in 1 .. Len(q) - 1 : Tail(q)[i] = q[i + 1]
OBVIOUS

LEMMA AfterAppend ==
    ASSUME NEW q \in Seq(Command), NEW request \in Command
    PROVE  /\ Append(q, request) \in Seq(Command)
           /\ Len(Append(q, request)) = Len(q) + 1
           /\ DOMAIN Append(q, request) = 1 .. Len(q) + 1
           /\ \A i \in 1 .. Len(q) : Append(q, request)[i] = q[i]
           /\ Append(q, request)[Len(q) + 1] = request
OBVIOUS

\* An answer is signalled for the command at the front: its client waits, has
\* no answer yet and no other command in the channel.
LEMMA FrontIsOnly ==
    ASSUME ChannelInv, requests # <<>>, Current.op # "append"
    PROVE  /\ Current.from \in Clients
           /\ stage[Current.from] = "waiting"
           /\ reply[Current.from] = <<>>
           /\ InChannel(Current.from) = {1}
           /\ Current = command[Current.from]
           /\ Current = requests[1]
           /\ 1 \in DOMAIN requests
<1>1. 1 \in DOMAIN requests /\ Current = requests[1]
  BY DEF ChannelInv, TypeChannel, Current
<1>2. PICK c : c = Current.from
  OBVIOUS
<1>3. c \in Clients
  BY <1>1, <1>2 DEF ChannelInv, CommandsWellFormed, WellFormed
<1>4. 1 \in InChannel(c)
  BY <1>1, <1>2 DEF InChannel
<1>5. stage[c] = "waiting" /\ reply[c] = <<>>
  BY <1>3, <1>4 DEF ChannelInv, OneOutstanding
<1>6. PICK i \in DOMAIN requests : InChannel(c) = {i} /\ requests[i] = command[c]
  BY <1>3, <1>5 DEF ChannelInv, OneOutstanding
<1>7. i = 1
  BY <1>4, <1>6
<1>. QED
  BY <1>1, <1>2, <1>3, <1>5, <1>6, <1>7

\* The storage task answers the command at the front, and only its client.
LEMMA QuestionAnswered ==
    ASSUME ChannelInv, requests # <<>>, Current.op # "append",
           requests' = Tail(requests),
           NEW response \in Response, Answers(response, Current),
           Answer(response)
    PROVE  ChannelInv'
<1>. DEFINE f == Current.from
<1>1. /\ f \in Clients /\ stage[f] = "waiting" /\ reply[f] = <<>>
      /\ InChannel(f) = {1} /\ Current = command[f] /\ Current = requests[1]
  BY FrontIsOnly
<1>2. /\ requests \in Seq(Command)
      /\ requests' \in Seq(Command)
      /\ Len(requests') = Len(requests) - 1
      /\ DOMAIN requests' = 1 .. Len(requests) - 1
      /\ DOMAIN requests = 1 .. Len(requests)
      /\ Len(requests) \in Nat
      /\ \A i \in 1 .. Len(requests) - 1 : requests'[i] = requests[i + 1]
  BY AfterTail DEF ChannelInv, TypeChannel
<1>3. /\ stage' = stage /\ command' = command /\ held' = held
      /\ reply' = [reply EXCEPT ![f] = <<response>>]
  BY DEF Answer
<1>4. reply' \in [Clients -> Seq(Response)]
  BY <1>1, <1>3 DEF ChannelInv, TypeChannel
<1>5. TypeChannel'
  <2>1. Len(requests') <= ChannelCapacity
    BY <1>2, ServiceAssumption DEF ChannelInv, TypeChannel
  <2>. QED
    BY <1>2, <1>3, <1>4, <2>1 DEF ChannelInv, TypeChannel
<1>6. CommandsWellFormed'
  <2>1. \A i \in DOMAIN requests' : i + 1 \in DOMAIN requests /\ requests'[i] = requests[i + 1]
    BY <1>2
  <2>. QED
    BY <1>3, <2>1 DEF ChannelInv, CommandsWellFormed, WellFormed
<1>7. OneOutstanding'
  <2>. SUFFICES ASSUME NEW c \in Clients
                PROVE  IF stage'[c] # "waiting" THEN InChannel(c)' = {} /\ reply'[c] = <<>>
                       ELSE IF reply'[c] = <<>>
                         THEN \E i \in DOMAIN requests' : InChannel(c)' = {i} /\ requests'[i] = command'[c]
                         ELSE InChannel(c)' = {} /\ Answers(reply'[c][1], command'[c])
    BY DEF OneOutstanding
  <2>1. InChannel(c)' = {i \in 1 .. Len(requests) - 1 : i + 1 \in InChannel(c)}
    BY <1>2 DEF InChannel
  <2>2. CASE c = f
    <3>1. InChannel(c)' = {}
      BY <1>1, <1>2, <2>1, <2>2
    <3>2. reply'[c] = <<response>> /\ reply'[c] # <<>> /\ reply'[c][1] = response
      BY <1>1, <1>3, <2>2 DEF ChannelInv, TypeChannel
    <3>3. stage'[c] = "waiting" /\ command'[c] = Current
      BY <1>1, <1>3, <2>2
    <3>. QED
      BY <3>1, <3>2, <3>3
  <2>3. CASE c # f
    <3>1. reply'[c] = reply[c] /\ stage'[c] = stage[c] /\ command'[c] = command[c]
      BY <1>1, <1>3, <2>3 DEF ChannelInv, TypeChannel
    <3>2. CASE InChannel(c) = {}
      <4>1. InChannel(c)' = {}
        BY <2>1, <3>2
      <4>. QED
        BY <3>1, <3>2, <4>1 DEF ChannelInv, OneOutstanding
    <3>3. CASE InChannel(c) # {}
      <4>1. stage[c] = "waiting" /\ reply[c] = <<>>
        BY <3>3 DEF ChannelInv, OneOutstanding
      <4>2. PICK i \in DOMAIN requests : InChannel(c) = {i} /\ requests[i] = command[c]
        BY <4>1 DEF ChannelInv, OneOutstanding
      <4>3. i # 1
        BY <1>1, <2>3, <4>2 DEF InChannel
      <4>4. i - 1 \in DOMAIN requests' /\ requests'[i - 1] = requests[i] /\ InChannel(c)' = {i - 1}
        BY <1>2, <2>1, <4>2, <4>3
      <4>. QED
        BY <3>1, <4>1, <4>2, <4>4
    <3>. QED
      BY <3>2, <3>3
  <2>. QED
    BY <2>2, <2>3
<1>. QED
  BY <1>5, <1>6, <1>7 DEF ChannelInv

\* An append is taken from the front and nobody is answered.
LEMMA AppendTaken ==
    ASSUME ChannelInv, requests # <<>>, Current.op = "append",
           requests' = Tail(requests), UNCHANGED clientVars
    PROVE  ChannelInv' /\ Current.about \in Payloads
<1>1. 1 \in DOMAIN requests /\ Current = requests[1]
  BY DEF ChannelInv, TypeChannel, Current
<1>2. Current.from = "aggregator" /\ Current.about \in Payloads
  BY <1>1 DEF ChannelInv, CommandsWellFormed, WellFormed
<1>3. /\ requests \in Seq(Command)
      /\ requests' \in Seq(Command)
      /\ Len(requests') = Len(requests) - 1
      /\ DOMAIN requests' = 1 .. Len(requests) - 1
      /\ DOMAIN requests = 1 .. Len(requests)
      /\ Len(requests) \in Nat
      /\ \A i \in 1 .. Len(requests) - 1 : requests'[i] = requests[i + 1]
  BY AfterTail DEF ChannelInv, TypeChannel
<1>4. stage' = stage /\ command' = command /\ held' = held /\ reply' = reply
  BY DEF clientVars
<1>5. TypeChannel'
  <2>1. Len(requests') <= ChannelCapacity
    BY <1>3, ServiceAssumption DEF ChannelInv, TypeChannel
  <2>. QED
    BY <1>3, <1>4, <2>1 DEF ChannelInv, TypeChannel
<1>6. CommandsWellFormed'
  <2>1. \A i \in DOMAIN requests' : i + 1 \in DOMAIN requests /\ requests'[i] = requests[i + 1]
    BY <1>3
  <2>. QED
    BY <1>4, <2>1 DEF ChannelInv, CommandsWellFormed, WellFormed
<1>7. OneOutstanding'
  <2>. SUFFICES ASSUME NEW c \in Clients
                PROVE  IF stage[c] # "waiting" THEN InChannel(c)' = {} /\ reply[c] = <<>>
                       ELSE IF reply[c] = <<>>
                         THEN \E i \in DOMAIN requests' : InChannel(c)' = {i} /\ requests'[i] = command[c]
                         ELSE InChannel(c)' = {} /\ Answers(reply[c][1], command[c])
    BY <1>4 DEF OneOutstanding
  <2>1. InChannel(c)' = {i \in 1 .. Len(requests) - 1 : i + 1 \in InChannel(c)}
    BY <1>3 DEF InChannel
  <2>2. 1 \notin InChannel(c)
    BY <1>1, <1>2, ServiceAssumption DEF InChannel
  <2>3. CASE InChannel(c) = {}
    <3>1. InChannel(c)' = {}
      BY <2>1, <2>3
    <3>. QED
      BY <2>3, <3>1 DEF ChannelInv, OneOutstanding
  <2>4. CASE InChannel(c) # {}
    <3>1. stage[c] = "waiting" /\ reply[c] = <<>>
      BY <2>4 DEF ChannelInv, OneOutstanding
    <3>2. PICK i \in DOMAIN requests : InChannel(c) = {i} /\ requests[i] = command[c]
      BY <3>1 DEF ChannelInv, OneOutstanding
    <3>3. i # 1
      BY <2>2, <3>2
    <3>4. i - 1 \in DOMAIN requests' /\ requests'[i - 1] = requests[i] /\ InChannel(c)' = {i - 1}
      BY <1>3, <2>1, <3>2, <3>3
    <3>. QED
      BY <3>1, <3>2, <3>4
  <2>. QED
    BY <2>3, <2>4
<1>. QED
  BY <1>2, <1>5, <1>6, <1>7 DEF ChannelInv

\* A command joins the channel: an append of the aggregator or a client's.
LEMMA ChannelAppended ==
    ASSUME ChannelInv, Len(requests) < ChannelCapacity,
           NEW request \in Command, WellFormed(request),
           request.op = "append" => request.from = "aggregator",
           requests' = Append(requests, request)
    PROVE  /\ requests' \in Seq(Command) /\ Len(requests') <= ChannelCapacity
           /\ DOMAIN requests' = DOMAIN requests \cup {Len(requests) + 1}
           /\ Len(requests) + 1 \notin DOMAIN requests
           /\ \A i \in DOMAIN requests : requests'[i] = requests[i]
           /\ requests'[Len(requests) + 1] = request
           /\ \A i \in DOMAIN requests' : WellFormed(requests'[i])
           /\ \A i \in DOMAIN requests' :
                 requests'[i].op = "append" => requests'[i].from = "aggregator"
<1>1. /\ requests \in Seq(Command)
      /\ Len(requests) \in Nat
      /\ DOMAIN requests = 1 .. Len(requests)
      /\ requests' \in Seq(Command)
      /\ Len(requests') = Len(requests) + 1
      /\ DOMAIN requests' = 1 .. Len(requests) + 1
      /\ \A i \in 1 .. Len(requests) : requests'[i] = requests[i]
      /\ requests'[Len(requests) + 1] = request
  BY AfterAppend DEF ChannelInv, TypeChannel
<1>2. Len(requests') <= ChannelCapacity
  BY <1>1, ServiceAssumption
<1>3. \A i \in DOMAIN requests' : i \in DOMAIN requests \/ i = Len(requests) + 1
  BY <1>1
<1>4. \A i \in DOMAIN requests' : WellFormed(requests'[i])
  BY <1>1, <1>3 DEF ChannelInv, CommandsWellFormed, WellFormed
<1>5. \A i \in DOMAIN requests' : requests'[i].op = "append" => requests'[i].from = "aggregator"
  BY <1>1, <1>3 DEF ChannelInv, CommandsWellFormed
<1>. QED
  BY <1>1, <1>2, <1>4, <1>5

\* The aggregator's command belongs to no client.
LEMMA MeasureStep ==
    ASSUME TypeTask, ChannelInv, Measure
    PROVE  TypeTask' /\ ChannelInv'
<1>1. measured' \in 1 .. MaxMeasurements
  BY ServiceAssumption DEF TypeTask, Measure
<1>2. TypeTask'
  BY <1>1 DEF TypeTask, Measure, spoolVars, taskVars, historyVars
<1>3. CASE requests' = requests
  BY <1>2, <1>3, ChannelUnchanged DEF Measure, clientVars
<1>4. CASE requests' = Append(requests, AppendOf(measured')) /\ Len(requests) < ChannelCapacity
  <2>1. PICK request : request = AppendOf(measured')
    OBVIOUS
  <2>2. request \in Command /\ request.op = "append" /\ request.from = "aggregator"
        /\ request.about = measured'
    BY <1>1, <2>1 DEF AppendOf, Command
  <2>3. WellFormed(request)
    BY <1>1, <2>2, ServiceAssumption DEF WellFormed
  <2>4. /\ requests' \in Seq(Command) /\ Len(requests') <= ChannelCapacity
        /\ DOMAIN requests' = DOMAIN requests \cup {Len(requests) + 1}
        /\ Len(requests) + 1 \notin DOMAIN requests
        /\ \A i \in DOMAIN requests : requests'[i] = requests[i]
        /\ requests'[Len(requests) + 1] = request
        /\ \A i \in DOMAIN requests' : WellFormed(requests'[i])
        /\ \A i \in DOMAIN requests' :
              requests'[i].op = "append" => requests'[i].from = "aggregator"
    BY <1>4, <2>1, <2>2, <2>3, ChannelAppended
  <2>5. stage' = stage /\ command' = command /\ held' = held /\ reply' = reply
    BY DEF Measure, clientVars
  <2>6. TypeChannel' /\ CommandsWellFormed'
    BY <2>4, <2>5 DEF ChannelInv, TypeChannel, CommandsWellFormed
  <2>7. \A c \in Clients : InChannel(c)' = InChannel(c)
    BY <2>2, <2>4, ServiceAssumption DEF InChannel
  <2>8. OneOutstanding'
    BY <2>4, <2>5, <2>7 DEF ChannelInv, OneOutstanding, InChannel
  <2>. QED
    BY <1>2, <2>6, <2>8 DEF ChannelInv
<1>5. requests' = requests
      \/ (requests' = Append(requests, AppendOf(measured')) /\ Len(requests) < ChannelCapacity)
  BY DEF Measure
<1>. QED
  BY <1>2, <1>3, <1>4, <1>5

\* A client sends its question.
LEMMA SendStep ==
    ASSUME ChannelInv, NEW c \in Clients, Send(c)
    PROVE  ChannelInv'
<1>1. /\ command[c] \in Command /\ command[c].op # "append" /\ command[c].from = c
      /\ stage[c] = "sending"
  BY DEF ChannelInv, TypeChannel, CommandsWellFormed, Send
<1>2. WellFormed(command[c])
  BY <1>1 DEF WellFormed
<1>3. /\ requests' \in Seq(Command) /\ Len(requests') <= ChannelCapacity
      /\ DOMAIN requests' = DOMAIN requests \cup {Len(requests) + 1}
      /\ Len(requests) + 1 \notin DOMAIN requests
      /\ \A i \in DOMAIN requests : requests'[i] = requests[i]
      /\ requests'[Len(requests) + 1] = command[c]
      /\ \A i \in DOMAIN requests' : WellFormed(requests'[i])
      /\ \A i \in DOMAIN requests' :
            requests'[i].op = "append" => requests'[i].from = "aggregator"
  <2>1. PICK request : request = command[c]
    OBVIOUS
  <2>. QED
    BY <1>1, <1>2, <2>1, ChannelAppended DEF Send
<1>4. /\ command' = command /\ held' = held /\ reply' = reply
      /\ stage' = [stage EXCEPT ![c] = "waiting"]
  BY DEF Send
<1>5. stage' \in [Clients -> {"idle", "sending", "waiting"}]
      /\ stage'[c] = "waiting"
      /\ \A d \in Clients : d # c => stage'[d] = stage[d]
  BY <1>4 DEF ChannelInv, TypeChannel
<1>6. TypeChannel' /\ CommandsWellFormed'
  BY <1>3, <1>4, <1>5 DEF ChannelInv, TypeChannel, CommandsWellFormed
<1>7. OneOutstanding'
  <2>1. InChannel(c) = {} /\ reply[c] = <<>>
    BY <1>1 DEF ChannelInv, OneOutstanding
  <2>2. InChannel(c)' = {Len(requests) + 1}
    BY <1>1, <1>3, <2>1 DEF InChannel
  <2>3. \A d \in Clients : d # c => InChannel(d)' = InChannel(d)
    BY <1>1, <1>3 DEF InChannel
  <2>. SUFFICES ASSUME NEW d \in Clients
                PROVE  IF stage'[d] # "waiting" THEN InChannel(d)' = {} /\ reply[d] = <<>>
                       ELSE IF reply[d] = <<>>
                         THEN \E i \in DOMAIN requests' : InChannel(d)' = {i} /\ requests'[i] = command[d]
                         ELSE InChannel(d)' = {} /\ Answers(reply[d][1], command[d])
    BY <1>4 DEF OneOutstanding
  <2>4. CASE d = c
    BY <1>3, <1>5, <2>1, <2>2, <2>4
  <2>5. CASE d # c
    BY <1>3, <1>5, <2>3, <2>5 DEF ChannelInv, OneOutstanding
  <2>. QED
    BY <2>4, <2>5
<1>. QED
  BY <1>6, <1>7 DEF ChannelInv

\* A client that is idle chooses a question.
LEMMA AskStep ==
    ASSUME ChannelInv, NEW c \in Clients, NEW request \in Command,
           request.from = c, request.op # "append", Ask(c, request)
    PROVE  ChannelInv'
<1>1. /\ requests' = requests /\ reply' = reply /\ held' = held
      /\ stage' = [stage EXCEPT ![c] = "sending"]
      /\ command' = [command EXCEPT ![c] = request]
      /\ stage[c] = "idle"
  BY DEF Ask
<1>2. /\ stage' \in [Clients -> {"idle", "sending", "waiting"}]
      /\ stage'[c] = "sending"
      /\ \A d \in Clients : d # c => stage'[d] = stage[d]
  BY <1>1 DEF ChannelInv, TypeChannel
<1>3. /\ command' \in [Clients -> Command]
      /\ command'[c] = request
      /\ \A d \in Clients : d # c => command'[d] = command[d]
  BY <1>1 DEF ChannelInv, TypeChannel
<1>4. TypeChannel'
  BY <1>1, <1>2, <1>3 DEF ChannelInv, TypeChannel
<1>5. CommandsWellFormed'
  BY <1>1, <1>3 DEF ChannelInv, CommandsWellFormed, WellFormed
<1>6. OneOutstanding'
  BY <1>1, <1>2, <1>3 DEF ChannelInv, OneOutstanding, InChannel
<1>. QED
  BY <1>4, <1>5, <1>6 DEF ChannelInv

LEMMA QuestionsTyped ==
    ASSUME NEW c \in Clients, NEW s \in Sequence
    PROVE  /\ PeekBy(c) \in Command /\ PeekBy(c).from = c /\ PeekBy(c).op = "peek"
           /\ AckBy(c, s) \in Command /\ AckBy(c, s).from = c /\ AckBy(c, s).op = "ack"
<1>1. s \in Nat
  BY SequenceType DEF Sequence
<1>. QED
  BY <1>1 DEF PeekBy, AckBy, Command

\* A client takes its answer: nothing of it is left behind.
LEMMA TakeStep ==
    ASSUME ChannelInv, NEW c \in Clients, Take(c)
    PROVE  ChannelInv'
<1>1. /\ requests' = requests
      /\ stage' = [stage EXCEPT ![c] = "idle"]
      /\ reply' = [reply EXCEPT ![c] = <<>>]
      /\ command' = [command EXCEPT ![c] = PeekBy(c)]
      /\ stage[c] = "waiting" /\ reply[c] # <<>>
  BY DEF Take
<1>2. PeekBy(c) \in Command /\ PeekBy(c).from = c /\ PeekBy(c).op = "peek"
  BY QuestionsTyped, SequenceType
<1>3. /\ stage' \in [Clients -> {"idle", "sending", "waiting"}]
      /\ stage'[c] = "idle"
      /\ \A d \in Clients : d # c => stage'[d] = stage[d]
  BY <1>1 DEF ChannelInv, TypeChannel
<1>4. /\ command' \in [Clients -> Command]
      /\ command'[c].from = c /\ command'[c].op # "append"
      /\ \A d \in Clients : d # c => command'[d] = command[d]
  BY <1>1, <1>2 DEF ChannelInv, TypeChannel
<1>5. /\ reply' \in [Clients -> Seq(Response)]
      /\ reply'[c] = <<>>
      /\ \A d \in Clients : d # c => reply'[d] = reply[d]
  BY <1>1 DEF ChannelInv, TypeChannel
<1>6. held' \in [Clients -> Seq(StoredPayload)]
  <2>1. reply[c][1] \in Response
    BY <1>1 DEF ChannelInv, TypeChannel
  <2>2. reply[c][1].payload \in Seq(StoredPayload)
    BY <2>1 DEF Response
  <2>. QED
    BY <2>2 DEF Take, ChannelInv, TypeChannel
<1>7. TypeChannel'
  BY <1>1, <1>3, <1>4, <1>5, <1>6 DEF ChannelInv, TypeChannel
<1>8. CommandsWellFormed'
  BY <1>1, <1>4 DEF ChannelInv, CommandsWellFormed, WellFormed
<1>9. OneOutstanding'
  <2>1. InChannel(c) = {}
    BY <1>1 DEF ChannelInv, OneOutstanding
  <2>. QED
    BY <1>1, <1>3, <1>4, <1>5, <2>1 DEF ChannelInv, OneOutstanding, InChannel
<1>. QED
  BY <1>7, <1>8, <1>9 DEF ChannelInv

LEMMA ForgetStep ==
    ASSUME ChannelInv, NEW c \in Clients, Forget(c)
    PROVE  ChannelInv'
<1>1. /\ requests' = requests /\ stage' = stage /\ reply' = reply /\ command' = command
      /\ held' = [held EXCEPT ![c] = <<>>]
  BY DEF Forget
<1>2. held' \in [Clients -> Seq(StoredPayload)]
  BY <1>1 DEF ChannelInv, TypeChannel
<1>3. TypeChannel'
  BY <1>1, <1>2 DEF ChannelInv, TypeChannel
<1>4. CommandsWellFormed'
  BY <1>1 DEF ChannelInv, CommandsWellFormed, WellFormed
<1>5. OneOutstanding'
  BY <1>1 DEF ChannelInv, OneOutstanding, InChannel
<1>. QED
  BY <1>3, <1>4, <1>5 DEF ChannelInv

-----------------------------------------------------------------------------
(* The storage task.                                                       *)

\* A payload and an answer the task gives are of their types.
LEMMA AnswersTyped ==
    /\ Error \in Response
    /\ \A b \in BOOLEAN : Acked(b) \in Response
    /\ \A payload \in Seq(StoredPayload) : Peeked(payload) \in Response
<1>1. <<>> \in Seq(StoredPayload)
  OBVIOUS
<1>2. Error \in Response
  BY <1>1 DEF Error, Response
<1>3. \A b \in BOOLEAN : Acked(b) \in Response
  BY <1>1 DEF Acked, Response
<1>4. \A payload \in Seq(StoredPayload) : Peeked(payload) \in Response
  BY DEF Peeked, Response
<1>. QED
  BY <1>2, <1>3, <1>4

LEMMA OldestTyped ==
    ASSUME TypeTask
    PROVE  Oldest \in Seq(StoredPayload)
<1>1. CASE queue = <<>>
  BY <1>1 DEF Oldest
<1>2. CASE queue # <<>>
  <2>1. Head(queue) \in Record
    BY <1>2 DEF TypeTask
  <2>2. FromCurrentBoot(Head(queue).sequence) \in BOOLEAN
    BY DEF FromCurrentBoot
  <2>3. [record |-> Head(queue), current_boot |-> FromCurrentBoot(Head(queue).sequence)]
          \in StoredPayload
    BY <2>1, <2>2 DEF StoredPayload
  <2>. QED
    BY <1>2, <2>3 DEF Oldest
<1>. QED
  BY <1>1, <1>2

\* Taking one command by the storage task: an append, or a question with its
\* answer.
LEMMA HandleChannel ==
    ASSUME TypeTask, ChannelInv, Handle
    PROVE  ChannelInv'
<1>1. requests # <<>> /\ requests' = Tail(requests)
  BY DEF Handle, Receive, AppendHandled, AppendFails, AppendRefused, PeekHandled,
         QuestionRefused, AckHandled, AckStale, AckFails, AckFailsPopped
<1>2. CASE AppendHandled \/ AppendFails \/ AppendRefused
  <2>1. Current.op = "append" /\ UNCHANGED clientVars
    BY <1>2 DEF AppendHandled, AppendFails, AppendRefused, Receive
  <2>. QED
    BY <1>1, <2>1, AppendTaken
<1>3. CASE PeekHandled
  <2>1. PICK response : response = Peeked(Oldest)
    OBVIOUS
  <2>2. Current.op = "peek" /\ Current.op # "append" /\ Answer(response)
    BY <1>3, <2>1 DEF PeekHandled, Receive
  <2>3. response \in Response
    BY <2>1, AnswersTyped, OldestTyped
  <2>4. Answers(response, Current)
    BY <2>1, <2>2 DEF Answers, Peeked
  <2>. QED
    BY <1>1, <2>2, <2>3, <2>4, QuestionAnswered
<1>4. CASE AckHandled \/ AckStale
  <2>1. PICK b \in BOOLEAN : Answer(Acked(b))
    BY <1>4 DEF AckHandled, AckStale
  <2>2. PICK response : response = Acked(b)
    OBVIOUS
  <2>3. Current.op = "ack" /\ Current.op # "append" /\ Answer(response)
    BY <1>4, <2>1, <2>2 DEF AckHandled, AckStale, Receive
  <2>4. response \in Response
    BY <2>2, AnswersTyped
  <2>5. Answers(response, Current)
    BY <2>2, <2>3 DEF Answers, Acked
  <2>. QED
    BY <1>1, <2>3, <2>4, <2>5, QuestionAnswered
<1>5. CASE QuestionRefused \/ AckFails \/ AckFailsPopped
  <2>1. PICK response : response = Error
    OBVIOUS
  <2>2. Current.op # "append" /\ Answer(response)
    BY <1>5, <2>1 DEF QuestionRefused, AckFails, AckFailsPopped, Receive
  <2>3. response \in Response
    BY <2>1, AnswersTyped
  <2>4. Answers(response, Current)
    BY <2>1 DEF Answers, Error
  <2>. QED
    BY <1>1, <2>2, <2>3, <2>4, QuestionAnswered
<1>. QED
  BY <1>2, <1>3, <1>4, <1>5 DEF Handle

LEMMA QueueTail ==
    ASSUME NEW q \in Seq(Record), q # <<>>, Len(q) <= Capacity
    PROVE  Tail(q) \in Seq(Record) /\ Len(Tail(q)) \in 0 .. Capacity
BY SpoolAssumption

LEMMA HandleTask ==
    ASSUME TypeTask, ChannelInv, Handle
    PROVE  TypeTask'
<1>1. CASE AppendHandled
  <2>1. Current.about \in Payloads
    BY <1>1, AppendTaken DEF AppendHandled, Receive
  <2>2. PICK r : r = [sequence |-> next_sequence, payload |-> Current.about]
    OBVIOUS
  <2>3. r \in Record
    BY <2>1, <2>2 DEF TypeTask, Record
  <2>4. queue' = Spool!Fitting(Spool!Push(queue, r)) /\ next_sequence' = Spool!NextOf(next_sequence)
    BY <1>1, <2>2 DEF AppendHandled, Spool!AppendRecord
  <2>5. queue' \in Seq(Record) /\ Len(queue') <= Capacity
    BY <2>3, <2>4, SpoolAppend DEF TypeTask
  <2>6. Len(queue') \in 0 .. Capacity
    BY <2>5, SpoolAssumption
  <2>7. next_sequence' \in Sequence
    <3>1. Spool!NextOf(next_sequence) = NextOf(next_sequence)
      BY DEF Spool!NextOf, NextOf, Spool!SequenceMod, SequenceMod
    <3>. QED
      BY <2>4, <3>1, SequenceType DEF TypeTask
  <2>8. pending_count' = Len(queue') /\ UNCHANGED <<storage, first_of_boot, measured, historyVars>>
    BY <1>1 DEF AppendHandled
  <2>. QED
    BY <2>5, <2>6, <2>7, <2>8 DEF TypeTask, historyVars
<1>2. CASE AckHandled \/ AckFailsPopped
  <2>1. queue # <<>> /\ queue' = Tail(queue) /\ next_sequence' = next_sequence
    BY <1>2 DEF AckHandled, AckFailsPopped, Spool!AcknowledgeOldest
  <2>2. queue' \in Seq(Record) /\ Len(queue') \in 0 .. Capacity
    BY <2>1, QueueTail DEF TypeTask
  <2>3. Len(queue') <= Capacity
    BY <2>2, SpoolAssumption
  <2>4. pending_count' \in 0 .. Capacity
    BY <1>2, <2>2 DEF AckHandled, AckFailsPopped, taskVars, TypeTask
  <2>5. troubles' \in 0 .. MaxTroubles
    <3>1. troubles' = troubles \/ (troubles < MaxTroubles /\ troubles' = troubles + 1)
      BY <1>2 DEF AckHandled, AckFailsPopped, Trouble, historyVars
    <3>. QED
      BY <3>1, ServiceAssumption DEF TypeTask
  <2>7. diverged' \in Divergence
    <3>1. diverged' = diverged \/ diverged' = "memory"
      BY <1>2 DEF AckHandled, AckFailsPopped, historyVars
    <3>. QED
      BY <3>1 DEF TypeTask, Divergence
  <2>6. UNCHANGED <<storage, first_of_boot, measured, booted_at>>
    BY <1>2 DEF AckHandled, AckFailsPopped, taskVars, historyVars
  <2>. QED
    BY <2>1, <2>2, <2>3, <2>4, <2>5, <2>6, <2>7 DEF TypeTask
<1>3. CASE AppendFails \/ AckFails
  <2>1. troubles' \in 0 .. MaxTroubles
    BY <1>3, ServiceAssumption DEF AppendFails, AckFails, Trouble, TypeTask
  <2>2. UNCHANGED <<spoolVars, taskVars, measured, booted_at>>
    BY <1>3 DEF AppendFails, AckFails
  <2>3. diverged' \in Divergence
    BY <1>3 DEF AppendFails, AckFails, FlashDisturbed, TypeTask, Divergence
  <2>. QED
    BY <2>1, <2>2, <2>3 DEF TypeTask, spoolVars, taskVars
<1>4. CASE AppendRefused \/ PeekHandled \/ QuestionRefused \/ AckStale
  <2>1. UNCHANGED <<spoolVars, taskVars, measured, historyVars>>
    BY <1>4 DEF AppendRefused, PeekHandled, QuestionRefused, AckStale
  <2>. QED
    BY <2>1 DEF TypeTask, spoolVars, taskVars, historyVars
<1>. QED
  BY <1>1, <1>2, <1>3, <1>4 DEF Handle

LEMMA RecoverStep ==
    ASSUME TypeTask, ChannelInv, RecoverSucceeds \/ RecoverFails
    PROVE  TypeTask' /\ ChannelInv'
<1>1. ChannelInv'
  BY ChannelUnchanged DEF RecoverSucceeds, RecoverFails, clientVars
<1>2. CASE RecoverSucceeds
  <2>1. next_sequence' \in Sequence /\ first_of_boot' = next_sequence'
    BY <1>2, SequenceType DEF RecoverSucceeds, TypeTask
  <2>2. pending_count' \in 0 .. Capacity
    BY <1>2, SpoolAssumption DEF RecoverSucceeds, TypeTask
  <2>3. storage' = "ready" /\ UNCHANGED <<queue, measured, historyVars>>
    BY <1>2 DEF RecoverSucceeds
  <2>. QED
    BY <1>1, <2>1, <2>2, <2>3 DEF TypeTask, historyVars
<1>3. CASE RecoverFails
  <2>1. troubles' \in 0 .. MaxTroubles
    BY <1>3, ServiceAssumption DEF RecoverFails, Trouble, TypeTask
  <2>2. /\ storage' = "unavailable"
        /\ UNCHANGED <<spoolVars, first_of_boot, pending_count, measured, booted_at, diverged>>
    BY <1>3 DEF RecoverFails
  <2>. QED
    BY <1>1, <2>1, <2>2 DEF TypeTask, spoolVars
<1>. QED
  BY <1>2, <1>3

-----------------------------------------------------------------------------
(* The specification.                                                      *)

\* After a restart every client is idle and the channel is empty.
LEMMA FreshChannel ==
    ASSUME requests = <<>>, reply = Empty, stage = Idle, command = NoCommand, held = Empty
    PROVE  ChannelInv
<1>1. /\ \A c \in Clients : reply[c] = <<>> /\ stage[c] = "idle" /\ command[c] = PeekBy(c)
      /\ reply \in [Clients -> Seq(Response)]
      /\ held \in [Clients -> Seq(StoredPayload)]
      /\ stage \in [Clients -> {"idle", "sending", "waiting"}]
  BY DEF Empty, Idle, NoCommand
<1>2. \A c \in Clients : PeekBy(c) \in Command /\ PeekBy(c).from = c /\ PeekBy(c).op = "peek"
  BY QuestionsTyped, SequenceType
<1>3. command \in [Clients -> Command]
  BY <1>2 DEF NoCommand
<1>4. requests \in Seq(Command) /\ Len(requests) = 0 /\ DOMAIN requests = {}
  OBVIOUS
<1>5. TypeChannel
  BY <1>1, <1>3, <1>4, ServiceAssumption DEF TypeChannel
<1>6. CommandsWellFormed
  BY <1>1, <1>2, <1>4 DEF CommandsWellFormed
<1>7. OneOutstanding
  BY <1>1, <1>4 DEF OneOutstanding, InChannel
<1>. QED
  BY <1>5, <1>6, <1>7 DEF ChannelInv

LEMMA FreshChannelNext ==
    ASSUME requests' = <<>>, reply' = Empty, stage' = Idle, command' = NoCommand, held' = Empty
    PROVE  ChannelInv'
<1>1. /\ \A c \in Clients : reply'[c] = <<>> /\ stage'[c] = "idle" /\ command'[c] = PeekBy(c)
      /\ reply' \in [Clients -> Seq(Response)]
      /\ held' \in [Clients -> Seq(StoredPayload)]
      /\ stage' \in [Clients -> {"idle", "sending", "waiting"}]
  BY DEF Empty, Idle, NoCommand
<1>2. \A c \in Clients : PeekBy(c) \in Command /\ PeekBy(c).from = c /\ PeekBy(c).op = "peek"
  BY QuestionsTyped, SequenceType
<1>3. command' \in [Clients -> Command]
  BY <1>2 DEF NoCommand
<1>4. requests' \in Seq(Command) /\ Len(requests') = 0 /\ DOMAIN requests' = {}
  OBVIOUS
<1>5. TypeChannel'
  BY <1>1, <1>3, <1>4, ServiceAssumption DEF TypeChannel
<1>6. CommandsWellFormed'
  BY <1>1, <1>2, <1>4 DEF CommandsWellFormed
<1>7. OneOutstanding'
  BY <1>1, <1>4 DEF OneOutstanding, InChannel
<1>. QED
  BY <1>5, <1>6, <1>7 DEF ChannelInv

LEMMA ServiceInit == InitService => ServiceInv
<1>. SUFFICES ASSUME InitService PROVE ServiceInv
  OBVIOUS
<1>1. ChannelInv
  BY FreshChannel DEF InitService
<1>2. queue = <<>> /\ next_sequence = 0
  BY DEF InitService, Spool!Init
<1>3. queue \in Seq(Record) /\ Len(queue) <= Capacity /\ next_sequence \in Sequence
  BY <1>2, SpoolAssumption, SequenceType
<1>4. /\ 0 \in 0 .. Capacity /\ 0 \in 0 .. MaxMeasurements /\ 0 \in 0 .. MaxTroubles
      /\ 0 \in 0 .. 0 /\ 0 \in Sequence
  BY SpoolAssumption, SequenceType, ServiceAssumption
<1>5. /\ storage = "recovering" /\ diverged \in Divergence
      /\ first_of_boot = 0 /\ pending_count = 0
      /\ measured = 0 /\ booted_at = 0 /\ troubles = 0
  BY DEF InitService, Divergence
<1>6. TypeTask
  BY <1>3, <1>4, <1>5 DEF TypeTask
<1>. QED
  BY <1>1, <1>6, ServiceInvSplit

\* The clients' steps: the storage task and the history stay as they are.
LEMMA ClientStep ==
    ASSUME TypeTask, ChannelInv, NEW c \in Clients, AnyClient(c) \/ Send(c) \/ Take(c)
    PROVE  TypeTask' /\ ChannelInv'
<1>1. TypeTask'
  BY DEF AnyClient, Ask, Forget, Send, Take, TypeTask, spoolVars, taskVars, historyVars
<1>2. CASE Ask(c, PeekBy(c))
  <2>1. PeekBy(c) \in Command /\ PeekBy(c).from = c /\ PeekBy(c).op # "append"
    BY QuestionsTyped, SequenceType
  <2>. QED
    BY <1>1, <1>2, <2>1, AskStep
<1>3. CASE held[c] # <<>> /\ Ask(c, AckBy(c, held[c][1].record.sequence))
  <2>1. held[c][1] \in StoredPayload
    BY <1>3 DEF ChannelInv, TypeChannel
  <2>2. PICK s \in Sequence : s = held[c][1].record.sequence
    BY <2>1 DEF StoredPayload, Record
  <2>3. AckBy(c, s) \in Command /\ AckBy(c, s).from = c /\ AckBy(c, s).op # "append"
    BY QuestionsTyped
  <2>. QED
    BY <1>1, <1>3, <2>2, <2>3, AskStep
<1>4. CASE Forget(c)
  BY <1>1, <1>4, ForgetStep
<1>5. CASE Send(c)
  BY <1>1, <1>5, SendStep
<1>6. CASE Take(c)
  BY <1>1, <1>6, TakeStep
<1>. QED
  BY <1>2, <1>3, <1>4, <1>5, <1>6 DEF AnyClient

LEMMA RestartStep ==
    ASSUME TypeTask, RestartService
    PROVE  TypeTask' /\ ChannelInv'
<1>1. ChannelInv'
  BY FreshChannelNext DEF RestartService
<1>2. troubles' \in 0 .. MaxTroubles
  BY ServiceAssumption DEF RestartService, Trouble, TypeTask
<1>3. /\ storage' = "recovering" /\ first_of_boot' \in Sequence /\ pending_count' \in 0 .. Capacity
      /\ booted_at' = measured /\ UNCHANGED <<spoolVars, measured, diverged>>
  BY SpoolAssumption, SequenceType DEF RestartService
<1>4. measured \in 0 .. measured
  BY ServiceAssumption DEF TypeTask
<1>. QED
  BY <1>1, <1>2, <1>3, <1>4 DEF TypeTask, spoolVars

LEMMA ServiceStepInv == ServiceInv /\ [NextService]_serviceVars => ServiceInv'
<1>. SUFFICES ASSUME TypeTask, ChannelInv, [NextService]_serviceVars
              PROVE  TypeTask' /\ ChannelInv'
  BY ServiceInvSplit DEF ServiceInv, TypeTask, ChannelInv, TypeService, TypeChannel
<1>1. CASE UNCHANGED serviceVars
  <2>1. ChannelInv'
    BY <1>1, ChannelUnchanged DEF serviceVars, clientVars
  <2>. QED
    BY <1>1, <2>1 DEF serviceVars, spoolVars, taskVars, historyVars, TypeTask
<1>2. CASE Measure
  BY <1>2, MeasureStep
<1>3. CASE \E c \in Clients : AnyClient(c) \/ Send(c) \/ Take(c)
  BY <1>3, ClientStep
<1>4. CASE StorageTask
  BY <1>4, RecoverStep, HandleTask, HandleChannel DEF StorageTask
<1>5. CASE RestartService
  BY <1>5, RestartStep
<1>. QED
  BY <1>1, <1>2, <1>3, <1>4, <1>5 DEF NextService

\* The state of the storage task, its channel and its clients has its type:
\* the channel never holds more than its capacity, the spool no more than its
\* own, for any number of clients (STORAGE_REQUEST_CAPACITY, tasks/storage).
THEOREM TypeServiceCorrect == SpecService => []TypeService
<1>1. ServiceInv => TypeService
  BY DEF ServiceInv
<1>. QED
  BY <1>1, ServiceInit, ServiceStepInv, PTL DEF SpecService

\* Every question has its one command in the channel or its own answer in the
\* client's signal: no answer is overwritten, lost or taken for another's
\* (signal_storage_response, peek_ble_payload, peek_payload).
THEOREM QuestionsAnswered == SpecService => []OneOutstanding
<1>1. ServiceInv => OneOutstanding
  BY DEF ServiceInv
<1>. QED
  BY <1>1, ServiceInit, ServiceStepInv, PTL DEF SpecService

-----------------------------------------------------------------------------
(* The delivery loops as clients of the service.                           *)

\* The uploader posts what it holds, and asks nothing meanwhile.
UploadHolds ==
    upload \in {"post", "answer"} => stage["wifi"] = "idle" /\ held["wifi"] # <<>>

DeliveryInv == ServiceInv /\ UploadHolds

\* What the service's type says of the clients' state.
LEMMA ClientTypes ==
    ASSUME ServiceInv
    PROVE  /\ "wifi" \in Clients /\ "ble" \in Clients
           /\ stage \in [Clients -> {"idle", "sending", "waiting"}]
           /\ held \in [Clients -> Seq(StoredPayload)]
BY DeliveryAssumption DEF ServiceInv, TypeService

\* A step that is no step of the service or of its clients.
LEMMA ServiceUntouched ==
    ASSUME UploadHolds, UNCHANGED serviceVars,
           upload' \in {"post", "answer"} => upload \in {"post", "answer"}
    PROVE  [NextService]_serviceVars /\ UploadHolds'
<1>1. stage' = stage /\ held' = held
  BY DEF serviceVars, clientVars
<1>. QED
  BY <1>1 DEF UploadHolds

\* A step of the service or the BLE session, beside the uploader.
LEMMA BesideUploader ==
    ASSUME UploadHolds, upload' = upload, stage'["wifi"] = stage["wifi"],
           held'["wifi"] = held["wifi"]
    PROVE  UploadHolds'
BY DEF UploadHolds

LEMMA ServiceSteps ==
    ASSUME DeliveryInv,
           \/ ServiceStep(Measure) \/ ServiceStep(StorageTask)
           \/ \E c \in Clients : ServiceStep(Send(c))
    PROVE  NextService /\ UploadHolds'
<1>1. upload' = upload
  BY DEF ServiceStep, uploadVars
<1>2. CASE ServiceStep(Measure)
  <2>1. stage' = stage /\ held' = held
    BY <1>2 DEF ServiceStep, Measure, clientVars
  <2>. QED
    BY <1>1, <1>2, <2>1, BesideUploader DEF ServiceStep, NextService, DeliveryInv
<1>3. CASE ServiceStep(StorageTask)
  <2>1. stage' = stage /\ held' = held
    BY <1>3 DEF ServiceStep, StorageTask, RecoverSucceeds, RecoverFails, Handle, clientVars,
                AppendHandled, AppendFails, AppendRefused, PeekHandled, QuestionRefused,
                AckHandled, AckStale, AckFails, AckFailsPopped, Answer
  <2>. QED
    BY <1>1, <1>3, <2>1, BesideUploader DEF ServiceStep, NextService, DeliveryInv
<1>4. ASSUME NEW c \in Clients, ServiceStep(Send(c))
      PROVE  NextService /\ UploadHolds'
  <2>1. stage' = [stage EXCEPT ![c] = "waiting"] /\ held' = held /\ stage[c] = "sending"
    BY <1>4 DEF ServiceStep, Send
  <2>2. CASE c = "wifi"
    BY <1>1, <1>4, <2>1, <2>2 DEF ServiceStep, NextService, DeliveryInv, UploadHolds
  <2>3. CASE c # "wifi"
    <3>1. stage'["wifi"] = stage["wifi"]
      BY <2>1, <2>3, ClientTypes DEF DeliveryInv
    <3>. QED
      BY <1>1, <1>4, <2>1, <3>1, BesideUploader DEF ServiceStep, NextService, DeliveryInv
  <2>. QED
    BY <2>2, <2>3
<1>. QED
  BY <1>2, <1>3, <1>4

\* Wi-Fi, the server and the wire.
LEMMA NetworkSteps ==
    ASSUME DeliveryInv,
           \/ WifiConnects \/ WifiDisconnects \/ ConfigChanges \/ PostAbandoned
           \/ \E r \in wire : ServerStores(r) \/ ServerRefuses(r) \/ RequestLost(r)
    PROVE  [NextService]_serviceVars /\ UploadHolds'
<1>1. UNCHANGED serviceVars /\ upload' \in {upload, "network"}
  BY DEF WifiConnects, WifiDisconnects, ConfigChanges, NetworkStep, PostAbandoned, UploadFailed,
         ServerStores, ServerRefuses, RequestLost
<1>. QED
  BY <1>1, ServiceUntouched DEF DeliveryInv

LEMMA UploaderStep ==
    ASSUME DeliveryInv, Uploader
    PROVE  [NextService]_serviceVars /\ UploadHolds'
<1>1. "wifi" \in Clients
  BY ClientTypes DEF DeliveryInv
<1>2. CASE LoopHead
  BY <1>2, ServiceUntouched DEF LoopHead, DeliveryInv
<1>3. CASE Prepare
  BY <1>1, <1>3 DEF Prepare, NextService, AnyClient, UploadHolds
<1>4. CASE PeekAnswered
  <2>1. stage'["wifi"] = "idle"
    BY <1>1, <1>4, ClientTypes DEF PeekAnswered, Take, DeliveryInv
  <2>. QED
    BY <1>1, <1>4, <2>1 DEF PeekAnswered, NextService, UploadHolds
<1>5. CASE PostSent
  BY <1>5, ServiceUntouched DEF PostSent, DeliveryInv
<1>6. CASE PostTimesOut \/ PostRefused
  BY <1>6, ServiceUntouched DEF PostTimesOut, PostRefused, UploadFailed, DeliveryInv
<1>7. CASE PostAccepted
  BY <1>1, <1>7 DEF PostAccepted, Posted, NextService, AnyClient, UploadHolds, DeliveryInv
<1>8. CASE AckAnswered
  BY <1>1, <1>8 DEF AckAnswered, NextService, UploadHolds
<1>. QED
  BY <1>2, <1>3, <1>4, <1>5, <1>6, <1>7, <1>8 DEF Uploader

LEMMA CentralStep ==
    ASSUME DeliveryInv, Central \/ BleAnswered
    PROVE  [NextService]_serviceVars /\ UploadHolds'
<1>1. "ble" \in Clients /\ "wifi" \in Clients /\ "ble" # "wifi"
  BY ClientTypes DEF DeliveryInv
<1>2. upload' = upload
  BY DEF Central, BleAnswered, BleConnects, BleDisconnects, RequestMetadata, RequestFragment,
         CompleteRecord, AckRecord, MetadataAnswered, AckRecordAnswered, uploadVars
<1>3. CASE \/ BleConnects \/ CompleteRecord
           \/ \E offset \in 0 .. Fragments, length \in 1 .. Fragments :
                 RequestFragment(offset, length)
  BY <1>2, <1>3, ServiceUntouched DEF BleConnects, CompleteRecord, RequestFragment, DeliveryInv
<1>4. CASE BleDisconnects
  <2>1. Forget("ble")
    BY <1>4 DEF BleDisconnects, Free, Forget
  <2>2. stage'["wifi"] = stage["wifi"] /\ held'["wifi"] = held["wifi"]
    BY <1>1, <2>1, ClientTypes DEF Forget, DeliveryInv
  <2>. QED
    BY <1>1, <1>2, <2>1, <2>2, BesideUploader DEF NextService, AnyClient, DeliveryInv
<1>5. CASE RequestMetadata
  <2>1. Ask("ble", PeekBy("ble"))
    BY <1>5 DEF RequestMetadata
  <2>2. stage'["wifi"] = stage["wifi"] /\ held'["wifi"] = held["wifi"]
    BY <1>1, <2>1, ClientTypes DEF Ask, DeliveryInv
  <2>. QED
    BY <1>1, <1>2, <2>1, <2>2, BesideUploader DEF NextService, AnyClient, DeliveryInv
<1>6. CASE AckRecord
  <2>1. held["ble"] # <<>> /\ Ask("ble", AckBy("ble", held["ble"][1].record.sequence))
    BY <1>6 DEF AckRecord, Session
  <2>2. stage'["wifi"] = stage["wifi"] /\ held'["wifi"] = held["wifi"]
    BY <1>1, <2>1, ClientTypes DEF Ask, DeliveryInv
  <2>. QED
    BY <1>1, <1>2, <2>1, <2>2, BesideUploader DEF NextService, AnyClient, DeliveryInv
<1>7. CASE BleAnswered
  <2>1. Take("ble")
    BY <1>7 DEF BleAnswered, MetadataAnswered, AckRecordAnswered
  <2>2. stage'["wifi"] = stage["wifi"] /\ held'["wifi"] = held["wifi"]
    BY <1>1, <2>1, ClientTypes DEF Take, DeliveryInv
  <2>. QED
    BY <1>1, <1>2, <2>1, <2>2, BesideUploader DEF NextService, DeliveryInv
<1>. QED
  BY <1>3, <1>4, <1>5, <1>6, <1>7 DEF Central

LEMMA DeliveryStep ==
    ASSUME DeliveryInv, [Next]_vars
    PROVE  [NextService]_serviceVars /\ DeliveryInv'
<1>1. [NextService]_serviceVars /\ UploadHolds'
  <2>1. CASE UNCHANGED vars
    BY <2>1, ServiceUntouched DEF vars, uploadVars, DeliveryInv
  <2>2. CASE Restart
    BY <2>2 DEF Restart, NextService, UploadHolds
  <2>. QED
    BY <2>1, <2>2, ServiceSteps, NetworkSteps, UploaderStep, CentralStep DEF Next
<1>. QED
  BY <1>1, ServiceStepInv DEF DeliveryInv

LEMMA DeliveryInit == Init => InitService /\ DeliveryInv
BY ServiceInit DEF Init, DeliveryInv, UploadHolds

\* The uploader and the BLE session ask one question at a time, acknowledge
\* only what they hold, and never walk away from an answer (uploader_task,
\* run_gatt_connection): every behaviour is one of the service with arbitrary
\* clients.
THEOREM DeliveryImplementsService == Spec => ImplementsService
<1>1. DeliveryInv /\ [Next]_vars => [NextService]_serviceVars /\ DeliveryInv'
  BY DeliveryStep
<1>. QED
  BY <1>1, DeliveryInit, PTL DEF Spec, ImplementsService

\* So no answer of the storage task reaches the wrong one, none is lost, and
\* the channel and the spool stay within their bounds.
THEOREM DeliveryAnswers == Spec => [](TypeService /\ OneOutstanding)
<1>1. DeliveryInv /\ [Next]_vars => DeliveryInv'
  BY DeliveryStep
<1>2. DeliveryInv => TypeService /\ OneOutstanding
  BY DEF DeliveryInv, ServiceInv
<1>. QED
  BY <1>1, <1>2, DeliveryInit, PTL DEF Spec
-----------------------------------------------------------------------------
(* The order of measurements and the numbers that name records.            *)

\* The payloads that clients hold or are about to take, and the records that
\* any task may still name.
Known == Range(queue) \cup {payload.record : payload \in Given}

Coming == {i \in DOMAIN requests : requests[i].op = "append"}

\* No number is used twice, and every measurement in the channel is newer than
\* any number given so far and than the last restart.
OrderInv ==
    /\ next_sequence <= measured
    /\ \A i \in DOMAIN queue : queue[i].payload <= measured
    /\ \A i \in Coming : /\ next_sequence < requests[i].about
                         /\ booted_at < requests[i].about
                         /\ requests[i].about <= measured
    /\ MeasurementOrder

\* A number names one record.
NamesInv ==
    /\ \A r \in Known : r.sequence < next_sequence
    /\ \A r, s \in Known : r.sequence = s.sequence => r = s

\* A client acknowledges the record it holds.
AcksHeld ==
    \A c \in Clients :
        stage[c] # "idle" /\ command[c].op = "ack" =>
            held[c] # <<>> /\ command[c].about = held[c][1].record.sequence

\* What the storage task may say of the boot a record is from.
BootInv ==
    /\ storage = "recovering" => Given = {}
    /\ CurrentBootExact
    /\ storage = "ready" =>
         /\ first_of_boot <= next_sequence
         /\ \A r \in Range(queue) : r.sequence >= first_of_boot <=> r.payload > booted_at
    /\ storage # "ready" => \A r \in Range(queue) : r.payload <= booted_at

NamingInv == ServiceInv /\ OrderInv /\ NamesInv /\ AcksHeld /\ BootInv

\* The sequence numbers do not run out: fewer measurements than half of them
\* (u64) are ever made.
NumbersLast == 2 * MaxMeasurements < SequenceMod


\* Both parts of the type, as the steps below use them.
LEMMA NamingTypes ==
    ASSUME ServiceInv
    PROVE  /\ TypeTask /\ ChannelInv
           /\ queue \in Seq(Record)
           /\ \A r \in Record : r.sequence \in Nat /\ r.payload \in Nat
           /\ next_sequence \in Nat /\ first_of_boot \in Nat
           /\ measured \in Nat /\ booted_at \in Nat /\ booted_at <= measured
           /\ measured <= MaxMeasurements
<1>1. TypeTask /\ ChannelInv
  BY ServiceInvSplit
<1>2. SequenceMod \in Nat
  BY SequenceType
<1>3. \A s \in Sequence : s \in Nat
  BY <1>2 DEF Sequence
<1>4. \A r \in Record : r.sequence \in Nat /\ r.payload \in Nat
  BY <1>3, ServiceAssumption DEF Record
<1>5. measured \in Nat /\ booted_at \in Nat /\ booted_at <= measured /\ measured <= MaxMeasurements
  BY <1>1, ServiceAssumption DEF TypeTask
<1>. QED
  BY <1>1, <1>3, <1>4, <1>5 DEF TypeTask

\* Given, from whatever the clients hold and are answered.
LEMMA GivenOf ==
    ASSUME NEW h, NEW y, NEW payload
    PROVE  payload \in (UNION {Range(h[c]) : c \in Clients})
                          \cup UNION {UNION {Range(r.payload) : r \in Range(y[c])} : c \in Clients}
           <=> \E c \in Clients : \/ payload \in Range(h[c])
                                  \/ \E r \in Range(y[c]) : payload \in Range(r.payload)
<1>1. payload \in UNION {Range(h[c]) : c \in Clients} <=> \E c \in Clients : payload \in Range(h[c])
  OBVIOUS
<1>2. ASSUME NEW c \in Clients
      PROVE  payload \in UNION {Range(r.payload) : r \in Range(y[c])}
             <=> \E r \in Range(y[c]) : payload \in Range(r.payload)
  OBVIOUS
<1>3. payload \in UNION {UNION {Range(r.payload) : r \in Range(y[c])} : c \in Clients}
      <=> \E c \in Clients : payload \in UNION {Range(r.payload) : r \in Range(y[c])}
  OBVIOUS
<1>. QED
  BY <1>1, <1>2, <1>3

LEMMA GivenIs ==
    \A payload : payload \in Given <=>
        \E c \in Clients : \/ payload \in Range(held[c])
                           \/ \E r \in Range(reply[c]) : payload \in Range(r.payload)
BY GivenOf DEF Given

LEMMA GivenNext ==
    \A payload : payload \in Given' <=>
        \E c \in Clients : \/ payload \in Range(held'[c])
                           \/ \E r \in Range(reply'[c]) : payload \in Range(r.payload)
BY GivenOf DEF Given

LEMMA RangeOfFew ==
    /\ Range(<<>>) = {}
    /\ \A x : Range(<<x>>) = {x}
BY DEF Range

\* Of the payloads, an answer adds its own and an answer taken none.
LEMMA GivenAnswered ==
    ASSUME ChannelInv, NEW f \in Clients, NEW response,
           reply' = [reply EXCEPT ![f] = <<response>>], held' = held
    PROVE  Given' \subseteq Given \cup Range(response.payload)
<1>1. /\ reply'[f] = <<response>>
      /\ \A c \in Clients : c # f => reply'[c] = reply[c]
  BY DEF ChannelInv, TypeChannel
<1>2. Range(reply'[f]) = {response}
  BY <1>1, RangeOfFew
<1>. QED
  BY <1>1, <1>2, GivenIs, GivenNext

LEMMA GivenByClient ==
    ASSUME ChannelInv, NEW c \in Clients, AnyClient(c) \/ Send(c) \/ Take(c)
    PROVE  Given' \subseteq Given
<1>1. CASE held' = held /\ reply' = reply
  BY <1>1, GivenIs, GivenNext
<1>2. CASE Forget(c)
  <2>1. reply' = reply /\ held'[c] = <<>> /\ \A d \in Clients : d # c => held'[d] = held[d]
    BY <1>2 DEF Forget, ChannelInv, TypeChannel
  <2>2. Range(held'[c]) = {}
    BY <2>1, RangeOfFew
  <2>. QED
    BY <2>1, <2>2, GivenIs, GivenNext
<1>3. CASE Take(c)
  <2>1. /\ reply'[c] = <<>> /\ reply[c] # <<>>
        /\ \A d \in Clients : d # c => reply'[d] = reply[d] /\ held'[d] = held[d]
        /\ held'[c] \in {held[c], reply[c][1].payload}
    BY <1>3 DEF Take, ChannelInv, TypeChannel
  <2>2. reply[c] \in Seq(Response)
    BY DEF ChannelInv, TypeChannel
  <2>3. reply[c][1] \in Range(reply[c])
    BY <2>1, <2>2 DEF Range
  <2>4. Range(reply'[c]) = {}
    BY <2>1, RangeOfFew
  <2>. QED
    BY <2>1, <2>3, <2>4, GivenIs, GivenNext
<1>4. AnyClient(c) \/ Send(c) => (held' = held /\ reply' = reply) \/ Forget(c)
  BY DEF AnyClient, Ask, Send
<1>. QED
  BY <1>1, <1>2, <1>3, <1>4

\* Every payload is of a record.
LEMMA GivenTyped ==
    ASSUME ChannelInv
    PROVE  \A payload \in Given : payload \in StoredPayload
<1>. SUFFICES ASSUME NEW payload \in Given PROVE payload \in StoredPayload
  OBVIOUS
<1>1. PICK c \in Clients : \/ payload \in Range(held[c])
                           \/ \E r \in Range(reply[c]) : payload \in Range(r.payload)
  BY GivenIs
<1>2. held[c] \in Seq(StoredPayload) /\ reply[c] \in Seq(Response)
  BY DEF ChannelInv, TypeChannel
<1>3. \A s \in Seq(StoredPayload) : Range(s) \subseteq StoredPayload
  BY DEF Range
<1>4. \A r \in Range(reply[c]) : r \in Response
  BY <1>2 DEF Range
<1>5. \A r \in Response : r.payload \in Seq(StoredPayload)
  BY DEF Response
<1>. QED
  BY <1>1, <1>2, <1>3, <1>4, <1>5

LEMMA KnownTyped ==
    ASSUME ServiceInv
    PROVE  \A r \in Known : r \in Record /\ r.sequence \in Nat /\ r.payload \in Nat
<1>1. \A payload \in Given : payload.record \in Record
  BY NamingTypes, GivenTyped DEF StoredPayload
<1>2. \A r \in Range(queue) : r \in Record
  BY NamingTypes DEF Range
<1>. QED
  BY <1>1, <1>2, NamingTypes DEF Known

-----------------------------------------------------------------------------
(* What a step may do to the queue and the channel.                        *)

\* A front of q has left and r is behind the rest.
FrontLeft(q, r, new) ==
    \E k \in 0 .. Len(q) :
        /\ new \in Seq(Record) /\ Len(new) = Len(q) - k + 1
        /\ \A i \in 1 .. Len(q) - k : new[i] = q[i + k]
        /\ new[Len(q) - k + 1] = r

\* The spool gives up a front of its queue and adds the record.
LEMMA SpoolKeeps ==
    ASSUME NEW q \in Seq(Record), Len(q) <= Capacity, NEW r \in Record
    PROVE  FrontLeft(q, r, Spool!Fitting(Spool!Push(q, r)))
<1>0. PICK new : new = Spool!Fitting(Spool!Push(q, r))
  OBVIOUS
<1>1. PICK p : p = Spool!Push(q, r)
  OBVIOUS
<1>2. p \in Seq(Record) /\ Len(p) \in 1 .. Capacity /\ p # <<>> /\ p = Push(q, r)
  <2>1. Spool!Push(q, r) = Push(q, r)
    BY DEF Spool!Push, Push
  <2>. QED
    BY <1>1, <2>1, SpoolPush
<1>3. PICK j \in 1 .. Len(q) + 1 : p = From(q, j) \o <<r>>
  BY <1>2, PushKeeps
<1>4. PICK f \in Seq(Record) : f = From(q, j)
  BY FromProperties
<1>5. Len(f) = Len(q) - j + 1 /\ \A i \in 1 .. Len(f) : f[i] = q[i + j - 1]
  BY <1>4, FromProperties
<1>6. Len(p) = Len(f) + 1 /\ (\A i \in 1 .. Len(f) : p[i] = f[i]) /\ p[Len(f) + 1] = r
  BY <1>3, <1>4
<1>7. PICK k \in 1 .. Len(p) : k = Spool!FirstFitting(p)
  BY <1>2, SpoolFirstFitting
<1>8. new = From(p, k)
  BY <1>0, <1>1, <1>7 DEF Spool!Fitting, Spool!From, From
<1>9. new \in Seq(Record) /\ Len(new) = Len(p) - k + 1
      /\ \A i \in 1 .. Len(p) - k + 1 : new[i] = p[i + k - 1]
  <2>1. k \in 1 .. Len(p) + 1
    BY <1>2
  <2>2. From(p, k) \in Seq(Record) /\ Len(From(p, k)) = Len(p) - k + 1
        /\ \A i \in 1 .. Len(p) - k + 1 : From(p, k)[i] = p[i + k - 1]
    BY <1>2, <2>1, FromProperties
  <2>. QED
    BY <1>8, <2>2
<1>10. PICK m \in 0 .. Len(q) : m = j + k - 2
  BY <1>5, <1>6
<1>11. Len(new) = Len(q) - m + 1
  BY <1>5, <1>6, <1>9, <1>10
<1>12. \A i \in 1 .. Len(q) - m : new[i] = q[i + m]
  <2>. SUFFICES ASSUME NEW i \in 1 .. Len(q) - m PROVE new[i] = q[i + m]
    OBVIOUS
  <2>1. i + k - 1 \in 1 .. Len(f) /\ i \in 1 .. Len(p) - k + 1 /\ (i + k - 1) + j - 1 = i + m
    BY <1>5, <1>6, <1>10
  <2>. QED
    BY <1>5, <1>6, <1>9, <2>1
<1>13. new[Len(q) - m + 1] = r
  <2>1. PICK i : i = Len(q) - m + 1
    OBVIOUS
  <2>2. i \in 1 .. Len(p) - k + 1 /\ i + k - 1 = Len(f) + 1
    BY <1>5, <1>6, <1>10, <2>1
  <2>3. new[i] = p[i + k - 1]
    BY <1>9, <2>2
  <2>4. p[Len(f) + 1] = r
    BY <1>6
  <2>. QED
    BY <2>1, <2>2, <2>3, <2>4, Zenon
<1>14. FrontLeft(q, r, new)
  BY <1>9, <1>11, <1>12, <1>13 DEF FrontLeft
<1>. QED
  BY <1>0, <1>14

LEMMA ComingTyped ==
    ASSUME ChannelInv
    PROVE  Coming \subseteq Nat /\ \A i \in Coming : requests[i].about \in Nat
<1>1. requests \in Seq(Command)
  BY DEF ChannelInv, TypeChannel
<1>2. \A i \in DOMAIN requests : i \in Nat /\ requests[i] \in Command
  BY <1>1
<1>. QED
  BY <1>2 DEF Coming, Command

\* What comes after the front, and what stays in the spool, keeps its order.
LEMMA OrderShrinks ==
    ASSUME ServiceInv, OrderInv,
           next_sequence' \in Nat, next_sequence' <= next_sequence, measured' = measured,
           booted_at' = booted_at \/ Coming' = {},
           NEW k \in Nat, \A i \in DOMAIN queue' : i + k \in DOMAIN queue /\ queue'[i] = queue[i + k],
           NEW n \in Nat, \A i \in Coming' : i + n \in Coming /\ requests'[i] = requests[i + n],
           DOMAIN queue' \subseteq Nat, Coming' \subseteq Nat
    PROVE  OrderInv'
<1>1. \A i \in Coming : next_sequence < requests[i].about /\ requests[i].about <= measured
  BY DEF OrderInv
<1>2. next_sequence' <= measured' /\ next_sequence \in Nat /\ measured \in Nat
  BY NamingTypes DEF OrderInv
<1>3. \A i \in DOMAIN queue' : queue'[i].payload <= measured'
  BY DEF OrderInv
<1>4. \A i \in Coming' : next_sequence' < requests'[i].about /\ requests'[i].about <= measured'
  <2>1. \A i \in Coming : requests[i].about \in Nat
    BY NamingTypes, ComingTyped
  <2>. QED
    BY <1>1, <1>2, <2>1
<1>5. \A i \in Coming' : requests'[i].about > booted_at'
  BY DEF OrderInv
<1>6. /\ \A i, j \in DOMAIN queue : i < j => queue[i].payload < queue[j].payload
      /\ \A i, j \in Coming : i < j => requests[i].about < requests[j].about
      /\ \A i \in DOMAIN queue, j \in Coming : queue[i].payload < requests[j].about
  BY DEF OrderInv, MeasurementOrder, Coming
<1>7. /\ \A i, j \in DOMAIN queue' : i < j => queue'[i].payload < queue'[j].payload
      /\ \A i, j \in Coming' : i < j => requests'[i].about < requests'[j].about
      /\ \A i \in DOMAIN queue', j \in Coming' : queue'[i].payload < requests'[j].about
  <2>1. \A i, j \in Nat : i < j => i + k < j + k /\ i + n < j + n
    OBVIOUS
  <2>. QED
    BY <1>6, <2>1
<1>8. MeasurementOrder'
  BY <1>7 DEF MeasurementOrder, Coming
<1>. QED
  BY <1>2, <1>3, <1>4, <1>5, <1>8 DEF OrderInv


\* The command at the front leaves the channel.
LEMMA ComingAfterTail ==
    ASSUME ChannelInv, requests # <<>>, requests' = Tail(requests)
    PROVE  /\ Coming' \subseteq Nat \ {0}
           /\ \A i \in Coming' : i + 1 \in Coming /\ requests'[i] = requests[i + 1]
<1>1. requests \in Seq(Command)
  BY DEF ChannelInv, TypeChannel
<1>2. DOMAIN requests' = 1 .. Len(requests) - 1 /\ DOMAIN requests = 1 .. Len(requests)
      /\ Len(requests) \in Nat
      /\ \A i \in 1 .. Len(requests) - 1 : requests'[i] = requests[i + 1]
  BY <1>1, AfterTail
<1>. QED
  BY <1>2 DEF Coming

\* A question joins the channel.
LEMMA ComingAfterSend ==
    ASSUME ChannelInv, NEW c \in Clients, Send(c)
    PROVE  /\ Coming' \subseteq Nat
           /\ \A i \in Coming' : i \in Coming /\ requests'[i] = requests[i]
<1>1. requests \in Seq(Command) /\ command[c] \in Command /\ command[c].op # "append"
      /\ requests' = Append(requests, command[c])
  BY DEF ChannelInv, TypeChannel, CommandsWellFormed, Send
<1>2. DOMAIN requests' = 1 .. Len(requests) + 1 /\ DOMAIN requests = 1 .. Len(requests)
      /\ Len(requests) \in Nat
      /\ (\A i \in 1 .. Len(requests) : requests'[i] = requests[i])
      /\ requests'[Len(requests) + 1] = command[c]
  BY <1>1, AfterAppend
<1>. QED
  BY <1>1, <1>2 DEF Coming

\* A measurement joins the channel, or is lost.
LEMMA ComingAfterMeasure ==
    ASSUME ServiceInv, Measure, NEW n, n = Len(requests)
    PROVE  /\ n \in Nat /\ Coming \subseteq 1 .. n /\ Coming' \subseteq Nat
           /\ \A i \in Coming' : \/ i \in Coming /\ requests'[i] = requests[i]
                                 \/ i = n + 1 /\ requests'[i].about = measured'
<1>1. requests \in Seq(Command)
  BY NamingTypes DEF ChannelInv, TypeChannel
<1>2. n \in Nat /\ DOMAIN requests = 1 .. n
  BY <1>1
<1>3. Coming \subseteq 1 .. n
  BY <1>2 DEF Coming
<1>4. CASE requests' = requests
  BY <1>2, <1>3, <1>4 DEF Coming
<1>5. CASE requests' = Append(requests, AppendOf(measured'))
  <2>1. PICK request : request = AppendOf(measured')
    OBVIOUS
  <2>2. request.about = measured' /\ request.op = "append"
    BY <2>1 DEF AppendOf
  <2>3. measured' \in Nat
    BY NamingTypes DEF Measure
  <2>4. request \in Command
    BY <2>1, <2>3 DEF AppendOf, Command
  <2>5. /\ DOMAIN requests' = 1 .. n + 1
        /\ \A i \in 1 .. n : requests'[i] = requests[i]
        /\ requests'[n + 1] = request
    BY <1>1, <1>5, <2>1, <2>4, AfterAppend
  <2>6. \A i \in 1 .. n + 1 : i \in 1 .. n \/ i = n + 1
    BY <1>2
  <2>. QED
    BY <1>2, <1>3, <2>2, <2>5, <2>6 DEF Coming
<1>. QED
  BY <1>4, <1>5 DEF Measure

\* Every measurement in the channel is newer than the last restart, every
\* number given and every record, and they come in their order.
LEMMA OrderMeasure ==
    ASSUME ServiceInv, OrderInv, Measure
    PROVE  OrderInv'
<1>1. measured' = measured + 1 /\ UNCHANGED <<queue, next_sequence, booted_at>>
  BY DEF Measure, spoolVars, historyVars
<1>2. /\ next_sequence \in Nat /\ measured \in Nat /\ booted_at \in Nat /\ booted_at <= measured
      /\ next_sequence <= measured
      /\ Coming \subseteq Nat /\ \A i \in Coming : requests[i].about \in Nat
  BY NamingTypes, ComingTyped DEF OrderInv
<1>3. \A i \in DOMAIN queue : queue[i].payload \in Nat /\ queue[i].payload <= measured
  BY NamingTypes DEF OrderInv
<1>4. PICK n : n = Len(requests)
  OBVIOUS
<1>5. /\ n \in Nat /\ Coming \subseteq 1 .. n /\ Coming' \subseteq Nat
      /\ \A i \in Coming' : \/ i \in Coming /\ requests'[i] = requests[i]
                            \/ i = n + 1 /\ requests'[i].about = measured'
  BY <1>4, ComingAfterMeasure
<1>6. \A i \in Coming : /\ next_sequence < requests[i].about
                         /\ booted_at < requests[i].about
                         /\ requests[i].about <= measured
  BY DEF OrderInv
<1>7. \A i \in Coming' : /\ next_sequence' < requests'[i].about
                          /\ booted_at' < requests'[i].about
                          /\ requests'[i].about <= measured'
  BY <1>1, <1>2, <1>5, <1>6
<1>8. \A i, j \in Coming' : i < j => requests'[i].about < requests'[j].about
  <2>1. \A i, j \in Coming : i < j => requests[i].about < requests[j].about
    BY DEF OrderInv, MeasurementOrder, Coming
  <2>. QED
    BY <1>1, <1>2, <1>5, <1>6, <2>1
<1>9. \A i \in DOMAIN queue, j \in Coming' : queue[i].payload < requests'[j].about
  <2>1. \A i \in DOMAIN queue, j \in Coming : queue[i].payload < requests[j].about
    BY DEF OrderInv, MeasurementOrder, Coming
  <2>. QED
    BY <1>1, <1>2, <1>3, <1>5, <2>1
<1>10. MeasurementOrder'
  <2>1. \A i, j \in DOMAIN queue : i < j => queue[i].payload < queue[j].payload
    BY DEF OrderInv, MeasurementOrder
  <2>. QED
    BY <1>1, <1>8, <1>9, <2>1 DEF MeasurementOrder, Coming
<1>. QED
  BY <1>1, <1>2, <1>3, <1>7, <1>10 DEF OrderInv


\* The number after one of a record is the next one: no number wraps.
LEMMA NoWrap ==
    ASSUME ServiceInv, NumbersLast, next_sequence < measured
    PROVE  Spool!NextOf(next_sequence) = next_sequence + 1
<1>1. Spool!NextOf(next_sequence) = (next_sequence + 1) % SequenceMod
  BY DEF Spool!NextOf, Spool!SequenceMod, SequenceMod
<1>2. SequenceMod \in Nat \ {0} /\ next_sequence \in Nat /\ measured \in Nat
      /\ measured <= MaxMeasurements /\ MaxMeasurements \in Nat
  BY SequenceType, NamingTypes, ServiceAssumption
<1>3. next_sequence + 1 < SequenceMod
  BY <1>2 DEF NumbersLast
<1>. QED
  BY <1>1, <1>2, <1>3

\* What an append does to the queue, with the measurement from the front.
LEMMA AppendEffect ==
    ASSUME ServiceInv, OrderInv, NumbersLast, AppendHandled,
           NEW r, r = [sequence |-> next_sequence, payload |-> Current.about]
    PROVE  /\ 1 \in Coming /\ requests[1].about = r.payload /\ r.sequence = next_sequence
           /\ r \in Record /\ next_sequence' = next_sequence + 1
           /\ Len(queue) \in Nat /\ DOMAIN queue = 1 .. Len(queue)
           /\ FrontLeft(queue, r, queue')
<1>1. /\ requests # <<>> /\ Current.op = "append" /\ requests' = Tail(requests)
      /\ UNCHANGED clientVars
      /\ queue' = Spool!Fitting(Spool!Push(queue, r))
      /\ next_sequence' = Spool!NextOf(next_sequence)
  BY DEF AppendHandled, Receive, Spool!AppendRecord
<1>2. TypeTask /\ ChannelInv
  BY NamingTypes
<1>3. 1 \in DOMAIN requests /\ Current = requests[1]
  BY <1>1, <1>2 DEF ChannelInv, TypeChannel, Current
<1>4. 1 \in Coming
  BY <1>1, <1>3 DEF Coming
<1>5. Current.about \in Payloads
  BY <1>1, <1>2, AppendTaken
<1>6. r \in Record
  BY <1>2, <1>5 DEF TypeTask, Record
<1>7. next_sequence < measured
  <2>1. next_sequence < requests[1].about /\ requests[1].about <= measured
    BY <1>4 DEF OrderInv
  <2>2. requests[1].about \in Nat
    BY <1>2, <1>4, ComingTyped
  <2>. QED
    BY <2>1, <2>2, NamingTypes
<1>8. next_sequence' = next_sequence + 1
  BY <1>1, <1>7, NoWrap
<1>9. FrontLeft(queue, r, queue')
  <2>1. queue \in Seq(Record) /\ Len(queue) <= Capacity
    BY <1>2 DEF TypeTask
  <2>2. FrontLeft(queue, r, Spool!Fitting(Spool!Push(queue, r)))
    BY <1>6, <2>1, SpoolKeeps
  <2>. QED
    BY <1>1, <2>2
<1>10. Len(queue) \in Nat /\ DOMAIN queue = 1 .. Len(queue)
  BY <1>2 DEF TypeTask
<1>. QED
  BY <1>3, <1>4, <1>6, <1>8, <1>9, <1>10

LEMMA OrderAppend ==
    ASSUME ServiceInv, OrderInv, NumbersLast, AppendHandled
    PROVE  OrderInv'
<1>1. PICK r : r = [sequence |-> next_sequence, payload |-> Current.about]
  OBVIOUS
<1>2. /\ 1 \in Coming /\ requests[1].about = r.payload
      /\ r \in Record /\ next_sequence' = next_sequence + 1
      /\ Len(queue) \in Nat /\ DOMAIN queue = 1 .. Len(queue)
  BY <1>1, AppendEffect
<1>3. PICK k \in 0 .. Len(queue) :
         /\ queue' \in Seq(Record) /\ Len(queue') = Len(queue) - k + 1
         /\ \A i \in 1 .. Len(queue) - k : queue'[i] = queue[i + k]
         /\ queue'[Len(queue) - k + 1] = r
  BY <1>1, AppendEffect DEF FrontLeft
<1>4. UNCHANGED <<measured, booted_at>>
  BY DEF AppendHandled, historyVars
<1>5. /\ Coming' \subseteq Nat \ {0}
      /\ \A i \in Coming' : i + 1 \in Coming /\ requests'[i] = requests[i + 1]
  BY ComingAfterTail, NamingTypes DEF AppendHandled, Receive
<1>6. /\ next_sequence \in Nat /\ measured \in Nat /\ booted_at \in Nat
      /\ Coming \subseteq Nat /\ \A i \in Coming : requests[i].about \in Nat
  BY NamingTypes, ComingTyped
<1>7. /\ \A i, j \in 1 .. Len(queue) : i < j => queue[i].payload < queue[j].payload
      /\ \A i, j \in Coming : i < j => requests[i].about < requests[j].about
      /\ \A i \in 1 .. Len(queue), j \in Coming : queue[i].payload < requests[j].about
      /\ \A i \in 1 .. Len(queue) : queue[i].payload <= measured
  BY <1>2 DEF OrderInv, MeasurementOrder, Coming
<1>8. \A i \in Coming : /\ next_sequence < requests[i].about
                        /\ booted_at < requests[i].about
                        /\ requests[i].about <= measured
  BY DEF OrderInv
<1>9. \A j \in Coming' : 1 < j + 1 /\ r.payload < requests'[j].about
  BY <1>2, <1>5, <1>6, <1>7
<1>10. \A i \in DOMAIN queue' :
          \/ i \in 1 .. Len(queue) - k /\ i + k \in 1 .. Len(queue) /\ queue'[i] = queue[i + k]
          \/ i = Len(queue) - k + 1 /\ queue'[i] = r
  BY <1>2, <1>3
<1>11. r.payload <= measured /\ next_sequence < r.payload /\ r.payload \in Nat
       /\ \A i \in 1 .. Len(queue) : queue[i].payload < r.payload
  <2>1. requests[1].about <= measured /\ next_sequence < requests[1].about
    BY <1>2, <1>8
  <2>2. requests[1].about \in Nat
    BY <1>2, <1>6
  <2>3. \A i \in 1 .. Len(queue) : queue[i].payload < requests[1].about
    BY <1>2, <1>7
  <2>. QED
    BY <1>2, <2>1, <2>2, <2>3
<1>12. \A i, j \in DOMAIN queue' : i < j => queue'[i].payload < queue'[j].payload
  BY <1>2, <1>7, <1>10, <1>11
<1>13. ASSUME NEW i \in Coming', NEW j \in Coming', i < j
       PROVE  requests'[i].about < requests'[j].about
  <2>1. /\ i \in Nat /\ j \in Nat /\ i + 1 < j + 1
        /\ i + 1 \in Coming /\ requests'[i] = requests[i + 1]
        /\ j + 1 \in Coming /\ requests'[j] = requests[j + 1]
    BY <1>5, <1>13
  <2>. QED
    BY <1>7, <2>1
<1>14. \A i \in DOMAIN queue', j \in Coming' : queue'[i].payload < requests'[j].about
  BY <1>5, <1>7, <1>9, <1>10
<1>15. MeasurementOrder'
  BY <1>12, <1>13, <1>14 DEF MeasurementOrder, Coming
<1>16. \A i \in Coming' : /\ next_sequence' < requests'[i].about
                          /\ booted_at' < requests'[i].about
                          /\ requests'[i].about <= measured'
  BY <1>2, <1>4, <1>5, <1>6, <1>8, <1>9, <1>11
<1>17. next_sequence' <= measured' /\ \A i \in DOMAIN queue' : queue'[i].payload <= measured'
  BY <1>2, <1>4, <1>6, <1>7, <1>10, <1>11
<1>. QED
  BY <1>15, <1>16, <1>17 DEF OrderInv

\* The other commands: the oldest record leaves, or none.
LEMMA HandleEffect ==
    ASSUME ServiceInv, Handle, ~AppendHandled
    PROVE  /\ requests # <<>> /\ requests' = Tail(requests)
           /\ UNCHANGED <<next_sequence, measured, booted_at, storage, first_of_boot>>
           /\ \E k \in {0, 1} :
                 /\ DOMAIN queue' \subseteq Nat
                 /\ \A i \in DOMAIN queue' : i + k \in DOMAIN queue /\ queue'[i] = queue[i + k]
<1>1. requests # <<>> /\ requests' = Tail(requests)
  BY DEF Handle, Receive, AppendHandled, AppendFails, AppendRefused, PeekHandled,
         QuestionRefused, AckHandled, AckStale, AckFails, AckFailsPopped
<1>2. UNCHANGED <<next_sequence, measured, booted_at, storage, first_of_boot>>
  BY DEF Handle, AppendFails, AppendRefused, PeekHandled, QuestionRefused, AckHandled, AckStale,
         AckFails, AckFailsPopped, Spool!AcknowledgeOldest, spoolVars, taskVars, historyVars
<1>3. queue \in Seq(Record)
  BY NamingTypes
<1>4. queue' = queue \/ (queue # <<>> /\ queue' = Tail(queue))
  BY DEF Handle, AppendFails, AppendRefused, PeekHandled, QuestionRefused, AckHandled, AckStale,
         AckFails, AckFailsPopped, Spool!AcknowledgeOldest, spoolVars
<1>5. CASE queue' = queue
  <2>1. /\ DOMAIN queue' \subseteq Nat
        /\ \A i \in DOMAIN queue' : i + 0 \in DOMAIN queue /\ queue'[i] = queue[i + 0]
    BY <1>3, <1>5
  <2>. QED
    BY <1>1, <1>2, <2>1
<1>6. CASE queue # <<>> /\ queue' = Tail(queue)
  <2>1. /\ DOMAIN queue' \subseteq Nat
        /\ \A i \in DOMAIN queue' : i + 1 \in DOMAIN queue /\ queue'[i] = queue[i + 1]
    BY <1>3, <1>6
  <2>. QED
    BY <1>1, <1>2, <2>1
<1>. QED
  BY <1>4, <1>5, <1>6

LEMMA SameQueue ==
    ASSUME ServiceInv, queue' = queue
    PROVE  /\ DOMAIN queue' \subseteq Nat
           /\ \A i \in DOMAIN queue' : i + 0 \in DOMAIN queue /\ queue'[i] = queue[i + 0]
BY NamingTypes

LEMMA SameComing ==
    ASSUME ServiceInv, requests' = requests
    PROVE  /\ Coming' \subseteq Nat
           /\ \A i \in Coming' : i + 0 \in Coming /\ requests'[i] = requests[i + 0]
<1>1. Coming' = Coming
  BY DEF Coming
<1>. QED
  BY <1>1, ComingTyped, NamingTypes

LEMMA OrderStep ==
    ASSUME ServiceInv, OrderInv, NumbersLast, [NextService]_serviceVars
    PROVE  OrderInv'
<1>0. next_sequence \in Nat /\ next_sequence <= next_sequence /\ 0 \in Nat /\ 1 \in Nat
      /\ 0 <= next_sequence
  BY NamingTypes
<1>1. CASE UNCHANGED serviceVars
  BY <1>0, <1>1, SameQueue, SameComing, OrderShrinks DEF serviceVars, spoolVars, historyVars
<1>2. CASE Measure
  BY <1>2, OrderMeasure
<1>3. ASSUME NEW c \in Clients, AnyClient(c) \/ Send(c) \/ Take(c)
      PROVE  OrderInv'
  <2>1. UNCHANGED <<queue, next_sequence, measured, booted_at>>
    BY <1>3 DEF AnyClient, Ask, Forget, Send, Take, spoolVars, historyVars
  <2>2. CASE requests' = requests
    BY <1>0, <2>1, <2>2, SameQueue, SameComing, OrderShrinks
  <2>3. CASE Send(c)
    <3>1. Coming' \subseteq Nat /\ \A i \in Coming' : i + 0 \in Coming /\ requests'[i] = requests[i + 0]
      BY <2>3, ComingAfterSend, NamingTypes
    <3>. QED
      BY <1>0, <2>1, <3>1, SameQueue, OrderShrinks
  <2>. QED
    BY <1>3, <2>2, <2>3 DEF AnyClient, Ask, Forget, Take
<1>4. CASE RecoverSucceeds \/ RecoverFails
  <2>1. /\ UNCHANGED <<queue, requests, measured, booted_at>>
        /\ next_sequence' = next_sequence \/ next_sequence' = 0
    BY <1>4 DEF RecoverSucceeds, RecoverFails, historyVars, spoolVars
  <2>. QED
    BY <1>0, <2>1, SameQueue, SameComing, OrderShrinks
<1>5. CASE AppendHandled
  BY <1>5, OrderAppend
<1>6. CASE Handle /\ ~AppendHandled
  <2>1. /\ Coming' \subseteq Nat
        /\ \A i \in Coming' : i + 1 \in Coming /\ requests'[i] = requests[i + 1]
    BY <1>6, HandleEffect, ComingAfterTail, NamingTypes
  <2>2. PICK k \in {0, 1} :
           /\ DOMAIN queue' \subseteq Nat
           /\ \A i \in DOMAIN queue' : i + k \in DOMAIN queue /\ queue'[i] = queue[i + k]
    BY <1>6, HandleEffect
  <2>3. UNCHANGED <<next_sequence, measured, booted_at>> /\ k \in Nat
    BY <1>6, HandleEffect
  <2>. QED
    BY <1>0, <2>1, <2>2, <2>3, OrderShrinks
<1>7. CASE RestartService
  <2>1. UNCHANGED <<queue, next_sequence, measured>> /\ requests' = <<>>
    BY <1>7 DEF RestartService, spoolVars
  <2>2. Coming' = {}
    BY <2>1 DEF Coming
  <2>. QED
    BY <1>0, <2>1, <2>2, SameQueue, OrderShrinks
<1>. QED
  BY <1>1, <1>2, <1>3, <1>4, <1>5, <1>6, <1>7 DEF NextService, StorageTask


-----------------------------------------------------------------------------
(* The records that may still be named.                                    *)

LEMMA OldestKnown ==
    ASSUME queue \in Seq(Record)
    PROVE  \A payload \in Range(Oldest) :
              /\ payload.record \in Range(queue)
              /\ payload.current_boot = FromCurrentBoot(payload.record.sequence)
<1>1. CASE queue = <<>>
  BY <1>1, RangeOfFew DEF Oldest
<1>2. CASE queue # <<>>
  <2>1. PICK payload : payload = [record |-> Head(queue),
                                  current_boot |-> FromCurrentBoot(Head(queue).sequence)]
    OBVIOUS
  <2>2. Oldest = <<payload>>
    BY <1>2, <2>1 DEF Oldest
  <2>3. Range(Oldest) = {payload}
    BY <2>2, RangeOfFew
  <2>4. Head(queue) \in Range(queue)
    <3>1. 1 \in DOMAIN queue /\ Head(queue) = queue[1]
      BY <1>2
    <3>. QED
      BY <3>1 DEF Range
  <2>. QED
    BY <2>1, <2>3, <2>4
<1>. QED
  BY <1>1, <1>2

\* Only the answer to a peek gives a client a payload it did not have.
LEMMA GivenStep ==
    ASSUME ServiceInv, [NextService]_serviceVars
    PROVE  Given' \subseteq Given \/ (PeekHandled /\ Given' \subseteq Given \cup Range(Oldest))
<1>0. ChannelInv
  BY NamingTypes
<1>1. CASE held' = held /\ reply' = reply
  BY <1>1 DEF Given
<1>2. ASSUME NEW c \in Clients, AnyClient(c) \/ Send(c) \/ Take(c)
      PROVE  Given' \subseteq Given
  BY <1>0, <1>2, GivenByClient
<1>3. ASSUME Handle, NEW response, Answer(response), Current.op # "append"
      PROVE  Given' \subseteq Given \cup Range(response.payload)
  <2>1. Current.from \in Clients
    BY <1>0, <1>3, FrontIsOnly DEF Handle, Receive, PeekHandled, QuestionRefused, AckHandled, AckStale,
       AckFails, AckFailsPopped, AppendHandled, AppendFails, AppendRefused
  <2>. QED
    BY <1>0, <1>3, <2>1, GivenAnswered DEF Answer
<1>4. CASE PeekHandled
  <2>1. PICK response : response = Peeked(Oldest)
    OBVIOUS
  <2>2. response.payload = Oldest /\ Answer(response) /\ Current.op # "append" /\ Handle
    BY <1>4, <2>1 DEF Peeked, PeekHandled, Receive, Handle
  <2>. QED
    BY <1>3, <1>4, <2>2
<1>5. CASE AckHandled \/ AckStale
  <2>1. PICK response : Answer(response) /\ response.payload = <<>>
    BY <1>5 DEF AckHandled, AckStale, Acked
  <2>2. Current.op # "append" /\ Handle
    BY <1>5 DEF AckHandled, AckStale, Receive, Handle
  <2>. QED
    BY <1>3, <2>1, <2>2, RangeOfFew
<1>6. CASE QuestionRefused \/ AckFails \/ AckFailsPopped
  <2>1. PICK response : Answer(response) /\ response.payload = <<>>
    BY <1>6 DEF QuestionRefused, AckFails, AckFailsPopped, Error
  <2>2. Current.op # "append" /\ Handle
    BY <1>6 DEF QuestionRefused, AckFails, AckFailsPopped, Receive, Handle
  <2>. QED
    BY <1>3, <2>1, <2>2, RangeOfFew
<1>7. CASE RestartService
  <2>1. \A c \in Clients : held'[c] = <<>> /\ reply'[c] = <<>>
    BY <1>7 DEF RestartService, Empty
  <2>2. \A c \in Clients : Range(held'[c]) = {} /\ Range(reply'[c]) = {}
    BY <2>1, RangeOfFew
  <2>. QED
    BY <2>2, GivenNext
<1>8. UNCHANGED serviceVars \/ Measure \/ RecoverSucceeds \/ RecoverFails
      \/ AppendHandled \/ AppendFails \/ AppendRefused
         => held' = held /\ reply' = reply
  BY DEF serviceVars, clientVars, Measure, RecoverSucceeds, RecoverFails, AppendHandled,
         AppendFails, AppendRefused
<1>. QED
  BY <1>1, <1>2, <1>4, <1>5, <1>6, <1>7, <1>8 DEF NextService, StorageTask, Handle

LEMMA NothingGiven ==
    ASSUME RestartService
    PROVE  Given' = {}
<1>1. \A c \in Clients : held'[c] = <<>> /\ reply'[c] = <<>>
  BY DEF RestartService, Empty
<1>2. \A c \in Clients : Range(held'[c]) = {} /\ Range(reply'[c]) = {}
  BY <1>1, RangeOfFew
<1>. QED
  BY <1>2, GivenNext

\* Records leave the queue in every step but an append, none comes.
LEMMA QueueStep ==
    ASSUME ServiceInv, [NextService]_serviceVars, ~AppendHandled
    PROVE  Range(queue') \subseteq Range(queue)
<1>1. CASE queue' = queue
  BY <1>1
<1>2. CASE Handle
  <2>1. PICK k \in {0, 1} :
           /\ DOMAIN queue' \subseteq Nat
           /\ \A i \in DOMAIN queue' : i + k \in DOMAIN queue /\ queue'[i] = queue[i + k]
    BY <1>2, HandleEffect
  <2>. QED
    BY <2>1 DEF Range
<1>3. \/ UNCHANGED serviceVars \/ Measure \/ RecoverSucceeds \/ RecoverFails \/ RestartService
      \/ \E c \in Clients : AnyClient(c) \/ Send(c) \/ Take(c)
      => queue' = queue
  BY DEF serviceVars, spoolVars, Measure, RecoverSucceeds, RecoverFails, RestartService,
         AnyClient, Ask, Forget, Send, Take
<1>. QED
  BY <1>1, <1>2, <1>3 DEF NextService, StorageTask

LEMMA KnownStep ==
    ASSUME ServiceInv, [NextService]_serviceVars, ~AppendHandled
    PROVE  Known' \subseteq Known
<1>1. Range(queue') \subseteq Range(queue)
  BY QueueStep
<1>2. Given' \subseteq Given \cup Range(Oldest)
  BY GivenStep
<1>3. \A payload \in Range(Oldest) : payload.record \in Range(queue)
  BY OldestKnown, NamingTypes
<1>. QED
  BY <1>1, <1>2, <1>3 DEF Known

\* The number of a new record names no other one.
LEMMA KnownAppend ==
    ASSUME ServiceInv, OrderInv, NumbersLast, AppendHandled
    PROVE  /\ next_sequence' = next_sequence + 1
           /\ \E r \in Record : /\ r.sequence = next_sequence
                                /\ r.payload > booted_at
                                /\ Known' \subseteq Known \cup {r}
                                /\ Range(queue') \subseteq Range(queue) \cup {r}
           /\ Given' = Given
<1>1. PICK r : r = [sequence |-> next_sequence, payload |-> Current.about]
  OBVIOUS
<1>2. /\ 1 \in Coming /\ requests[1].about = r.payload /\ r.sequence = next_sequence
      /\ r \in Record /\ next_sequence' = next_sequence + 1
      /\ DOMAIN queue = 1 .. Len(queue) /\ Len(queue) \in Nat
  BY <1>1, AppendEffect
<1>3. PICK k \in 0 .. Len(queue) :
         /\ queue' \in Seq(Record) /\ Len(queue') = Len(queue) - k + 1
         /\ \A i \in 1 .. Len(queue) - k : queue'[i] = queue[i + k]
         /\ queue'[Len(queue) - k + 1] = r
  BY <1>1, AppendEffect DEF FrontLeft
<1>4. \A i \in DOMAIN queue' :
         \/ i + k \in DOMAIN queue /\ queue'[i] = queue[i + k]
         \/ queue'[i] = r
  BY <1>2, <1>3
<1>5. Range(queue') \subseteq Range(queue) \cup {r}
  BY <1>4 DEF Range
<1>6. Given' = Given
  BY DEF AppendHandled, clientVars, Given
<1>7. r.payload > booted_at
  <2>1. booted_at < requests[1].about
    BY <1>2 DEF OrderInv
  <2>2. requests[1].about \in Nat
    BY <1>2, ComingTyped, NamingTypes
  <2>. QED
    BY <1>2, <2>1, <2>2, NamingTypes
<1>8. Known' \subseteq Known \cup {r}
  BY <1>5, <1>6 DEF Known
<1>. QED
  BY <1>2, <1>5, <1>6, <1>7, <1>8

LEMMA NamesStep ==
    ASSUME NamingInv, NumbersLast, [NextService]_serviceVars
    PROVE  NamesInv'
<1>0. ServiceInv /\ OrderInv /\ NamesInv /\ BootInv /\ next_sequence \in Nat
  BY NamingTypes DEF NamingInv
<1>1. CASE AppendHandled
  <2>1. next_sequence' = next_sequence + 1
    BY <1>0, <1>1, KnownAppend
  <2>2. PICK r \in Record : r.sequence = next_sequence /\ Known' \subseteq Known \cup {r}
    BY <1>0, <1>1, KnownAppend
  <2>3. \A s \in Known : s.sequence \in Nat /\ s.sequence < next_sequence
    BY <1>0, KnownTyped DEF NamesInv
  <2>4. \A s, t \in Known : s.sequence = t.sequence => s = t
    BY <1>0 DEF NamesInv
  <2>5. \A s \in Known' : s.sequence < next_sequence'
    BY <1>0, <2>1, <2>2, <2>3
  <2>6. \A s, t \in Known' : s.sequence = t.sequence => s = t
    BY <1>0, <2>2, <2>3, <2>4
  <2>. QED
    BY <2>5, <2>6 DEF NamesInv
<1>2. CASE ~AppendHandled /\ next_sequence' = next_sequence
  <2>1. Known' \subseteq Known
    BY <1>0, <1>2, KnownStep
  <2>. QED
    BY <1>0, <1>2, <2>1 DEF NamesInv
<1>3. CASE RecoverSucceeds /\ queue = <<>>
  <2>1. Given = {} /\ held' = held /\ reply' = reply /\ queue' = <<>>
    BY <1>0, <1>3 DEF RecoverSucceeds, BootInv, clientVars
  <2>2. Given' = {} /\ Range(queue') = {}
    BY <2>1, RangeOfFew DEF Given
  <2>3. Known' = {}
    BY <2>2 DEF Known
  <2>. QED
    BY <2>3 DEF NamesInv
<1>4. AppendHandled \/ next_sequence' = next_sequence \/ (RecoverSucceeds /\ queue = <<>>)
  BY DEF NextService, StorageTask, Handle, serviceVars, spoolVars, Measure, RecoverSucceeds,
         RecoverFails, RestartService, AnyClient, Ask, Forget, Send, Take, AppendFails,
         AppendRefused, PeekHandled, QuestionRefused, AckHandled, AckStale, AckFails,
         AckFailsPopped, Spool!AcknowledgeOldest
<1>. QED
  BY <1>1, <1>2, <1>3, <1>4


\* A client holds the record it acknowledges until it has the answer.
LEMMA AcksStep ==
    ASSUME ServiceInv, AcksHeld, [NextService]_serviceVars
    PROVE  AcksHeld'
<1>0. /\ stage \in [Clients -> {"idle", "sending", "waiting"}]
      /\ command \in [Clients -> Command]
      /\ held \in [Clients -> Seq(StoredPayload)]
  BY NamingTypes DEF ChannelInv, TypeChannel
<1>1. CASE stage' = stage /\ command' = command /\ held' = held
  BY <1>1 DEF AcksHeld
<1>2. ASSUME NEW c \in Clients, AnyClient(c) \/ Send(c) \/ Take(c)
      PROVE  AcksHeld'
  <2>1. CASE Ask(c, PeekBy(c))
    <3>1. command'[c].op = "peek" /\ held' = held
          /\ \A d \in Clients : d # c => stage'[d] = stage[d] /\ command'[d] = command[d]
      BY <1>0, <2>1 DEF Ask, PeekBy
    <3>. QED
      BY <3>1 DEF AcksHeld
  <2>2. CASE held[c] # <<>> /\ Ask(c, AckBy(c, held[c][1].record.sequence))
    <3>1. command'[c].about = held[c][1].record.sequence /\ held' = held
          /\ \A d \in Clients : d # c => stage'[d] = stage[d] /\ command'[d] = command[d]
      BY <1>0, <2>2 DEF Ask, AckBy
    <3>. QED
      BY <2>2, <3>1 DEF AcksHeld
  <2>3. CASE Forget(c)
    <3>1. stage' = stage /\ command' = command /\ stage[c] = "idle"
          /\ \A d \in Clients : d # c => held'[d] = held[d]
      BY <1>0, <2>3 DEF Forget
    <3>. QED
      BY <3>1 DEF AcksHeld
  <2>4. CASE Send(c)
    <3>1. command' = command /\ held' = held /\ stage[c] # "idle"
          /\ \A d \in Clients : d # c => stage'[d] = stage[d]
      BY <1>0, <2>4 DEF Send
    <3>. QED
      BY <3>1 DEF AcksHeld
  <2>5. CASE Take(c)
    <3>1. stage'[c] = "idle"
          /\ \A d \in Clients : d # c =>
                stage'[d] = stage[d] /\ command'[d] = command[d] /\ held'[d] = held[d]
      BY <1>0, <2>5 DEF Take
    <3>. QED
      BY <3>1 DEF AcksHeld
  <2>. QED
    BY <1>2, <2>1, <2>2, <2>3, <2>4, <2>5 DEF AnyClient
<1>3. CASE RestartService
  <2>1. \A c \in Clients : stage'[c] = "idle"
    BY <1>3 DEF RestartService, Idle
  <2>. QED
    BY <2>1 DEF AcksHeld
<1>4. UNCHANGED serviceVars \/ Measure \/ StorageTask
         => stage' = stage /\ command' = command /\ held' = held
  BY DEF serviceVars, clientVars, Measure, StorageTask, RecoverSucceeds, RecoverFails, Handle,
         AppendHandled, AppendFails, AppendRefused, PeekHandled, QuestionRefused, AckHandled,
         AckStale, AckFails, AckFailsPopped, Answer
<1>. QED
  BY <1>1, <1>2, <1>3, <1>4 DEF NextService

\* sequence_is_from_current_boot compares two numbers of this log, which are
\* less than half of all numbers apart.
LEMMA WindowTest ==
    ASSUME NumbersLast, NEW s \in Nat, NEW f \in Nat, s < MaxMeasurements, f <= MaxMeasurements
    PROVE  (s - f) % SequenceMod < SequenceMod \div 2 <=> s >= f
<1>. DEFINE M == SequenceMod
            h == M \div 2
<1>1. M \in Nat \ {0} /\ MaxMeasurements \in Nat
  BY SequenceType, ServiceAssumption
<1>2. h \in Nat /\ 2 * h <= M /\ M <= 2 * h + 1
  BY <1>1
<1>3. 2 * MaxMeasurements < M
  BY DEF NumbersLast
<1>. HIDE DEF M, h
<1>4. CASE s >= f
  <2>1. (s - f) % M = s - f
    BY <1>1, <1>3, <1>4
  <2>2. s - f < h
    BY <1>1, <1>2, <1>3, <1>4
  <2>. QED
    BY <1>4, <2>1, <2>2 DEF M, h
<1>5. CASE s < f
  <2>1. (s - f) % M = s - f + M
    BY <1>1, <1>3, <1>5
  <2>2. ~(s - f + M < h)
    BY <1>1, <1>2, <1>3, <1>5
  <2>. QED
    BY <1>5, <2>1, <2>2 DEF M, h
<1>. QED
  BY <1>4, <1>5

\* What the storage task says of a record when it is ready.
LEMMA OldestExact ==
    ASSUME NamingInv, NumbersLast, storage = "ready"
    PROVE  \A payload \in Range(Oldest) : payload.current_boot <=> payload.record.payload > booted_at
<1>. SUFFICES ASSUME NEW payload \in Range(Oldest)
              PROVE  payload.current_boot <=> payload.record.payload > booted_at
  OBVIOUS
<1>1. PICK r \in Range(queue) : /\ r = payload.record
                                /\ payload.current_boot = FromCurrentBoot(r.sequence)
  BY OldestKnown, NamingTypes DEF NamingInv
<1>2. r \in Known
  BY <1>1 DEF Known
<1>3. /\ r.sequence \in Nat /\ r.sequence < next_sequence /\ next_sequence <= measured
      /\ next_sequence \in Nat /\ measured \in Nat /\ measured <= MaxMeasurements
      /\ first_of_boot \in Nat /\ first_of_boot <= next_sequence
      /\ MaxMeasurements \in Nat
  BY <1>2, NamingTypes, KnownTyped, ServiceAssumption DEF NamingInv, OrderInv, NamesInv, BootInv
<1>4. r.sequence < MaxMeasurements /\ first_of_boot <= MaxMeasurements
  BY <1>3
<1>5. FromCurrentBoot(r.sequence) <=> r.sequence >= first_of_boot
  BY <1>3, <1>4, WindowTest DEF FromCurrentBoot
<1>6. r.sequence >= first_of_boot <=> r.payload > booted_at
  BY <1>1 DEF NamingInv, BootInv
<1>. QED
  BY <1>1, <1>5, <1>6

LEMMA BootShrinks ==
    ASSUME BootInv, UNCHANGED <<storage, first_of_boot, booted_at, next_sequence>>,
           Range(queue') \subseteq Range(queue), Given' \subseteq Given
    PROVE  BootInv'
BY DEF BootInv, CurrentBootExact

LEMMA BootStep ==
    ASSUME NamingInv, NumbersLast, [NextService]_serviceVars
    PROVE  BootInv'
<1>0. /\ ServiceInv /\ OrderInv /\ NamesInv /\ BootInv
      /\ next_sequence \in Nat /\ booted_at \in Nat /\ measured \in Nat /\ first_of_boot \in Nat
      /\ \A r \in Range(queue) : r.sequence \in Nat /\ r.payload \in Nat /\ r.sequence < next_sequence
  <2>1. \A r \in Range(queue) : r \in Known
    BY DEF Known
  <2>. QED
    BY <2>1, NamingTypes, KnownTyped DEF NamingInv, NamesInv
<1>1. CASE AppendHandled
  <2>1. /\ storage = "ready" /\ UNCHANGED <<storage, first_of_boot, booted_at>>
        /\ next_sequence' = next_sequence + 1 /\ Given' = Given
    BY <1>0, <1>1, KnownAppend DEF AppendHandled, Receive, historyVars
  <2>2. PICK r \in Record : /\ r.sequence = next_sequence /\ r.payload > booted_at
                            /\ Range(queue') \subseteq Range(queue) \cup {r}
    BY <1>0, <1>1, KnownAppend
  <2>3. /\ first_of_boot <= next_sequence
        /\ \A s \in Range(queue) : s.sequence >= first_of_boot <=> s.payload > booted_at
        /\ CurrentBootExact
    BY <1>0, <2>1 DEF BootInv
  <2>4. \A s \in Range(queue') : s.sequence >= first_of_boot <=> s.payload > booted_at
    BY <1>0, <2>2, <2>3
  <2>5. first_of_boot' <= next_sequence'
    BY <1>0, <2>1, <2>3
  <2>6. CurrentBootExact'
    BY <2>1, <2>3 DEF CurrentBootExact
  <2>. QED
    BY <2>1, <2>4, <2>5, <2>6 DEF BootInv
<1>2. CASE RecoverSucceeds
  <2>1. /\ storage = "recovering" /\ storage' = "ready" /\ UNCHANGED <<queue, booted_at>>
        /\ first_of_boot' = next_sequence' /\ held' = held /\ reply' = reply
        /\ next_sequence' \in Nat
        /\ next_sequence' = next_sequence \/ queue = <<>>
    BY <1>0, <1>2 DEF RecoverSucceeds, clientVars, historyVars
  <2>2. Given = {} /\ \A r \in Range(queue) : r.payload <= booted_at
    BY <1>0, <2>1 DEF BootInv
  <2>3. Given' = {}
    BY <2>1, <2>2 DEF Given
  <2>4. \A r \in Range(queue') : ~(r.sequence >= first_of_boot') /\ ~(r.payload > booted_at')
    <3>1. CASE next_sequence' = next_sequence
      BY <1>0, <2>1, <2>2, <3>1
    <3>2. CASE queue = <<>>
      BY <2>1, <3>2, RangeOfFew
    <3>. QED
      BY <2>1, <3>1, <3>2
  <2>5. first_of_boot' <= next_sequence'
    BY <2>1
  <2>6. CurrentBootExact'
    BY <2>3 DEF CurrentBootExact
  <2>. QED
    BY <2>1, <2>4, <2>5, <2>6 DEF BootInv
<1>3. CASE RecoverFails
  <2>1. /\ storage = "recovering" /\ storage' = "unavailable" /\ UNCHANGED <<queue, booted_at>>
        /\ held' = held /\ reply' = reply
    BY <1>3 DEF RecoverFails, spoolVars, clientVars
  <2>2. Given' = Given
    BY <2>1 DEF Given
  <2>. QED
    BY <1>0, <2>1, <2>2 DEF BootInv, CurrentBootExact
<1>4. CASE RestartService
  <2>1. storage' = "recovering" /\ booted_at' = measured /\ queue' = queue
    BY <1>4 DEF RestartService, spoolVars
  <2>2. Given' = {}
    BY <1>4, NothingGiven
  <2>3. \A r \in Range(queue) : r.payload <= measured
    BY <1>0 DEF OrderInv, Range
  <2>. QED
    BY <2>1, <2>2, <2>3 DEF BootInv, CurrentBootExact
<1>5. CASE PeekHandled
  <2>1. /\ storage = "ready"
        /\ UNCHANGED <<queue, storage, first_of_boot, booted_at, next_sequence>>
    BY <1>5 DEF PeekHandled, Receive, spoolVars, taskVars, historyVars
  <2>2. Given' \subseteq Given \cup Range(Oldest)
    BY <1>0, GivenStep
  <2>3. CurrentBootExact'
    BY <1>0, <2>1, <2>2, OldestExact DEF CurrentBootExact, BootInv
  <2>. QED
    BY <1>0, <2>1, <2>3 DEF BootInv
<1>6. CASE ~AppendHandled /\ ~PeekHandled
           /\ UNCHANGED <<storage, first_of_boot, booted_at, next_sequence>>
  <2>1. Range(queue') \subseteq Range(queue) /\ Given' \subseteq Given
    BY <1>0, <1>6, QueueStep, GivenStep
  <2>. QED
    BY <1>0, <1>6, <2>1, BootShrinks
<1>7. \/ AppendHandled \/ RecoverSucceeds \/ RecoverFails \/ RestartService
      \/ UNCHANGED <<storage, first_of_boot, booted_at, next_sequence>>
  <2>1. Handle /\ ~AppendHandled => UNCHANGED <<storage, first_of_boot, booted_at, next_sequence>>
    BY <1>0, HandleEffect
  <2>2. UNCHANGED serviceVars \/ Measure \/ (\E c \in Clients : AnyClient(c) \/ Send(c) \/ Take(c))
        => UNCHANGED <<storage, first_of_boot, booted_at, next_sequence>>
    BY DEF serviceVars, spoolVars, taskVars, historyVars, Measure, AnyClient, Ask, Forget, Send, Take
  <2>. QED
    BY <2>1, <2>2 DEF NextService, StorageTask
<1>. QED
  BY <1>1, <1>2, <1>3, <1>4, <1>5, <1>6, <1>7

LEMMA InitNothing ==
    ASSUME InitService
    PROVE  Given = {} /\ Range(queue) = {} /\ Known = {} /\ Coming = {}
<1>1. /\ queue = <<>> /\ requests = <<>>
      /\ \A c \in Clients : held[c] = <<>> /\ reply[c] = <<>>
  BY DEF InitService, Spool!Init, Empty
<1>2. Range(queue) = {} /\ \A c \in Clients : Range(held[c]) = {} /\ Range(reply[c]) = {}
  BY <1>1, RangeOfFew
<1>3. Given = {}
  BY <1>2, GivenIs
<1>. QED
  BY <1>1, <1>2, <1>3 DEF Known, Coming

LEMMA NamingInit ==
    ASSUME InitService
    PROVE  NamingInv
<1>1. /\ queue = <<>> /\ next_sequence = 0 /\ measured = 0 /\ requests = <<>>
      /\ storage = "recovering" /\ \A c \in Clients : stage[c] = "idle"
  BY DEF InitService, Spool!Init, Idle
<1>2. Given = {} /\ Range(queue) = {} /\ Known = {} /\ Coming = {}
  BY InitNothing
<1>3. OrderInv
  BY <1>1, <1>2 DEF OrderInv, MeasurementOrder, Coming
<1>4. NamesInv /\ AcksHeld /\ BootInv
  BY <1>1, <1>2 DEF NamesInv, AcksHeld, BootInv, CurrentBootExact
<1>. QED
  BY <1>3, <1>4, ServiceInit DEF NamingInv

LEMMA NamingStep ==
    ASSUME NamingInv, NumbersLast, [NextService]_serviceVars
    PROVE  NamingInv'
<1>1. ServiceInv /\ OrderInv /\ AcksHeld
  BY DEF NamingInv
<1>2. ServiceInv'
  BY <1>1, ServiceStepInv
<1>3. OrderInv'
  BY <1>1, OrderStep
<1>4. NamesInv' /\ BootInv'
  BY NamesStep, BootStep
<1>5. AcksHeld'
  BY <1>1, AcksStep
<1>. QED
  BY <1>2, <1>3, <1>4, <1>5 DEF NamingInv

\* Measurements are kept in the order they were made, from the channel to the
\* front of the spool, across restarts, full spools and lost records
\* (enqueue_measurement, MeasurementStorageBacklog::append).
THEOREM MeasurementsInOrder ==
    ASSUME NumbersLast
    PROVE  SpecService => []MeasurementOrder
<1>1. InitService => NamingInv
  BY NamingInit
<1>2. NamingInv /\ [NextService]_serviceVars => NamingInv'
  BY NamingStep
<1>3. NamingInv => MeasurementOrder
  BY DEF NamingInv, OrderInv
<1>. QED
  BY <1>1, <1>2, <1>3, PTL DEF SpecService

\* A payload is marked as one of this boot exactly when it was measured since
\* the last restart, for as long as a client holds it
\* (sequence_is_from_current_boot).
THEOREM BootMarkExact ==
    ASSUME NumbersLast
    PROVE  SpecService => []CurrentBootExact
<1>1. InitService => NamingInv
  BY NamingInit
<1>2. NamingInv /\ [NextService]_serviceVars => NamingInv'
  BY NamingStep
<1>3. NamingInv => CurrentBootExact
  BY DEF NamingInv, BootInv
<1>. QED
  BY <1>1, <1>2, <1>3, PTL DEF SpecService

\* The record an acknowledgement names is the record its client holds.
LEMMA AckRemovesHeldStep ==
    ASSUME NamingInv, [NextService]_serviceVars,
           requests # <<>>, requests' = Tail(requests), Current.op = "ack", queue' # queue
    PROVE  /\ queue' = Tail(queue)
           /\ held[Current.from] # <<>>
           /\ held[Current.from][1].record = Head(queue)
<1>0. ServiceInv /\ ChannelInv /\ AcksHeld /\ NamesInv /\ queue \in Seq(Record)
  BY NamingTypes DEF NamingInv
<1>1. AckHandled \/ AckFailsPopped
  BY DEF NextService, StorageTask, Handle, serviceVars, spoolVars, Measure, RecoverSucceeds,
         RecoverFails, RestartService, AnyClient, Ask, Forget, Send, Take, AppendHandled,
         AppendFails, AppendRefused, PeekHandled, QuestionRefused, AckStale, AckFails, Receive
<1>2. /\ queue # <<>> /\ queue' = Tail(queue)
      /\ Head(queue).sequence = Current.about
  BY <1>1 DEF AckHandled, AckFailsPopped, Spool!AcknowledgeOldest, Named
<1>3. PICK c : c = Current.from
  OBVIOUS
<1>4. /\ c \in Clients /\ stage[c] = "waiting" /\ command[c] = Current
  BY <1>0, <1>3, FrontIsOnly
<1>5. held[c] # <<>> /\ Current.about = held[c][1].record.sequence
  BY <1>0, <1>4 DEF AcksHeld
<1>6. held[c] \in Seq(StoredPayload)
  BY <1>0, <1>4 DEF ChannelInv, TypeChannel
<1>7. held[c][1] \in Given
  <2>1. held[c][1] \in Range(held[c])
    BY <1>5, <1>6 DEF Range
  <2>. QED
    BY <1>4, <2>1, GivenIs
<1>8. held[c][1].record \in Known
  BY <1>7 DEF Known
<1>9. Head(queue) \in Known
  <2>1. 1 \in DOMAIN queue /\ Head(queue) = queue[1]
    BY <1>0, <1>2
  <2>. QED
    BY <2>1 DEF Known, Range
<1>10. held[c][1].record = Head(queue)
  BY <1>0, <1>2, <1>5, <1>8, <1>9 DEF NamesInv
<1>. QED
  BY <1>2, <1>3, <1>5, <1>10

\* An acknowledgement removes the record its client peeked, or none, whatever
\* the other clients acknowledged and a full spool dropped since
\* (acknowledge_sequence, docs on stale Wi-Fi and BLE acknowledgements).
THEOREM AcksRemoveHeld ==
    ASSUME NumbersLast
    PROVE  SpecService => AckRemovesHeld
<1>1. InitService => NamingInv
  BY NamingInit
<1>2. NamingInv /\ [NextService]_serviceVars => NamingInv'
  BY NamingStep
<1>3. NamingInv /\ [NextService]_serviceVars =>
        [requests # <<>> /\ requests' = Tail(requests) /\ Current.op = "ack" /\ queue' # queue =>
            /\ queue' = Tail(queue)
            /\ held[Current.from] # <<>>
            /\ held[Current.from][1].record = Head(queue)]_serviceVars
  BY AckRemovesHeldStep
<1>. QED
  BY <1>1, <1>2, <1>3, PTL DEF SpecService, AckRemovesHeld

-----------------------------------------------------------------------------
(* The published count.                                                    *)

\* The count of pending records that the storage task publishes with every
\* change is the length of the queue, but for a failed compaction
\* (refresh_pending_count, acknowledge_sequence).
THEOREM CountAlwaysExact == SpecService => []PendingCountExact
<1>1. InitService => PendingCountExact
  BY DEF InitService, PendingCountExact
<1>2. PendingCountExact /\ [NextService]_serviceVars => PendingCountExact'
  <2>. SUFFICES ASSUME PendingCountExact, [NextService]_serviceVars
                PROVE  PendingCountExact'
    OBVIOUS
  <2>1. CASE UNCHANGED <<queue, storage, pending_count, diverged>>
    BY <2>1 DEF PendingCountExact
  <2>2. CASE RecoverSucceeds
    BY <2>2 DEF RecoverSucceeds, PendingCountExact
  <2>3. CASE AppendHandled \/ AckHandled
    BY <2>3 DEF AppendHandled, AckHandled, PendingCountExact
  <2>4. CASE AckFailsPopped \/ RecoverFails \/ RestartService
    BY <2>4 DEF AckFailsPopped, RecoverFails, RestartService, PendingCountExact
  <2>6. CASE AppendFails \/ AckFails
    <3>1. UNCHANGED <<queue, storage, pending_count>>
      BY <2>6 DEF AppendFails, AckFails, spoolVars, taskVars
    <3>2. diverged' # "memory" => diverged # "memory"
      BY <2>6 DEF AppendFails, AckFails, FlashDisturbed
    <3>. QED
      BY <3>1, <3>2 DEF PendingCountExact
  <2>5. \/ UNCHANGED serviceVars \/ Measure \/ AppendRefused \/ PeekHandled
        \/ QuestionRefused \/ AckStale
        \/ \E c \in Clients : AnyClient(c) \/ Send(c) \/ Take(c)
        => UNCHANGED <<queue, storage, pending_count, diverged>>
    BY DEF serviceVars, spoolVars, taskVars, historyVars, Measure, AnyClient, Ask, Forget, Send,
           Take, AppendRefused, PeekHandled, QuestionRefused, AckStale
  <2>. QED
    BY <2>1, <2>2, <2>3, <2>4, <2>5, <2>6 DEF NextService, StorageTask, Handle
<1>. QED
  BY <1>1, <1>2, PTL DEF SpecService


-----------------------------------------------------------------------------
(* What leaves the spool has been delivered.                               *)

\* The records the server knows or is about to.
Sent == wire \cup kept

\* What was ever named is older than every measurement still in the channel.
OlderInv ==
    \A r \in Sent \cup Known :
        /\ r \in Record
        /\ r.payload <= measured
        /\ \A i \in Coming : r.payload < requests[i].about

\* Under a number the device knows, the server has an older record at most.
SentOlder == \A r \in Sent, s \in Known : r.sequence = s.sequence => r.payload <= s.payload

\* When the numbering is never forgotten, a number the server knows names one
\* record, the same as on the device.
SentUnique ==
    ~MayForget =>
        /\ \A r \in Sent : r.sequence < next_sequence
        /\ \A r \in Sent, s \in Sent \cup Known : r.sequence = s.sequence => r = s

SentInv == OlderInv /\ SentOlder /\ SentUnique

\* The uploader has heard, and acknowledges, of a record the server answered
\* for.
UploadTrue ==
    /\ upload = "answer" /\ answer = "stored" => AnsweredFor(Posted)
    /\ stage["wifi"] # "idle" /\ command["wifi"].op = "ack" => AnsweredFor(Posted)

\* The central was handed what the session counts as delivered, and the
\* session acknowledges only a complete record.
SessionInv ==
    /\ delivered \in 0 .. Fragments
    /\ handed = 0 .. delivered - 1
    /\ complete => delivered = Fragments
    /\ stage["ble"] # "idle" /\ command["ble"].op = "ack" => complete

LeaveInv == NamingInv /\ UploadHolds /\ SentInv /\ UploadTrue /\ SessionInv


\* Without a forgotten log, only an append takes a number.
LEMMA NumberStep ==
    ASSUME ~MayForget, [NextService]_serviceVars, ~AppendHandled
    PROVE  next_sequence' = next_sequence
BY DEF NextService, StorageTask, Handle, serviceVars, spoolVars, Measure, RecoverSucceeds,
       RecoverFails, RestartService, AnyClient, Ask, Forget, Send, Take, AppendFails,
       AppendRefused, PeekHandled, QuestionRefused, AckHandled, AckStale, AckFails,
       AckFailsPopped, Spool!AcknowledgeOldest

\* The record of a payload that is held may be named.
LEMMA HeldKnown ==
    ASSUME ServiceInv, NEW c \in Clients, held[c] # <<>>
    PROVE  held[c][1].record \in Known
<1>1. held[c] \in Seq(StoredPayload)
  BY NamingTypes DEF ChannelInv, TypeChannel
<1>2. held[c][1] \in Range(held[c])
  BY <1>1 DEF Range
<1>. QED
  BY <1>2, GivenIs DEF Known

\* The server only learns of records the device names, and forgets none.
LEMMA SentStep ==
    ASSUME DeliveryInv, [Next]_vars
    PROVE  Sent' \subseteq Sent \cup Known /\ kept \subseteq kept'
<1>1. CASE UNCHANGED <<wire, kept>>
  BY <1>1 DEF Sent
<1>2. CASE PostSent
  <2>1. Posted \in Known
    BY <1>2, HeldKnown, ClientTypes DEF PostSent, Posted, DeliveryInv, UploadHolds
  <2>. QED
    BY <1>2, <2>1 DEF PostSent, Sent
<1>3. ASSUME NEW r \in wire, ServerStores(r) \/ ServerRefuses(r) \/ RequestLost(r)
      PROVE  Sent' \subseteq Sent \cup Known /\ kept \subseteq kept'
  <2>1. wire' = wire \ {r} /\ kept' \in {kept, KeepFirst(r)}
    BY <1>3 DEF ServerStores, ServerRefuses, RequestLost
  <2>2. KeepFirst(r) \in {kept, kept \cup {r}}
    BY DEF KeepFirst
  <2>. QED
    BY <2>1, <2>2 DEF Sent
<1>4. CASE UNCHANGED vars
  BY <1>1, <1>4 DEF vars, uploadVars
<1>5. CASE ServiceStep(Measure) \/ ServiceStep(StorageTask) \/ \E c \in Clients : ServiceStep(Send(c))
  BY <1>1, <1>5 DEF ServiceStep, uploadVars
<1>6. CASE WifiConnects \/ WifiDisconnects \/ ConfigChanges \/ PostAbandoned
  BY <1>1, <1>6 DEF WifiConnects, WifiDisconnects, ConfigChanges, NetworkStep, PostAbandoned, UploadFailed
<1>7. CASE Uploader
  BY <1>1, <1>2, <1>7 DEF Uploader, LoopHead, Prepare, PeekAnswered, PostTimesOut, PostRefused,
     PostAccepted, AckAnswered, UploadFailed
<1>8. CASE Central \/ BleAnswered
  BY <1>1, <1>8 DEF Central, BleAnswered, BleConnects, BleDisconnects, RequestMetadata,
     RequestFragment, CompleteRecord, AckRecord, MetadataAnswered, AckRecordAnswered, uploadVars
<1>9. CASE Restart
  BY <1>1, <1>9 DEF Restart
<1>. QED
  BY <1>3, <1>4, <1>5, <1>6, <1>7, <1>8, <1>9 DEF Next

\* A measurement in the channel was there before, or is the newest.
LEMMA ComingStep ==
    ASSUME ServiceInv, OrderInv, [NextService]_serviceVars
    PROVE  /\ measured' \in {measured, measured + 1}
           /\ \A i \in Coming' : \/ \E j \in Coming : requests'[i] = requests[j]
                                 \/ measured' = measured + 1 /\ requests'[i].about = measured'
<1>0. ChannelInv
  BY NamingTypes
<1>1. CASE requests' = requests
  <2>1. \A i \in Coming' : i \in Coming /\ requests'[i] = requests[i]
    BY <1>1 DEF Coming
  <2>2. measured' \in {measured, measured + 1}
    BY DEF NextService, StorageTask, Handle, serviceVars, Measure, RecoverSucceeds, RecoverFails,
       RestartService, AnyClient, Ask, Forget, Send, Take, AppendHandled, AppendFails,
       AppendRefused, PeekHandled, QuestionRefused, AckHandled, AckStale, AckFails, AckFailsPopped
  <2>. QED
    BY <2>1, <2>2
<1>2. CASE Measure
  <2>1. PICK n : n = Len(requests)
    OBVIOUS
  <2>. QED
    BY <1>2, <2>1, ComingAfterMeasure DEF Measure
<1>3. ASSUME NEW c \in Clients, Send(c)
      PROVE  measured' = measured /\ \A i \in Coming' : \E j \in Coming : requests'[i] = requests[j]
  BY <1>0, <1>3, ComingAfterSend DEF Send
<1>4. CASE Handle
  <2>1. requests # <<>> /\ requests' = Tail(requests) /\ measured' = measured
    BY <1>4 DEF Handle, Receive, AppendHandled, AppendFails, AppendRefused, PeekHandled,
       QuestionRefused, AckHandled, AckStale, AckFails, AckFailsPopped
  <2>. QED
    BY <1>0, <2>1, ComingAfterTail
<1>5. CASE RestartService
  <2>1. requests' = <<>> /\ measured' = measured
    BY <1>5 DEF RestartService
  <2>2. Coming' = {}
    BY <2>1 DEF Coming
  <2>. QED
    BY <2>1, <2>2
<1>6. \/ UNCHANGED serviceVars \/ RecoverSucceeds \/ RecoverFails
      \/ \E c \in Clients : AnyClient(c) \/ Take(c)
      => requests' = requests
  BY DEF serviceVars, RecoverSucceeds, RecoverFails, AnyClient, Ask, Forget, Take
<1>. QED
  BY <1>1, <1>2, <1>3, <1>4, <1>5, <1>6 DEF NextService, StorageTask

\* The new record of an append is younger than what was ever named.
LEMMA AppendYounger ==
    ASSUME LeaveInv, NumbersLast, AppendHandled
    PROVE  \E n \in Record :
              /\ n.sequence = next_sequence /\ next_sequence' = next_sequence + 1
              /\ Known' \subseteq Known \cup {n}
              /\ n.payload <= measured
              /\ \A r \in Sent \cup Known : r.payload < n.payload
              /\ \A i \in Coming' : n.payload < requests'[i].about
<1>1. PICK n : n = [sequence |-> next_sequence, payload |-> Current.about]
  OBVIOUS
<1>2. ServiceInv /\ OrderInv
  BY DEF LeaveInv, NamingInv
<1>3. /\ 1 \in Coming /\ requests[1].about = n.payload /\ n.sequence = next_sequence
      /\ n \in Record /\ next_sequence' = next_sequence + 1
      /\ Len(queue) \in Nat /\ DOMAIN queue = 1 .. Len(queue)
  BY <1>1, <1>2, AppendEffect
<1>4. PICK k \in 0 .. Len(queue) :
         /\ queue' \in Seq(Record) /\ Len(queue') = Len(queue) - k + 1
         /\ \A i \in 1 .. Len(queue) - k : queue'[i] = queue[i + k]
         /\ queue'[Len(queue) - k + 1] = n
  BY <1>1, <1>2, AppendEffect DEF FrontLeft
<1>5. Range(queue') \subseteq Range(queue) \cup {n}
  <2>1. \A i \in DOMAIN queue' :
           \/ i + k \in DOMAIN queue /\ queue'[i] = queue[i + k]
           \/ queue'[i] = n
    BY <1>3, <1>4
  <2>. QED
    BY <2>1 DEF Range
<1>6. Known' \subseteq Known \cup {n}
  <2>1. Given' = Given
    BY DEF AppendHandled, clientVars, Given
  <2>. QED
    BY <1>5, <2>1 DEF Known
<1>7. n.payload <= measured /\ \A r \in Sent \cup Known : r.payload < n.payload
  BY <1>3 DEF OrderInv, LeaveInv, NamingInv, SentInv, OlderInv
<1>8. /\ Coming' \subseteq Nat \ {0}
      /\ \A i \in Coming' : i + 1 \in Coming /\ requests'[i] = requests[i + 1]
  BY <1>2, ComingAfterTail, NamingTypes DEF AppendHandled, Receive
<1>9. \A i, j \in Coming : i < j => requests[i].about < requests[j].about
  BY <1>2 DEF OrderInv, MeasurementOrder, Coming
<1>10. \A i \in Coming' : n.payload < requests'[i].about
  <2>. SUFFICES ASSUME NEW i \in Coming' PROVE n.payload < requests'[i].about
    OBVIOUS
  <2>1. i + 1 \in Coming /\ 1 < i + 1 /\ requests'[i] = requests[i + 1]
    BY <1>8
  <2>. QED
    BY <1>3, <1>9, <2>1
<1>. QED
  BY <1>3, <1>6, <1>7, <1>10

LEMMA OlderNext ==
    ASSUME LeaveInv, NumbersLast, [Next]_vars
    PROVE  OlderInv' /\ SentOlder'
<1>1. /\ ServiceInv /\ OrderInv /\ DeliveryInv /\ measured \in Nat
      /\ [NextService]_serviceVars /\ Sent' \subseteq Sent \cup Known
  BY NamingTypes, DeliveryStep, SentStep DEF LeaveInv, NamingInv, DeliveryInv
<1>2. \A r \in Sent \cup Known : r \in Record /\ r.payload \in Nat /\ r.payload <= measured
  BY <1>1, NamingTypes DEF LeaveInv, SentInv, OlderInv
<1>3. \A r \in Sent \cup Known, s \in Known : r.sequence = s.sequence => r.payload <= s.payload
  <2>1. \A r, s \in Known : r.sequence = s.sequence => r = s
    BY DEF LeaveInv, NamingInv, NamesInv
  <2>2. \A r \in Sent, s \in Known : r.sequence = s.sequence => r.payload <= s.payload
    BY DEF LeaveInv, SentInv, SentOlder
  <2>. QED
    BY <1>2, <2>1, <2>2
<1>4. /\ measured' \in {measured, measured + 1}
      /\ \A i \in Coming' : \/ \E j \in Coming : requests'[i] = requests[j]
                            \/ measured' = measured + 1 /\ requests'[i].about = measured'
  BY <1>1, ComingStep
<1>5. \A r \in Sent \cup Known : \A i \in Coming' : r.payload < requests'[i].about
  BY <1>1, <1>2, <1>4 DEF LeaveInv, SentInv, OlderInv
<1>6. CASE AppendHandled
  <2>1. PICK n \in Record :
           /\ Known' \subseteq Known \cup {n}
           /\ n.payload <= measured
           /\ \A r \in Sent \cup Known : r.payload < n.payload
           /\ \A i \in Coming' : n.payload < requests'[i].about
    BY <1>6, AppendYounger
  <2>2. n.payload \in Nat
    BY <1>1, NamingTypes
  <2>3. OlderInv'
    BY <1>1, <1>2, <1>4, <1>5, <2>1, <2>2 DEF OlderInv
  <2>4. SentOlder'
    BY <1>1, <1>2, <1>3, <2>1, <2>2 DEF SentOlder
  <2>. QED
    BY <2>3, <2>4
<1>7. CASE ~AppendHandled
  <2>1. Known' \subseteq Known
    BY <1>1, <1>7, KnownStep
  <2>2. OlderInv'
    BY <1>1, <1>2, <1>4, <1>5, <2>1 DEF OlderInv
  <2>3. SentOlder'
    BY <1>1, <1>3, <2>1 DEF SentOlder
  <2>. QED
    BY <2>2, <2>3
<1>. QED
  BY <1>6, <1>7

LEMMA UniqueNext ==
    ASSUME LeaveInv, NumbersLast, ~MayForget, [Next]_vars
    PROVE  SentUnique'
<1>1. /\ ServiceInv /\ OrderInv /\ DeliveryInv /\ next_sequence \in Nat
      /\ [NextService]_serviceVars /\ Sent' \subseteq Sent \cup Known
  BY NamingTypes, DeliveryStep, SentStep DEF LeaveInv, NamingInv, DeliveryInv
<1>2. /\ \A r \in Sent \cup Known : r.sequence \in Nat /\ r.sequence < next_sequence
      /\ \A r, s \in Sent \cup Known : r.sequence = s.sequence => r = s
  <2>1. \A r \in Sent \cup Known : r.sequence \in Nat
    BY <1>1, NamingTypes DEF LeaveInv, SentInv, OlderInv
  <2>. QED
    BY <2>1 DEF LeaveInv, NamingInv, NamesInv, SentInv, SentUnique
<1>3. CASE AppendHandled
  <2>1. next_sequence' = next_sequence + 1
    BY <1>1, <1>3, KnownAppend
  <2>2. PICK n \in Record : n.sequence = next_sequence /\ Known' \subseteq Known \cup {n}
    BY <1>1, <1>3, KnownAppend
  <2>3. \A r \in Sent' : r.sequence < next_sequence'
    BY <1>1, <1>2, <2>1
  <2>4. \A r \in Sent', s \in Sent' \cup Known' : r.sequence = s.sequence => r = s
    BY <1>1, <1>2, <2>2
  <2>. QED
    BY <2>3, <2>4 DEF SentUnique
<1>4. CASE ~AppendHandled
  <2>1. next_sequence' = next_sequence /\ Known' \subseteq Known
    BY <1>1, <1>4, NumberStep, KnownStep
  <2>. QED
    BY <1>1, <1>2, <2>1 DEF SentUnique
<1>. QED
  BY <1>3, <1>4

-----------------------------------------------------------------------------
LEMMA UploadKept ==
    ASSUME UploadTrue, kept \subseteq kept', held'["wifi"] = held["wifi"],
           upload' = "answer" /\ answer' = "stored" => upload = "answer" /\ answer = "stored",
           stage'["wifi"] # "idle" /\ command'["wifi"].op = "ack"
             => stage["wifi"] # "idle" /\ command["wifi"].op = "ack"
    PROVE  UploadTrue'
BY DEF UploadTrue, Posted, AnsweredFor

\* A client does nothing to another one.
LEMMA OtherClient ==
    ASSUME ServiceInv, NEW c \in Clients, NEW d \in Clients, c # d,
           \/ \E request : Ask(c, request)
           \/ Send(c) \/ Take(c) \/ Forget(c)
    PROVE  stage'[d] = stage[d] /\ command'[d] = command[d] /\ held'[d] = held[d]
BY NamingTypes DEF ChannelInv, TypeChannel, Ask, Send, Take, Forget

LEMMA ServerStep ==
    ASSUME LeaveInv, NEW r \in wire, ServerStores(r) \/ ServerRefuses(r) \/ RequestLost(r)
    PROVE  UploadTrue'
<1>1. UNCHANGED <<serviceVars, upload>> /\ kept \subseteq kept'
  BY DEF ServerStores, ServerRefuses, RequestLost, KeepFirst
<1>2. stage' = stage /\ command' = command /\ held' = held
  BY <1>1 DEF serviceVars, clientVars
<1>3. UploadTrue
  BY DEF LeaveInv
<1>4. CASE ServerStores(r) /\ upload = "answer" /\ Posted = r
  <2>1. kept' = KeepFirst(r) /\ r \in Sent
    BY <1>4 DEF ServerStores, Sent
  <2>2. r \in Known /\ r.payload \in Nat
    <3>1. Posted \in Known
      BY <1>4, HeldKnown, ClientTypes DEF Posted, LeaveInv, NamingInv, UploadHolds
    <3>. QED
      BY <1>4, <3>1, KnownTyped DEF LeaveInv, NamingInv
  <2>3. \A k \in kept : k.sequence = r.sequence => k.payload <= r.payload /\ (~MayForget => k = r)
    BY <2>1, <2>2 DEF LeaveInv, SentInv, SentOlder, SentUnique, Sent
  <2>4. AnsweredFor(r)'
    <3>1. \E k \in kept' : k.sequence = r.sequence /\ k.payload <= r.payload /\ (~MayForget => k = r)
      BY <2>1, <2>2, <2>3 DEF KeepFirst
    <3>. QED
      BY <3>1 DEF AnsweredFor
  <2>. QED
    BY <1>1, <1>2, <1>4, <2>4 DEF UploadTrue, Posted, AnsweredFor
<1>5. CASE ~(ServerStores(r) /\ upload = "answer" /\ Posted = r)
  <2>1. answer' = "stored" => answer = "stored"
    BY <1>5 DEF ServerStores, ServerRefuses, RequestLost, Heard
  <2>. QED
    BY <1>1, <1>2, <1>3, <2>1, UploadKept
<1>. QED
  BY <1>4, <1>5

LEMMA UploadNext ==
    ASSUME LeaveInv, [Next]_vars
    PROVE  UploadTrue'
<1>1. /\ ServiceInv /\ DeliveryInv /\ UploadTrue /\ kept \subseteq kept'
      /\ "wifi" \in Clients /\ "ble" \in Clients /\ "wifi" # "ble"
      /\ stage \in [Clients -> {"idle", "sending", "waiting"}]
      /\ command \in [Clients -> Command]
  BY SentStep, NamingTypes, ClientTypes
     DEF LeaveInv, NamingInv, DeliveryInv, ChannelInv, TypeChannel
<1>2. CASE /\ UNCHANGED serviceVars
           /\ upload' = "answer" /\ answer' = "stored" => upload = "answer" /\ answer = "stored"
  BY <1>1, <1>2, UploadKept DEF serviceVars, clientVars
<1>3. CASE ServiceStep(Measure) \/ ServiceStep(StorageTask)
  <2>1. stage' = stage /\ command' = command /\ held' = held
    BY <1>3 DEF ServiceStep, clientVars, Measure, StorageTask, RecoverSucceeds, RecoverFails,
       Handle, AppendHandled, AppendFails, AppendRefused, PeekHandled, QuestionRefused,
       AckHandled, AckStale, AckFails, AckFailsPopped, Answer
  <2>2. UNCHANGED <<upload, answer>>
    BY <1>3 DEF ServiceStep, uploadVars
  <2>. QED
    BY <1>1, <2>1, <2>2, UploadKept
<1>4. ASSUME NEW c \in Clients, ServiceStep(Send(c)) PROVE UploadTrue'
  <2>1. command' = command /\ held' = held /\ stage'["wifi"] # "idle" => stage["wifi"] # "idle"
    BY <1>1, <1>4 DEF ServiceStep, Send
  <2>2. UNCHANGED <<upload, answer>> /\ held' = held /\ command' = command
    BY <1>4 DEF ServiceStep, uploadVars, Send
  <2>. QED
    BY <1>1, <2>1, <2>2, UploadKept
<1>5. CASE WifiConnects \/ WifiDisconnects \/ ConfigChanges \/ PostAbandoned
  BY <1>2, <1>5 DEF WifiConnects, WifiDisconnects, ConfigChanges, NetworkStep, PostAbandoned, UploadFailed
<1>6. CASE LoopHead \/ PostSent \/ PostTimesOut \/ PostRefused
  BY <1>2, <1>6 DEF LoopHead, PostSent, PostTimesOut, PostRefused, UploadFailed
<1>7. CASE Prepare
  <2>1. upload' = "peek" /\ command'["wifi"].op = "peek"
    BY <1>1, <1>7 DEF Prepare, Ask, PeekBy
  <2>. QED
    BY <2>1 DEF UploadTrue
<1>8. CASE PeekAnswered \/ AckAnswered
  <2>1. upload' # "answer" /\ stage'["wifi"] = "idle"
    BY <1>1, <1>8 DEF PeekAnswered, AckAnswered, Take
  <2>. QED
    BY <2>1 DEF UploadTrue
<1>9. CASE PostAccepted
  <2>1. upload' # "answer" /\ held' = held /\ AnsweredFor(Posted)
    BY <1>1, <1>9 DEF PostAccepted, Ask, UploadTrue
  <2>. QED
    BY <1>1, <2>1 DEF UploadTrue, Posted, AnsweredFor
<1>10. CASE BleConnects \/ CompleteRecord
            \/ \E offset \in 0 .. Fragments, length \in 1 .. Fragments : RequestFragment(offset, length)
  BY <1>2, <1>10 DEF BleConnects, CompleteRecord, RequestFragment, uploadVars
<1>11. CASE BleDisconnects \/ RequestMetadata \/ AckRecord \/ BleAnswered
  <2>1. UNCHANGED <<upload, answer>>
    BY <1>11 DEF BleDisconnects, RequestMetadata, AckRecord, BleAnswered, MetadataAnswered,
       AckRecordAnswered, uploadVars
  <2>2. (\E request : Ask("ble", request)) \/ Send("ble") \/ Take("ble") \/ Forget("ble")
    BY <1>11 DEF BleDisconnects, RequestMetadata, AckRecord, BleAnswered, MetadataAnswered,
       AckRecordAnswered, Free, Forget
  <2>3. stage'["wifi"] = stage["wifi"] /\ command'["wifi"] = command["wifi"]
        /\ held'["wifi"] = held["wifi"]
    BY <1>1, <2>2, OtherClient
  <2>. QED
    BY <1>1, <2>1, <2>3, UploadKept
<1>12. CASE Restart
  <2>1. upload' # "answer" /\ stage'["wifi"] = "idle"
    BY <1>1, <1>12 DEF Restart, RestartService, Idle
  <2>. QED
    BY <2>1 DEF UploadTrue
<1>13. CASE UNCHANGED vars
  BY <1>2, <1>13 DEF vars, uploadVars
<1>. QED
  BY <1>3, <1>4, <1>5, <1>6, <1>7, <1>8, <1>9, <1>10, <1>11, <1>12, <1>13, ServerStep
     DEF Next, Uploader, Central

-----------------------------------------------------------------------------
LEMMA SessionKept ==
    ASSUME SessionInv, UNCHANGED <<delivered, handed, complete>>,
           stage'["ble"] # "idle" /\ command'["ble"].op = "ack"
             => stage["ble"] # "idle" /\ command["ble"].op = "ack"
    PROVE  SessionInv'
BY DEF SessionInv

LEMMA SessionFresh ==
    ASSUME FreshSession, stage'["ble"] = "idle"
    PROVE  SessionInv'
<1>1. 0 \in 0 .. Fragments /\ 0 .. 0 - 1 = {}
  BY DeliveryAssumption
<1>. QED
  BY <1>1 DEF FreshSession, SessionInv

LEMMA FragmentStep ==
    ASSUME SessionInv, NEW offset \in 0 .. Fragments, NEW length \in 1 .. Fragments,
           RequestFragment(offset, length)
    PROVE  SessionInv'
<1>1. PICK end \in 0 .. Fragments :
         /\ offset <= end
         /\ delivered' = IF end > delivered THEN end ELSE delivered
         /\ handed' = handed \cup offset .. end - 1
  <2>1. PICK end : end = IF offset + length < Fragments THEN offset + length ELSE Fragments
    OBVIOUS
  <2>2. end \in 0 .. Fragments /\ offset <= end
    BY <2>1, DeliveryAssumption
  <2>. QED
    BY <2>1, <2>2 DEF RequestFragment
<1>2. offset <= delivered /\ stage["ble"] = "idle" /\ complete' = complete /\ stage' = stage
  BY DEF RequestFragment, Session, Free, InOrder, serviceVars, clientVars
<1>3. delivered \in 0 .. Fragments /\ handed = 0 .. delivered - 1
      /\ (complete => delivered = Fragments) /\ Fragments \in Nat
  BY DeliveryAssumption DEF SessionInv
<1>4. delivered' \in 0 .. Fragments /\ (complete' => delivered' = Fragments)
  BY <1>1, <1>2, <1>3
<1>5. handed' = 0 .. delivered' - 1
  BY <1>1, <1>2, <1>3
<1>. QED
  BY <1>2, <1>4, <1>5 DEF SessionInv

LEMMA SessionNext ==
    ASSUME LeaveInv, [Next]_vars
    PROVE  SessionInv'
<1>1. /\ ServiceInv /\ SessionInv
      /\ "wifi" \in Clients /\ "ble" \in Clients /\ "wifi" # "ble"
      /\ stage \in [Clients -> {"idle", "sending", "waiting"}]
      /\ command \in [Clients -> Command]
  BY NamingTypes, ClientTypes DEF LeaveInv, NamingInv, ChannelInv, TypeChannel
<1>2. CASE /\ UNCHANGED <<delivered, handed, complete>>
           /\ stage'["ble"] = stage["ble"] /\ command'["ble"] = command["ble"]
  BY <1>1, <1>2, SessionKept
<1>3. CASE ServiceStep(Measure) \/ ServiceStep(StorageTask)
  <2>1. stage' = stage /\ command' = command /\ held' = held
    BY <1>3 DEF ServiceStep, clientVars, Measure, StorageTask, RecoverSucceeds, RecoverFails,
       Handle, AppendHandled, AppendFails, AppendRefused, PeekHandled, QuestionRefused,
       AckHandled, AckStale, AckFails, AckFailsPopped, Answer
  <2>. QED
    BY <1>2, <1>3, <2>1 DEF ServiceStep, sessionVars
<1>4. ASSUME NEW c \in Clients, ServiceStep(Send(c)) PROVE SessionInv'
  <2>1. command' = command /\ (stage'["ble"] # "idle" => stage["ble"] # "idle")
    BY <1>1, <1>4 DEF ServiceStep, Send
  <2>. QED
    BY <1>1, <1>4, <2>1, SessionKept DEF ServiceStep, sessionVars
<1>5. CASE \/ WifiConnects \/ WifiDisconnects \/ ConfigChanges \/ PostAbandoned
           \/ \E r \in wire : ServerStores(r) \/ ServerRefuses(r) \/ RequestLost(r)
           \/ LoopHead \/ PostSent \/ PostTimesOut \/ PostRefused \/ UNCHANGED vars
           \/ BleConnects
  <2>1. UNCHANGED <<serviceVars, delivered, handed, complete>>
    BY <1>5 DEF WifiConnects, WifiDisconnects, ConfigChanges, NetworkStep, PostAbandoned,
       UploadFailed, ServerStores, ServerRefuses, RequestLost, LoopHead, PostSent, PostTimesOut,
       PostRefused, vars, sessionVars, BleConnects
  <2>. QED
    BY <1>2, <2>1 DEF serviceVars, clientVars
<1>6. CASE Prepare \/ PeekAnswered \/ PostAccepted \/ AckAnswered
  <2>1. UNCHANGED <<delivered, handed, complete>>
    BY <1>6 DEF Prepare, PeekAnswered, PostAccepted, AckAnswered, sessionVars
  <2>2. (\E request : Ask("wifi", request)) \/ Take("wifi")
    BY <1>6 DEF Prepare, PeekAnswered, PostAccepted, AckAnswered
  <2>3. stage'["ble"] = stage["ble"] /\ command'["ble"] = command["ble"]
    BY <1>1, <2>2, OtherClient
  <2>. QED
    BY <1>2, <2>1, <2>3
<1>7. CASE BleDisconnects
  BY <1>7, SessionFresh DEF BleDisconnects, Free
<1>8. CASE RequestMetadata
  <2>1. command'["ble"].op = "peek" /\ UNCHANGED <<delivered, handed, complete>>
    BY <1>1, <1>8 DEF RequestMetadata, Ask, PeekBy, sessionVars
  <2>. QED
    BY <1>1, <2>1, SessionKept
<1>9. CASE MetadataAnswered
  <2>1. stage'["ble"] = "idle" /\ FreshSession
    BY <1>1, <1>9 DEF MetadataAnswered, Take
  <2>. QED
    BY <2>1, SessionFresh
<1>10. CASE \E offset \in 0 .. Fragments, length \in 1 .. Fragments : RequestFragment(offset, length)
  BY <1>1, <1>10, FragmentStep
<1>11. CASE CompleteRecord
  <2>1. delivered = Fragments /\ complete' = TRUE /\ UNCHANGED <<delivered, handed>>
    BY <1>11 DEF CompleteRecord
  <2>. QED
    BY <1>1, <2>1 DEF SessionInv
<1>12. CASE AckRecord
  <2>1. complete /\ UNCHANGED <<delivered, handed, complete>>
    BY <1>12 DEF AckRecord
  <2>. QED
    BY <1>1, <2>1 DEF SessionInv
<1>13. CASE AckRecordAnswered
  <2>1. stage'["ble"] = "idle" /\ UNCHANGED <<delivered, handed, complete>>
    BY <1>1, <1>13 DEF AckRecordAnswered, Take, sessionVars
  <2>. QED
    BY <1>1, <2>1, SessionKept
<1>14. CASE Restart
  <2>1. stage'["ble"] = "idle" /\ FreshSession
    BY <1>1, <1>14 DEF Restart, RestartService, Idle
  <2>. QED
    BY <2>1, SessionFresh
<1>. QED
  BY <1>3, <1>4, <1>5, <1>6, <1>7, <1>8, <1>9, <1>10, <1>11, <1>12, <1>13, <1>14
     DEF Next, Uploader, Central, BleAnswered

-----------------------------------------------------------------------------
LEMMA LeaveInit ==
    ASSUME Init
    PROVE  LeaveInv
<1>1. NamingInv /\ UploadHolds
  BY NamingInit, DeliveryInit DEF Init, DeliveryInv
<1>2. "wifi" \in Clients /\ "ble" \in Clients
  BY DeliveryAssumption
<1>3. stage["wifi"] = "idle" /\ stage["ble"] = "idle"
  BY <1>2 DEF Init, InitService, Idle
<1>4. SentInv /\ UploadTrue
  <2>1. Sent = {} /\ Known = {}
    BY InitNothing DEF Init, Sent
  <2>. QED
    BY <1>3, <2>1 DEF Init, SentInv, OlderInv, SentOlder, SentUnique, UploadTrue
<1>5. SessionInv
  <2>1. 0 \in 0 .. Fragments /\ 0 .. 0 - 1 = {}
    BY DeliveryAssumption
  <2>. QED
    BY <1>3, <2>1 DEF Init, SessionInv
<1>. QED
  BY <1>1, <1>4, <1>5 DEF LeaveInv

LEMMA SentNext ==
    ASSUME LeaveInv, NumbersLast, [Next]_vars
    PROVE  SentInv'
<1>1. SentUnique'
  <2>1. CASE MayForget
    BY <2>1 DEF SentUnique
  <2>2. CASE ~MayForget
    BY <2>2, UniqueNext
  <2>. QED
    BY <2>1, <2>2
<1>. QED
  BY <1>1, OlderNext DEF SentInv

LEMMA LeaveNext ==
    ASSUME LeaveInv, NumbersLast, [Next]_vars
    PROVE  LeaveInv'
<1>1. DeliveryInv /\ NamingInv
  BY DEF LeaveInv, NamingInv, DeliveryInv
<1>2. [NextService]_serviceVars /\ UploadHolds'
  BY <1>1, DeliveryStep DEF DeliveryInv
<1>3. NamingInv'
  BY <1>1, <1>2, NamingStep
<1>. QED
  BY <1>2, <1>3, SentNext, UploadNext, SessionNext DEF LeaveInv

LEMMA RemovedStep ==
    ASSUME LeaveInv, [NextService]_serviceVars,
           requests # <<>>, requests' = Tail(requests), Current.op = "ack", queue' # queue
    PROVE  \/ AnsweredFor(Head(queue))
           \/ Current.from = "ble" /\ handed = 0 .. Fragments - 1
<1>1. held[Current.from][1].record = Head(queue)
  BY AckRemovesHeldStep DEF LeaveInv
<1>2. Current.from \in Clients /\ stage[Current.from] = "waiting" /\ Current = command[Current.from]
  BY NamingTypes, FrontIsOnly DEF LeaveInv, NamingInv
<1>3. CASE Current.from = "wifi"
  <2>1. AnsweredFor(Posted)
    BY <1>2, <1>3 DEF LeaveInv, UploadTrue
  <2>. QED
    BY <1>1, <1>3, <2>1 DEF Posted
<1>4. CASE Current.from = "ble"
  <2>1. complete
    BY <1>2, <1>4 DEF LeaveInv, SessionInv
  <2>. QED
    BY <1>4, <2>1 DEF LeaveInv, SessionInv
<1>. QED
  BY <1>2, <1>3, <1>4, DeliveryAssumption

\* A record leaves the spool by an acknowledgement only when the server has
\* answered for it or the central was handed every byte of it
\* (docs/10-firmware/00-architecture.md), through lost, late and refused
\* posts, restarts, stale acknowledgements and records dropped meanwhile.  The
\* server keeps that very measurement, or an earlier one that it knew under
\* the same number if a restart forgot the numbering (see
\* spool_sequence_reuse).
THEOREM OnlyDeliveredLeave ==
    ASSUME NumbersLast
    PROVE  Spec => RemovedOnlyDelivered
<1>1. Init => LeaveInv
  BY LeaveInit
<1>2. LeaveInv /\ [Next]_vars => LeaveInv'
  BY LeaveNext
<1>3. LeaveInv /\ [Next]_vars =>
        [requests # <<>> /\ requests' = Tail(requests) /\ Current.op = "ack" /\ queue' # queue =>
            \/ AnsweredFor(Head(queue))
            \/ Current.from = "ble" /\ handed = 0 .. Fragments - 1]_vars
  BY DeliveryStep, RemovedStep DEF LeaveInv, NamingInv, DeliveryInv
<1>. QED
  BY <1>1, <1>2, <1>3, PTL DEF Spec, RemovedOnlyDelivered
================================================================================
