----------------------------- MODULE Endpoints -----------------------------
(***************************************************************************)
(* The inference endpoints around the router: what api/chat.rs,            *)
(* responses.rs, decisions.rs, audio.rs and images.rs check before they    *)
(* route a request, and the three books they write after it: the ledger    *)
(* (payments/biller.rs), the usage of the API key (usage.rs, db/usage.rs)  *)
(* and the request log, of which a row is its status and cost.             *)
(*                                                                         *)
(* Calls are of one user.  What the rules, the balance and the router      *)
(* answer is any of their answers (Access, Billing and Failover say        *)
(* which); tokens are one amount, without the discount of cached ones.     *)
(***************************************************************************)
EXTENDS Integers, FiniteSetsExt, SequencesExt

CONSTANTS
  Calls,
  KeyOf,         \* KeyOf[c]: the API key that c was authenticated by, or NoKey
  NoKey,
  ModelOf,       \* ModelOf[c]: the model it asks for
  Kinds,         \* the handlers that serve it, of AllKinds
  Declarations,  \* what a routing config may declare: [input, output] sets
  Ledgers,       \* ledgers the user may start with
  Fee, Rate,     \* price of a request and of a token
  MaxTokens,     \* bound on the tokens an answer reports
  MaxHours,      \* bound on the hours that pass
  MaxCallFaults  \* bound on clients that leave and calls that fail

Chats == {"chat", "chat_stream"}
Unary == {"responses", "decisions", "transcriptions"}
Tapped == {"speech", "generations", "uploads"}
AllKinds == Chats \cup Unary \cup Tapped

ASSUME EndpointsAssumption ==
  /\ IsFiniteSet(Calls)
  /\ Kinds \subseteq AllKinds
  /\ Ledgers \subseteq Seq([type : STRING, amount : Int, ref : STRING \ Calls])
  /\ Fee \in Nat /\ Rate \in Nat
  /\ MaxTokens \in Nat /\ MaxHours \in Nat /\ MaxCallFaults \in Nat

VARIABLES
  call,       \* call[c]: its handler's locals
  ledger,     \* balance_transactions, in the order of their ids
  usage,      \* api_key_usage: usage[<<key, hour, model>>]
  recording,  \* tasks that will record the usage of a call
  recorded,   \* calls whose usage was recorded (history)
  logrow,     \* logrow[c]: its row of request_log
  hour,
  callfaults

endpoints == <<call, ledger, usage, recording, recorded, logrow, hour, callfaults>>

NoRow == [status |-> "none", cost |-> 0]
Nothing == [input |-> {}, output |-> {}]
Blank == [requests |-> 0, cost |-> 0]
Columns == {KeyOf[c] : c \in Calls} \X (0..MaxHours) \X {ModelOf[c] : c \in Calls}

EndpointsInit ==
  /\ call = [c \in Calls |->
       [pc |-> "idle", kind |-> "chat", wants |-> Nothing, asks |-> FALSE,
        logged |-> FALSE, paid |-> FALSE, told |-> TRUE, mine |-> 0, seen |-> 0,
        failed |-> FALSE, detached |-> FALSE, billed |-> 0]]
  /\ ledger \in Ledgers
  /\ usage = [col \in Columns |-> Blank]
  /\ recording = {} /\ recorded = {}
  /\ logrow = [c \in Calls |-> NoRow]
  /\ hour = 0
  /\ callfaults = 0

CallFault == callfaults < MaxCallFaults /\ callfaults' = callfaults + 1

Books == <<ledger, usage, recording, recorded, hour>>
Pc(c) == call[c].pc

---------------------------------------------------------------------------
(* The checks, in the order of the handler.  Chat looks at the modalities  *)
(* before it has a log, responses never does.                              *)

Stages(kind) ==
  IF kind \in Chats THEN <<"modalities", "log", "access", "admit", "route">>
  ELSE IF kind = "responses" THEN <<"log", "access", "admit", "route">>
  ELSE <<"log", "access", "modalities", "admit", "route">>

After(kind, stage) ==
  LET s == Stages(kind) IN s[1 + CHOOSE n \in DOMAIN s : s[n] = stage]

(* What the request needs of its model beyond text.                        *)
Wants(kind) ==
  CASE kind \in Chats -> [input : SUBSET {"image"}, output : SUBSET {"audio"}]
    [] kind = "decisions" -> [input : SUBSET {"image"}, output : {{}}]
    [] kind = "transcriptions" -> {[input |-> {"audio"}, output |-> {}]}
    [] kind = "speech" -> {[input |-> {}, output |-> {"audio"}]}
    [] kind = "generations" -> {[input |-> {}, output |-> {"image"}]}
    [] kind = "uploads" -> {[input |-> {"image"}, output |-> {"image"}]}
    [] OTHER -> {Nothing}

Parse(c, kind, wants, asks) ==
  /\ Pc(c) = "idle"
  /\ asks => kind = "chat_stream"
  /\ call' = [call EXCEPT ![c].pc = Head(Stages(kind)), ![c].kind = kind,
                          ![c].wants = wants, ![c].asks = asks]
  /\ UNCHANGED <<Books, logrow, callfaults>>

(* No JSON, no form, a field that is missing or empty.                     *)
ParseFails(c, kind) ==
  /\ Pc(c) = "idle"
  /\ call' = [call EXCEPT ![c].pc = "refused", ![c].kind = kind]
  /\ UNCHANGED <<Books, logrow, callfaults>>

BeginLog(c, enabled) ==
  /\ Pc(c) = "log"
  /\ call' = [call EXCEPT ![c].pc = After(call[c].kind, "log"), ![c].logged = enabled]
  /\ UNCHANGED <<Books, logrow, callfaults>>

Passes(c, stage) ==
  /\ Pc(c) = stage
  /\ call' = [call EXCEPT ![c].pc = After(call[c].kind, stage), ![c].wants = Nothing]
  /\ UNCHANGED <<Books, logrow, callfaults>>

Logs(c, status, cost) ==
  logrow' = [logrow EXCEPT
    ![c] = IF call[c].logged THEN [status |-> status, cost |-> cost] ELSE NoRow]

Refuses(c, status) ==
  /\ call' = [call EXCEPT ![c].pc = "refused", ![c].wants = Nothing]
  /\ Logs(c, status, 0)
  /\ UNCHANGED Books

(* A config that declares nothing, and no config, accept everything.       *)
Lacks(declared, wanted) == declared # {} /\ ~(wanted \subseteq declared)
Rejection(declared, wants) ==
  Lacks(declared.input, wants.input) \/ Lacks(declared.output, wants.output)

RequireModalities(c, declared) ==
  IF Rejection(declared, call[c].wants)
  THEN /\ Pc(c) = "modalities"
       /\ Refuses(c, "error")
       /\ UNCHANGED callfaults
  ELSE Passes(c, "modalities")

CheckAccess(c) ==
  \/ Passes(c, "access")
  \/ Pc(c) = "access" /\ Refuses(c, "rejected") /\ UNCHANGED callfaults

(* Metered::reject goes by the response's code, chat says "rejected".      *)
AccessFails(c) ==
  /\ Pc(c) = "access"
  /\ CallFault
  /\ Refuses(c, IF call[c].kind \in Chats THEN "rejected" ELSE "error")

(* An exempt user and a free model get a guard that charges nothing.       *)
Admits(c, paid) ==
  /\ Pc(c) = "admit"
  /\ call' = [call EXCEPT ![c].pc = "route", ![c].paid = paid]
  /\ UNCHANGED <<Books, logrow, callfaults>>

InsufficientFunds(c) ==
  /\ Pc(c) = "admit"
  /\ Refuses(c, "rejected")
  /\ UNCHANGED callfaults

AdmitFails(c) ==
  /\ Pc(c) = "admit"
  /\ CallFault
  /\ Refuses(c, "error")

---------------------------------------------------------------------------
(* The router answers.                                                     *)

RouterFails(c) ==
  /\ Pc(c) = "route"
  /\ Refuses(c, "error")
  /\ UNCHANGED callfaults

(* An answer tells its usage or does not.                                  *)
RouterAnswers(c, told, t) ==
  /\ Pc(c) = "route" /\ call[c].kind \in {"chat"} \cup Unary
  /\ ~told => t = 0
  /\ call' = [call EXCEPT ![c].pc = "settle", ![c].told = told,
                          ![c].mine = t, ![c].seen = t]
  /\ UNCHANGED <<Books, logrow, callfaults>>

RouterStreams(c) ==
  /\ Pc(c) = "route" /\ call[c].kind \in {"chat_stream"} \cup Tapped
  /\ call' = [call EXCEPT ![c].pc = "streaming"]
  /\ UNCHANGED <<Books, logrow, callfaults>>

Streams(c, locals) ==
  /\ Pc(c) = "streaming"
  /\ call' = [call EXCEPT ![c] = locals]
  /\ UNCHANGED <<Books, logrow, callfaults>>

(* A chunk that carries usage: the last one counts.                        *)
UsageChunk(c, t) == Streams(c, [call[c] EXCEPT !.mine = t, !.seen = t])

(* Usage in a chunk of its own, which chat_completions_stream keeps from   *)
(* a client that did not ask for it, and so from the handler as well.      *)
Trailer(c, t) ==
  /\ call[c].kind = "chat_stream"
  /\ Streams(c, [call[c] EXCEPT !.mine = t, !.seen = IF call[c].asks THEN t ELSE @])

(* The router goes on to the next provider; the handler keeps its count.   *)
NextAttempt(c) ==
  /\ call[c].kind = "chat_stream" /\ call[c].mine > 0
  /\ Streams(c, [call[c] EXCEPT !.mine = 0])

StreamItemFails(c) == Streams(c, [call[c] EXCEPT !.failed = TRUE])

StreamEnds(c) == Streams(c, [call[c] EXCEPT !.pc = "settle"])

---------------------------------------------------------------------------
(* Settlement.  The charge is awaited; the task that records the usage is  *)
(* spawned and the log completed without another await.                    *)

Price(t) == Fee + Rate * t

(* chat bills an answer that tells its usage, and no other; the key's      *)
(* usage counts that, a stream with tokens, and whatever Metered settles.  *)
Chargeable(c) == call[c].kind = "chat" => call[c].told
Records(c) ==
  /\ KeyOf[c] # NoKey
  /\ CASE call[c].kind = "chat" -> call[c].told
       [] call[c].kind = "chat_stream" -> call[c].seen > 0
       [] OTHER -> TRUE

Due(c) == IF call[c].paid /\ Chargeable(c) THEN Price(call[c].seen) ELSE 0

Booked(type, amount, ref) == Append(ledger, [type |-> type, amount |-> amount, ref |-> ref])

Charge(c) ==
  /\ Pc(c) = "settle"
  /\ call' = [call EXCEPT ![c].pc = "tell", ![c].billed = Due(c)]
  /\ ledger' = IF Due(c) > 0 THEN Booked("usage", -Due(c), c) ELSE ledger
  /\ UNCHANGED <<usage, recording, recorded, hour, logrow, callfaults>>

ChargeFails(c) ==
  /\ Pc(c) = "settle" /\ Due(c) > 0
  /\ CallFault
  /\ call' = [call EXCEPT ![c].pc = "tell", ![c].billed = 0]
  /\ UNCHANGED <<Books, logrow>>

(* finalize_usage answers what it charged, and 0 when that failed.         *)
AsPriced(c) == Due(c)
Billed(c) == call[c].billed

Tell(c) ==
  /\ Pc(c) = "tell"
  /\ call' = [call EXCEPT ![c].pc = "done"]
  /\ recording' = IF Records(c) THEN recording \cup {[of |-> c, cost |-> Billed(c)]} ELSE recording
  /\ Logs(c, IF call[c].failed THEN "error" ELSE "ok", Billed(c))
  /\ UNCHANGED <<ledger, usage, recorded, hour, callfaults>>

(* INSERT .. ON DUPLICATE KEY UPDATE, in the row of the current hour.      *)
Column(c) == <<KeyOf[c], hour, ModelOf[c]>>
Added(row, cost) == [requests |-> row.requests + 1, cost |-> row.cost + cost]

RecordUsage(task) ==
  /\ task \in recording
  /\ recording' = recording \ {task}
  /\ recorded' = recorded \cup {task.of}
  /\ usage' = [usage EXCEPT ![Column(task.of)] = Added(@, task.cost)]
  /\ UNCHANGED <<call, ledger, logrow, hour, callfaults>>

RecordFails(task) ==
  /\ task \in recording
  /\ CallFault
  /\ recording' = recording \ {task}
  /\ UNCHANGED <<call, ledger, usage, recorded, logrow, hour>>

HourTurns ==
  /\ hour < MaxHours
  /\ hour' = hour + 1
  /\ UNCHANGED <<call, ledger, usage, recording, recorded, logrow, callfaults>>

---------------------------------------------------------------------------
(* The client leaves and hyper drops the handler: a Pending that is left   *)
(* logs "aborted".  Only a tapped body that has not been finished yet is   *)
(* settled by its Drop, in a task of its own.                              *)

Handling == {"modalities", "log", "access", "admit", "route", "streaming", "settle", "tell"}
FinishesOnDrop(c) == call[c].kind \in Tapped /\ Pc(c) = "streaming"

ClientLeaves(c) ==
  /\ Pc(c) \in Handling /\ ~call[c].detached
  /\ CallFault
  /\ IF FinishesOnDrop(c)
     THEN /\ call' = [call EXCEPT ![c].pc = "settle", ![c].failed = TRUE, ![c].detached = TRUE]
          /\ UNCHANGED logrow
     ELSE /\ call' = [call EXCEPT ![c].pc = "dropped", ![c].wants = Nothing]
          /\ Logs(c, "aborted", 0)
  /\ UNCHANGED Books

Handler(c) ==
  \/ \E kind \in Kinds :
       \/ ParseFails(c, kind)
       \/ \E wants \in Wants(kind), asks \in BOOLEAN : Parse(c, kind, wants, asks)
  \/ \E enabled \in BOOLEAN : BeginLog(c, enabled)
  \/ Pc(c) = "modalities" /\ \E declared \in Declarations : RequireModalities(c, declared)
  \/ CheckAccess(c) \/ AccessFails(c)
  \/ \E paid \in BOOLEAN : Admits(c, paid)
  \/ InsufficientFunds(c) \/ AdmitFails(c)
  \/ RouterFails(c) \/ RouterStreams(c)
  \/ \E told \in BOOLEAN, t \in 0..MaxTokens : RouterAnswers(c, told, t)
  \/ \E t \in 0..MaxTokens : UsageChunk(c, t) \/ Trailer(c, t)
  \/ NextAttempt(c) \/ StreamItemFails(c) \/ StreamEnds(c)
  \/ Charge(c) \/ ChargeFails(c) \/ Tell(c)
  \/ ClientLeaves(c)

EndpointsNext ==
  \/ \E c \in Calls : Handler(c)
  \/ \E task \in recording : RecordUsage(task) \/ RecordFails(task)
  \/ HourTurns

EndpointsSpec == EndpointsInit /\ [][EndpointsNext]_endpoints

---------------------------------------------------------------------------
AmountOf(n) == ledger[n].amount
UsageRows(c) == {n \in DOMAIN ledger : ledger[n].ref = c /\ ledger[n].type = "usage"}
Charged(c) == -MapThenSumSet(AmountOf, UsageRows(c))
CostOf(col) == usage[col].cost
Costs(cols) == MapThenSumSet(CostOf, cols)
ChargedFor(S) == MapThenSumSet(Charged, S)

(* The three books of a call are written one after the other and by        *)
(* different tasks, and agree all the same: what the key's usage and the   *)
(* log say a call cost is what the balance was charged, a call that was    *)
(* refused costs nothing anywhere, and when nothing fails and no task is   *)
(* left, every charge for tokens under a key is in its usage.              *)
BooksAgree ==
  /\ \A c \in Calls :
       /\ logrow[c].status \in {"ok", "error"} => logrow[c].cost = Charged(c)
       /\ Pc(c) = "refused" => Charged(c) = 0 /\ c \notin recorded
       /\ callfaults = 0 /\ recording = {} /\ Pc(c) = "done" /\ KeyOf[c] # NoKey
          => Charged(c) <= Fee \/ c \in recorded
  /\ \A c \in Calls :
       LET same == {other \in Calls : KeyOf[other] = KeyOf[c] /\ ModelOf[other] = ModelOf[c]}
       IN  Costs({<<KeyOf[c], h, ModelOf[c]>> : h \in 0..MaxHours}) = ChargedFor(same \cap recorded)

(* The cost of a stream is charged from the usage its provider reported    *)
(* (payments/biller.rs).  chat_completions_stream breaks it: it drops the  *)
(* chunk that carries the usage before the handler that counts tokens.     *)
TokensAreBilled ==
  \A c \in Calls :
    callfaults = 0 /\ Pc(c) = "done" /\ call[c].paid /\ call[c].told /\ ~call[c].failed
      => Charged(c) = Price(call[c].mine)
=============================================================================
