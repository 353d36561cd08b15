--------------------------- MODULE ScenarioStore ---------------------------
(***************************************************************************)
(* The scenario store shared by every provider surface: an in-memory map   *)
(* from "model|operation" to the scripted behaviour of the mock            *)
(* (internal/adapters/outbound/scenario).  It is written by the YAML       *)
(* loader at startup and by PUT /admin/scenarios at run time, and read by  *)
(* the use cases at the start of every request.  A key is a pair here; the *)
(* "|" that joins the two parts in the code is not modelled, so a model    *)
(* name that contains "|" is outside the model.                            *)
(***************************************************************************)
EXTENDS Integers, Sequences

CONSTANTS
    Models,         \* model names a scenario or a request can carry
    OtherOps,       \* operations other than "chat"
    Texts,          \* reply texts, the default canned reply among them
    DefaultReply,   \* defaultCannedReply
    EmptyText,      \* response_text left empty
    ErrorCodes      \* status codes an injected error can carry

ASSUME StoreAssumption ==
    /\ DefaultReply \in Texts
    /\ EmptyText \notin Texts
    /\ ErrorCodes \subseteq Nat
    /\ Models # {}
    /\ "chat" \notin OtherOps
    /\ "" \notin OtherOps

VARIABLE scenarios      \* Store.scenarios: the keys configured so far

NoError == -1           \* Scenario.Error = nil

Scenario ==
    [text : Texts \cup {EmptyText}, latency : BOOLEAN, paced : BOOLEAN,
     error : ErrorCodes \cup {NoError}]

Operations == {"", "chat"} \cup OtherOps

Keys == Models \X ({"chat"} \cup OtherOps)

\* What Resolve returns when nothing is configured for the key.
Benign ==
    [text |-> EmptyText, latency |-> FALSE, paced |-> FALSE, error |-> NoError]

\* Mutant: an omitted operation is not read as "chat".
AdminKey_NoDefault(model, op) == <<model, op>>

\* The store's own key convention: an empty operation means "chat".
Key(model, op) == <<model, IF op = "" THEN "chat" ELSE op>>

\* The key PUT /admin/scenarios builds by itself, without calling Key.
AdminKey(model, op) == <<model, IF op = "" THEN "chat" ELSE op>>

Resolve(model, op) ==
    IF Key(model, op) \in DOMAIN scenarios
    THEN scenarios[Key(model, op)]
    ELSE Benign

Put(key, s) ==
    scenarios' = [k \in DOMAIN scenarios \cup {key} |->
                    IF k = key THEN s ELSE scenarios[k]]

\* The status of an injected error: 0 becomes 500.  net/http takes a 1xx code
\* (other than 101) for an informational header, after which the body goes out
\* with 200; it panics on a code it cannot encode and drops the connection, so
\* that nothing is sent and the status stays 0.
ErrorStatus(code) ==
    CASE code = 0                      -> 500
      [] code \in (100..199) \ {101}  -> 200
      [] code \in {101} \cup 200..999  -> code
      [] OTHER                         -> 0

SeedEntry == [model : Models, op : Operations, scenario : Scenario]

\* LoadFile: the entries are put one after the other, so the last entry of a
\* key wins.
LoadFile(entries) ==
    LET keyOf(i) == Key(entries[i].model, entries[i].op)
        last(k)  == CHOOSE i \in DOMAIN entries :
                        /\ keyOf(i) = k
                        /\ \A j \in DOMAIN entries : keyOf(j) = k => j <= i
    IN  [k \in {keyOf(i) : i \in DOMAIN entries} |-> entries[last(k)].scenario]

StoreTypeOK ==
    /\ DOMAIN scenarios \subseteq Keys
    /\ \A k \in DOMAIN scenarios : scenarios[k] \in Scenario
=============================================================================
