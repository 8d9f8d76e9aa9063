------------------------------ MODULE Context ------------------------------
(***************************************************************************)
(* build_context: the messages one request carries, computed from the      *)
(* stored entries.  Entries are grouped by round, calls without a result   *)
(* are given one, calls with malformed arguments are filtered out, and     *)
(* user messages are never adjacent.                                       *)
(***************************************************************************)
EXTENDS Integers, Sequences, FiniteSets, Bags, SequencesExt

CONSTANTS
    Keys,       \* what a call says: tool name and arguments
    Malformed   \* the keys whose arguments are not valid JSON

ASSUME ContextAssumption == Malformed \subseteq Keys

Kinds == {"user", "steering", "text", "calls", "result", "request", "response"}

(* An entry of the history.  round is 0 where the column is NULL; item     *)
(* holds the keys of a call group, the position of the call a result       *)
(* answers, or the prompt of an interaction.                               *)
Entry(kind, round, item) == [kind |-> kind, round |-> round, item |-> item]

(* Where the group of a round is, or 0. *)
IndexOfRound(groups, round) ==
    LET at == {i \in DOMAIN groups : groups[i].round = round}
    IN  IF at = {} THEN 0 ELSE CHOOSE i \in at : TRUE

(* A group: the keys of its calls, and a bag of the positions that have a  *)
(* result, since nothing depends on the order of results.                  *)
UserGroup == [round |-> 0, text |-> TRUE, calls |-> <<>>, results |-> EmptyBag]

EndsWithUser(groups) == groups # <<>> /\ Last(groups).round = 0

(* One iteration of the loop of group_by_round. *)
AddEntry(groups, e) ==
    LET i == IndexOfRound(groups, e.round)
    IN  CASE e.kind \in {"user", "steering"} ->
               IF EndsWithUser(groups) THEN groups ELSE Append(groups, UserGroup)
          [] e.kind = "text" ->
               IF i # 0 THEN [groups EXCEPT ![i].text = TRUE]
               ELSE Append(groups, [round |-> e.round, text |-> TRUE,
                                    calls |-> <<>>, results |-> EmptyBag])
          [] e.kind = "calls" ->
               IF i # 0 THEN [groups EXCEPT ![i].calls = e.item]
               ELSE Append(groups, [round |-> e.round, text |-> FALSE,
                                    calls |-> e.item, results |-> EmptyBag])
          [] e.kind = "result" /\ i # 0 ->
               [groups EXCEPT ![i].results = @ (+) SetToBag({e.item})]
          [] OTHER -> groups

GroupByRound(entries) ==
    LET group[n \in 0..Len(entries)] ==
            IF n = 0 THEN <<>> ELSE AddEntry(group[n - 1], entries[n])
    IN  group[Len(entries)]

(* missing_call_ids *)
MissingCalls(g) == DOMAIN g.calls \ BagToSet(g.results)

(* Mutant: an incomplete group is replayed as it is. *)
Unrepaired(g) == g

(* Every call is answered, really or synthetically. *)
Repaired(g) == [g EXCEPT !.results = @ (+) SetToBag(MissingCalls(g))]

(* filter_malformed_tool_calls and tool_calls_emptied: calls becomes the   *)
(* set of positions that survive.                                          *)
Kept(g) == {i \in DOMAIN g.calls : g.calls[i] \notin Malformed}

Filtered(g) ==
    [round |-> g.round, text |-> g.text, calls |-> Kept(g),
     results |-> IF Kept(g) = DOMAIN g.calls THEN g.results
                 ELSE [i \in BagToSet(g.results) \cap Kept(g) |-> g.results[i]]]

(* The messages of one group.  A message with no content is not sent. *)
Message(role, calls, results) == [role |-> role, calls |-> calls, results |-> results]

UserMessage == Message("user", {}, EmptyBag)

Messages(g) ==
    LET f == Filtered(Repaired(g))
    IN  (IF f.text \/ f.calls # {} THEN <<Message("assistant", f.calls, EmptyBag)>> ELSE <<>>)
        \o (IF f.results # EmptyBag THEN <<Message("tool", {}, f.results)>> ELSE <<>>)

(* push_prepared_user merges a user message into one that precedes it. *)
AddGroup(messages, g) ==
    IF g.round # 0 THEN messages \o Messages(g)
    ELSE IF messages # <<>> /\ Last(messages).role = "user" THEN messages
    ELSE Append(messages, UserMessage)

Assembled(groups) ==
    LET messages[n \in 0..Len(groups)] ==
            IF n = 0 THEN <<>> ELSE AddGroup(messages[n - 1], groups[n])
    IN  messages[Len(groups)]

BuildContext(entries) == Assembled(GroupByRound(entries))

-----------------------------------------------------------------------------
(* What every provider demands of a request: each assistant message with   *)
(* calls is followed by exactly one result for each of them, results       *)
(* follow nothing else, and user messages are not adjacent.                *)
Answers(tool, assistant) ==
    /\ tool.role = "tool"
    /\ assistant.role = "assistant"
    /\ tool.results = SetToBag(assistant.calls)

Replayable(messages) ==
    \A n \in DOMAIN messages :
        /\ messages[n].calls # {} =>
              n < Len(messages) /\ Answers(messages[n + 1], messages[n])
        /\ messages[n].role = "tool" =>
              n > 1 /\ Answers(messages[n], messages[n - 1])
        /\ messages[n].role = "user" /\ n < Len(messages) =>
              messages[n + 1].role # "user"

=============================================================================
