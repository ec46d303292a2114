------------------------------ MODULE Calldata ------------------------------
(***************************************************************************)
(* What the screens of a calldata walk say: abi_calldata_parse of the      *)
(* SIGN_TX handler, and the texts ui_confirm_parameter_selector.c makes of *)
(* its result.  LedgerApp has the same walk with its other outcomes and    *)
(* without the texts; here nobody rejects.                                 *)
(*                                                                         *)
(* A definition named Bug... is a mutated form of the one after it.        *)
(***************************************************************************)
EXTENDS Integers, Sequences, SequencesExt

CONSTANTS
  Calldatas,          \* the data fields to walk through
  ABI_SELECTOR_SIZE,  \* 4
  ABI_SLOT_SIZE,      \* 64
  ABI_MAX_PARAMS,     \* 16
  GROUP_SIZE,         \* 8 bytes, which a colon ends on the screen
  UI_BUFFER_SIZE      \* 140

VARIABLES
  data,           \* tx_data.data
  calldata,       \* G_context.tx_info.calldata
  g_param_index,
  g_ui_buffer,    \* the text of a parameter, up to its terminator
  pc,             \* "call", then the screen: "selector", "param", "review"
  shown           \* the texts that were on the screen so far

vars == <<data, calldata, g_param_index, g_ui_buffer, pc, shown>>

HexUpper == <<"0", "1", "2", "3", "4", "5", "6", "7", "8", "9",
              "A", "B", "C", "D", "E", "F">>

\* format_hex of the SDK, and bytes_to_hex_string with the letters that
\* buildScreen raises: two characters a byte.
format_hex(b) ==
  [i \in 1..(2 * Len(b)) |->
     LET byte == b[(i + 1) \div 2]
     IN HexUpper[1 + (IF i % 2 = 1 THEN byte \div 16 ELSE byte % 16)]]

-----------------------------------------------------------------------------
(* abi_calldata_parse *)

NoCalldata == [ok |-> FALSE, selector |-> <<>>, params |-> <<>>]

\* As many as params has room for; the others are not kept.
ParamCount(len) ==
  LET slots == (len - ABI_SELECTOR_SIZE) \div ABI_SLOT_SIZE
  IN IF slots > ABI_MAX_PARAMS THEN ABI_MAX_PARAMS ELSE slots

Param(d, i) ==
  SubSeq(d, ABI_SELECTOR_SIZE + (i - 1) * ABI_SLOT_SIZE + 1,
         ABI_SELECTOR_SIZE + i * ABI_SLOT_SIZE)

abi_calldata_parse(d) ==
  IF \/ Len(d) < ABI_SELECTOR_SIZE
     \/ (Len(d) - ABI_SELECTOR_SIZE) % ABI_SLOT_SIZE # 0
    THEN NoCalldata
  ELSE [ok |-> TRUE,
        selector |-> SubSeq(d, 1, ABI_SELECTOR_SIZE),
        params |-> [i \in 1..ParamCount(Len(d)) |-> Param(d, i)]]

-----------------------------------------------------------------------------
(* buildScreen *)

Group(param, k) == SubSeq(param, (k - 1) * GROUP_SIZE + 1, k * GROUP_SIZE)
Groups == ABI_SLOT_SIZE \div GROUP_SIZE
IsZero(b) == \A i \in 1..Len(b) : b[i] = 0

\* Zero bytes are left out wherever they are.
BugSplit(group) ==
  IF IsZero(group) THEN <<"0", "0">>
  ELSE format_hex(SelectSeq(group, LAMBDA x : x # 0))

\* split_binary_parameter_part: zero bytes in front are left out.
Split(group) ==
  IF IsZero(group) THEN <<"0", "0">>
  ELSE LET first == CHOOSE i \in 1..Len(group) :
                      group[i] # 0 /\ IsZero(SubSeq(group, 1, i - 1))
       IN format_hex(SubSeq(group, first, Len(group)))

\* No colon behind the fourth group.
Colon(k) == IF k = 4 THEN <<>> ELSE <<":">>

\* The text before its last character, a colon, is cut.
BuiltText(param) ==
  FlattenSeq([k \in 1..Groups |-> Split(Group(param, k)) \o Colon(k)])

ParameterText(param) == Front(BuiltText(param))

-----------------------------------------------------------------------------

Init == /\ data \in Calldatas
        /\ calldata = NoCalldata
        /\ g_param_index = 0
        /\ g_ui_buffer = <<>>
        /\ pc = "call"
        /\ shown = <<>>

Review == /\ pc' = "review"
          /\ UNCHANGED <<g_ui_buffer, shown>>

ShowParameter(i) ==
  /\ pc' = "param"
  /\ g_ui_buffer' = ParameterText(calldata.params[i + 1])
  /\ shown' = Append(shown, g_ui_buffer')

\* handler_sign_tx of a call to be debugged.
Call ==
  /\ pc = "call"
  /\ calldata' = abi_calldata_parse(data)
  /\ g_param_index' = 0
  /\ IF ~calldata'.ok THEN Review
     ELSE /\ pc' = "selector"
          /\ shown' = Append(shown, format_hex(calldata'.selector))
          /\ UNCHANGED g_ui_buffer
  /\ UNCHANGED data

\* The index is raised on the selector as well.
BugNextIndex == g_param_index + 1

NextIndex == IF pc = "selector" THEN 0 ELSE g_param_index + 1

\* reviewChoice(true).
Confirm ==
  /\ pc \in {"selector", "param"}
  /\ g_param_index' = NextIndex
  /\ IF g_param_index' < Len(calldata.params)
       THEN ShowParameter(g_param_index') ELSE Review
  /\ UNCHANGED <<data, calldata>>

Next == Call \/ Confirm

Spec == Init /\ [][Next]_vars

-----------------------------------------------------------------------------
(* A reader of the screens *)

\* The first colon behind place i of a text, or the end of the text.
ColonBehind(text, i) ==
  LET behind == {j \in (i + 1)..Len(text) : text[j] = ":"}
  IN IF behind = {} THEN Len(text) + 1
     ELSE CHOOSE j \in behind : \A k \in behind : j <= k

\* Where the pieces of a text between its colons end.
PieceEnds(text) ==
  LET end[k \in 0..Groups] == IF k = 0 THEN 0 ELSE ColonBehind(text, end[k - 1])
  IN end

\* The digits of a number in front of which zeros say nothing.
Significant(digits) ==
  LET nonzero == {i \in 1..Len(digits) : digits[i] # "0"}
  IN IF nonzero = {} THEN <<>>
     ELSE SubSeq(digits, CHOOSE i \in nonzero : \A j \in nonzero : i <= j,
                 Len(digits))

\* A text has one piece less than a slot has numbers and tells each of them,
\* the fourth and the fifth only as the digits of both in a row.
Tells(text, slot) ==
  LET end == PieceEnds(text)
      piece(k) == SubSeq(text, end[k - 1] + 1, end[k] - 1)
      whole(k) == format_hex(Group(slot, k))
  IN /\ end[Groups - 2] <= Len(text) /\ end[Groups - 1] = Len(text) + 1
     /\ \A k \in 1..(Groups - 1) :
          k # 4 => Significant(piece(k))
                     = Significant(whole(IF k < 4 THEN k ELSE k + 1))
     /\ \E i \in 1..(Len(piece(4)) - 1) :
          /\ Significant(SubSeq(piece(4), 1, i)) = Significant(whole(4))
          /\ Significant(SubSeq(piece(4), i + 1, Len(piece(4))))
               = Significant(whole(5))

\* Byte k of slot i, counted in the data itself.
SlotOf(d, i) ==
  [k \in 1..ABI_SLOT_SIZE |-> d[ABI_SELECTOR_SIZE + ABI_SLOT_SIZE * (i - 1) + k]]

Least(m, n) == IF m < n THEN m ELSE n

SlotsIn(d) == (Len(d) - ABI_SELECTOR_SIZE) \div ABI_SLOT_SIZE

-----------------------------------------------------------------------------

\* The screens' state; the text with the colon that is cut and the terminator
\* fits g_ui_buffer, whatever the parameter.
TypeOK ==
  /\ calldata.params \in Seq(Seq(0..255))
  /\ Len(calldata.params) <= ABI_MAX_PARAMS
  /\ g_param_index \in 0..ABI_MAX_PARAMS
  /\ Len(g_ui_buffer) + 2 <= UI_BUFFER_SIZE
  /\ pc \in {"call", "selector", "param", "review"}

\* Whoever confirmed up to some screen has read the selector and, in order
\* and as numbers, the slots behind it in the transaction's own data, none
\* skipped, shifted or shown twice (sign_tx.c:50-65,
\* ui_confirm_parameter_selector.c:39-55, 84-103).
ScreensTellCalldata ==
  shown # <<>> =>
    /\ shown[1] = format_hex(SubSeq(data, 1, ABI_SELECTOR_SIZE))
    /\ \A i \in 1..(Len(shown) - 1) : Tells(shown[i + 1], SlotOf(data, i))

\* A walk ends in the review only when every parameter that was kept has been
\* shown, and nothing but whole slots is walked (sign_tx.c:50-61).
WalkIsComplete ==
  pc = "review" /\ calldata.ok =>
    /\ Len(shown) = 1 + Least(SlotsIn(data), ABI_MAX_PARAMS)
    /\ Len(data) = ABI_SELECTOR_SIZE + ABI_SLOT_SIZE * SlotsIn(data)

-----------------------------------------------------------------------------
=============================================================================
