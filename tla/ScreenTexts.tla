---------------------------- MODULE ScreenTexts ----------------------------
(***************************************************************************)
(* The texts a transaction puts on the screen, each worked out by code of  *)
(* its own: the numbers (DecimalText), the addresses (AddressLine), and    *)
(* the calls (Calldata).  They share no state, so a behaviour works on one *)
(* of them and leaves the variables of the others empty.                   *)
(***************************************************************************)
EXTENDS Integers, Sequences

CONSTANTS
  Numbers, MAX_DECIMAL_DIGITS, MAX_RESULT_LEN, DECIMALS, AMOUNT_LEN,
  G_AMOUNT_LEN, G_NONCE_LEN,
  Addresses, ADDRESS_SIZE, OutLens, Shake256(_),
  Calldatas, ABI_SELECTOR_SIZE, ABI_SLOT_SIZE, ABI_MAX_PARAMS, GROUP_SIZE,
  UI_BUFFER_SIZE

\* A number is any bytes.  The buffers of an amount have room for the longest
\* number with its point: for one coin more than its digits, for the unit, and
\* in the shortest for the whole coins, the point and a digit behind it.
ASSUME NumberAssumption ==
  /\ \A n \in Numbers : n.line \in {"nonce", "amount"} /\ n.bytes \in Seq(0..255)
  /\ MAX_DECIMAL_DIGITS \in Nat \ {0} /\ DECIMALS \in Nat \ {0}
  /\ MAX_DECIMAL_DIGITS + 1 < MAX_RESULT_LEN /\ MAX_RESULT_LEN \in Nat
  /\ DECIMALS + 2 < MAX_RESULT_LEN
  /\ MAX_DECIMAL_DIGITS + 3 <= DECIMALS + AMOUNT_LEN /\ AMOUNT_LEN \in Nat
  /\ 4 <= AMOUNT_LEN
  /\ AMOUNT_LEN + 4 <= G_AMOUNT_LEN /\ G_AMOUNT_LEN \in Nat
  /\ G_NONCE_LEN \in Nat

\* An address is ADDRESS_SIZE bytes, whatever buffer it is written to.
ASSUME AddressAssumption ==
  /\ ADDRESS_SIZE \in Nat \ {0}
  /\ OutLens \subseteq Nat
  /\ \A a \in Addresses : a \in [1..ADDRESS_SIZE -> 0..255]

\* The data of a call is any bytes; the screens split a slot into eight groups,
\* and a line has room for the digits and the colon of each.
ASSUME CallAssumption ==
  /\ ABI_SELECTOR_SIZE \in Nat \ {0}
  /\ GROUP_SIZE \in Nat \ {0}
  /\ ABI_SLOT_SIZE = 8 * GROUP_SIZE
  /\ 8 * (2 * GROUP_SIZE + 1) < UI_BUFFER_SIZE /\ UI_BUFFER_SIZE \in Nat
  /\ ABI_MAX_PARAMS \in Nat
  /\ \A d \in Calldatas : d \in Seq(0..255)

VARIABLES
  kind,  \* what is written: "number", "address" or "call"
  pc,    \* how far the code of that kind is
  line, bytes, temp, result, text,                    \* DecimalText
  address, out, out_len, mask,                        \* AddressLine
  data, calldata, g_param_index, g_ui_buffer, shown   \* Calldata

numberVars == <<line, bytes, temp, result, text>>
addressVars == <<address, out, out_len, mask>>
callVars == <<data, calldata, g_param_index, g_ui_buffer, shown>>
vars == <<kind, pc, numberVars, addressVars, callVars>>

Number == INSTANCE DecimalText
Address == INSTANCE AddressLine
Call == INSTANCE Calldata

-----------------------------------------------------------------------------

NoNumber == line = <<>> /\ bytes = <<>> /\ temp = <<>> /\ result = <<>> /\ text = <<>>
NoAddress == address = <<>> /\ out = <<>> /\ out_len = <<>> /\ mask = <<>>
NoCall == /\ data = <<>> /\ calldata = <<>> /\ g_param_index = <<>>
          /\ g_ui_buffer = <<>> /\ shown = <<>>

Init == \/ kind = "number"  /\ Number!Init  /\ NoAddress /\ NoCall
        \/ kind = "address" /\ Address!Init /\ NoNumber  /\ NoCall
        \/ kind = "call"    /\ Call!Init    /\ NoNumber  /\ NoAddress

WriteNumber ==
  kind = "number" /\ Number!Next /\ UNCHANGED <<kind, addressVars, callVars>>

WriteAddress ==
  kind = "address" /\ Address!Next /\ UNCHANGED <<kind, numberVars, callVars>>

WalkCall ==
  kind = "call" /\ Call!Next /\ UNCHANGED <<kind, numberVars, addressVars>>

Next == WriteNumber \/ WriteAddress \/ WalkCall

Spec == Init /\ [][Next]_vars

-----------------------------------------------------------------------------

\* The variables of each kind keep their types, and its buffers hold what they
\* are made for: an address, a parameter, an amount of up to
\* MAX_DECIMAL_DIGITS digits and a nonce of fewer than G_NONCE_LEN.  Nothing is
\* said of longer numbers, which do leave theirs
\* (nbgl_display_transaction.c:42-50, 57-78, ui_confirm_parameter_selector.c:24-36).
TypeOK == CASE kind = "number"  -> Number!TypeOK
            [] kind = "address" -> Address!TypeOK
            [] kind = "call"    -> Call!TypeOK

\* No round of the division loses a digit (nbgl_display_transaction.c:57-74).
RoundsKeepNumber == kind = "number" => Number!RoundsKeepNumber

\* The digits are the number's, all of them and no more
\* (nbgl_display_transaction.c:53-79, 213).
DecimalIsExact == kind = "number" => Number!DecimalIsExact

\* The line of an amount is the amount, cut in its fraction alone
\* (nbgl_display_transaction.c:82-125, 236-242).
AmountIsNotMisread == kind = "number" => Number!AmountIsNotMisread

\* An address that is shown has its checksum (address.c:117-154).
FormattedIsChecksummed == kind = "address" => Address!FormattedIsChecksummed

\* One whose checksum was not computed is not shown
\* (address.c:124-153, nbgl_display_transaction.c:225-228).
NothingBeforeChecksum == kind = "address" => Address!NothingBeforeChecksum

\* The screens of a walk tell the call, slot by slot (sign_tx.c:50-65,
\* ui_confirm_parameter_selector.c:39-55, 84-103).
ScreensTellCalldata == kind = "call" => Call!ScreensTellCalldata

\* The walk ends behind the last parameter that is kept (sign_tx.c:50-61).
WalkIsComplete == kind = "call" => Call!WalkIsComplete

\* Every nonce the documents allow fits its line (doc/TRANSACTION.md:7-8, 28,
\* nbgl_display_transaction.c:44, 76-78, 213): it does not.
NonceHasLine == kind = "number" => Number!NonceHasLine
=============================================================================
