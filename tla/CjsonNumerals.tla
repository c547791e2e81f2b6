--------------------------- MODULE CjsonNumerals ---------------------------
(***************************************************************************)
(* The automaton of cjsonParser_Number_ProcessByte: which bytes a numeral  *)
(* may consist of.  CjsonParser uses it for the control of the parser,     *)
(* CjsonNumberValue for what the numeral is worth.                         *)
(***************************************************************************)
EXTENDS CjsonBytes

NumberState == {"FirstSymbol", "IntegerDigits", "FractionalDigitsFirst",
                "FractionalDigits", "ExponentFirst",
                "ExponentFirstAfterSign", "Exponent"}

(* Where the automaton of cjsonParser_Number_ProcessByte goes on a byte:     *)
(* another state, "finish" or "error".                                       *)
NumberNext(state, b) ==
  CASE state = "FirstSymbol" ->
         IF b \in Digit \cup {Minus} THEN "IntegerDigits" ELSE "error"
    [] state = "IntegerDigits" ->
         IF b \in Digit THEN "IntegerDigits"
         ELSE IF b = Dot THEN "FractionalDigitsFirst"
         ELSE IF b \in ExpSign THEN "ExponentFirst" ELSE "finish"
    [] state = "FractionalDigitsFirst" ->
         IF b \in Digit THEN "FractionalDigits" ELSE "error"
    [] state = "FractionalDigits" ->
         IF b \in Digit THEN "FractionalDigits"
         ELSE IF b \in ExpSign THEN "ExponentFirst" ELSE "finish"
    [] state = "ExponentFirst" ->
         IF b \in {Plus, Minus} THEN "ExponentFirstAfterSign"
         ELSE IF b \in Digit THEN "Exponent" ELSE "error"
    [] state = "ExponentFirstAfterSign" ->
         IF b \in Digit THEN "Exponent" ELSE "error"
    [] state = "Exponent" ->
         IF b \in Digit THEN "Exponent" ELSE "finish"
=============================================================================
