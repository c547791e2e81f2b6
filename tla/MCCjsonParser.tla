--------------------------- MODULE MCCjsonParser ---------------------------
(***************************************************************************)
(* The instances of CjsonParser that TLC checks: the alphabets, the memory *)
(* pools and the parser configurations of the runs.                        *)
(***************************************************************************)
EXTENDS CjsonParser

(* Alphabets. *)
ObjectBytes == {LBrace, RBrace, Quote, Colon, Comma, 97}
NestBytes   == {LBrace, RBrace, LBracket, RBracket, Quote, Colon, Comma, 49}
StringBytes == {Quote, Backslash, LetterU, 48, 56, 70, LetterN}
NumberBytes == {48, Dot, 101, Plus, Space, Comma, LBracket, RBracket,
                LetterT, LetterR, LetterU}

(* Pools: one block each for the parser and every allocation it makes. *)
Pool5  == 1 .. 5
Pool6  == 1 .. 6
Pool8  == 1 .. 8

(* Arguments of cjsonParserCreate; the last one is refused. *)
Streaming  == [flags |-> {"STREAMINGMODE"}, callback |-> TRUE]
OneShot    == [flags |-> {}, callback |-> TRUE]
NoCallback == [flags |-> {}, callback |-> FALSE]
NoStream   == [flags |-> {"STREAMINGMODE"}, callback |-> FALSE]

StreamingOnly   == {Streaming}
OneShotOnly     == {OneShot}
CallbackConfigs == {Streaming, OneShot}
AllConfigs      == {Streaming, OneShot, NoCallback, NoStream}
=============================================================================
