------------------------- MODULE MCStreamProcessor -------------------------
(***************************************************************************)
(* A processor driven by any host, or by ConsumeTextStream in two of the   *)
(* profiles, a whole response and a progressive one.                       *)
(*                                                                         *)
(* Bounds: units of up to six bytes, so that a JSON value can hold an      *)
(* escaped quote, an input one byte longer, writes of up to two bytes, and *)
(* an output budget of two approved values.                                *)
(***************************************************************************)
EXTENDS TextConsumer

MCAlphabet ==
    [whole      |-> {"a", "bad"},
     whole_json |-> {"[", "]", "a", "space"},
     newline    |-> {"a", "nl", "lead", "cont"},
     json       |-> {"[", "]", "}", "quote", "bslash", "space"},
     partial    |-> {"a", "lead", "cont", "bad"}]

\* A whole response may outgrow the buffer, the others first meet the unit bound.
MCMaxPending ==
    [whole |-> 5, whole_json |-> 7, newline |-> 7, json |-> 7, partial |-> 7]

MCCandidates == {<<"a">>, <<"[", "]">>, <<"a", "nl", "a">>, [i \in 1..7 |-> "a"]}

\* Framing has its own states to explore when a host writes.
MCInit == TextInit /\ (at = "start" => format \in {"whole", "newline"})

MCSpec == MCInit /\ [][TextNext]_textVars /\ WF_vars(Proceed)
=============================================================================
