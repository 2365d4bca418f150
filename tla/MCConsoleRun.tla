----------------------------- MODULE MCConsoleRun -----------------------------
(***************************************************************************)
(* Cases for the model checker.  Outputs: a character and a frame that a   *)
(* read can cut; something like a prefix before a frame; a record that is  *)
(* no frame, and a frame after it; a record that is too long, with a frame *)
(* in it; an output that ends within a character, and one that ends within *)
(* a frame.  The faults of the process meet a short output.                *)
(***************************************************************************)
EXTENDS ConsoleRun

Case(stdout, stderr, anyOf) ==
  [output |-> [s \in Streams |-> IF s = "stdout" THEN stdout ELSE stderr], faults |-> anyOf]

SampleCases ==
  { Case(<<"x", "head", "tail", "rs", "v1", "ok", "nl", "x">>, <<>>, {}),
    Case(<<"rs", "v1", "x", "nl", "rs", "v1", "ok", "nl">>, <<>>, {}),
    Case(<<"rs", "v1", "x", "x", "rs", "v1", "ok", "nl">>, <<>>, {}),
    Case(<<"tail", "head", "x", "head">>, <<"rs", "v1">>, {}),
    Case(<<"rs", "rs", "v1", "ok", "nl">>, <<>>, {"read"}),
    Case(<<"x", "rs", "v1", "ok", "nl">>, <<"x">>, {"append"}),
    Case(<<"x", "rs", "v1", "ok", "nl">>, <<"x">>, {"limit"}),
    Case(<<"x">>, <<"x">>, {"console"}),
    Case(<<"x">>, <<>>, {"prepare", "spawn", "assign", "thread"}),
    Case(<<"x">>, <<>>, {"terminate", "thread"}),
    Case(<<"x">>, <<>>, {"wait", "thread"}),
    Case(<<"x">>, <<>>, {"append", "finish"}) }
=============================================================================
