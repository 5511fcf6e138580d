--------------------------- MODULE MCBotDialogue ---------------------------
(* Up to three messages of one user, at any time. Session objects are       *)
(* interchangeable.                                                          *)
EXTENDS BotDialogue, TLC

\* An address, an empty one, no key at all, and keys that the menus read.
MCContents ==
    {[keys |-> <<"paymentAddress">>, data |-> [Fresh EXCEPT !.known = TRUE]],
     [keys |-> <<"paymentAddress">>, data |-> Fresh],
     [keys |-> <<>>, data |-> Fresh],
     [keys |-> <<"promptphase", "submenu">>,
      data |-> [Fresh EXCEPT !.phase = 1, !.submenu = "elsewhere"]]}

MCSymmetry == Permutations(Objects)

=============================================================================
