---------------------------- MODULE MCStreamUnmask ----------------------------
(* Two content blocks.  The texts hold a token behind a stray bracket that runs *)
(* into an unfinished one, a literal token before an unfinished one, and a       *)
(* bracketed run longer than a token.                                            *)
EXTENDS StreamUnmask

Texts ==
    { <<"[", "[", "U", "h", "]", "[">>,
      <<"l", "m", "[">>,
      <<"[", "U", "U", "U", "U">> }
=============================================================================
