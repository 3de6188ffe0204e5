----------------------------- MODULE MCLspQuery -----------------------------
(***************************************************************************)
(* Instances of LspQuery for TLC: a server of a few words.                 *)
(***************************************************************************)
EXTENDS LspQuery, TLC

CONSTANTS e, w

(***************************************************************************)
(* Responses to either id, in any order and number, an error published and *)
(* cleared, another file's error, a request, logs and garbage.             *)
(***************************************************************************)
Words ==
  {Response(1, "plain"), Response(1, "provider"), Response(2, "severe"),
   Publish(TRUE, {e}), Publish(TRUE, {w}), Publish(FALSE, {e}),
   BadPublish, Ask(TRUE), Log, Garbage}

Logs == {Log}

=============================================================================
