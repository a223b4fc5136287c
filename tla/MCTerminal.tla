----------------------------- MODULE MCTerminal -----------------------------
(* Two tasks on a terminal whose queues hold two characters: a text, with   *)
(* the CR that is sent for its newline, is longer than the queue.           *)
EXTENDS Terminal

TheModes == {{"ICANON", "ECHO", "ISIG"}, {"ECHO"}}
TheTexts == {<<"x", "nl">>}

(* As tty.h sets it, and with the end of a file and the interrupt swapped.  *)
(* Every key is an ordinary character where c_lflag has ECHO only.          *)
Usual == [VINTR |-> "^C", VERASE |-> "del", VKILL |-> "^U", VEOF |-> "^D"]
TheCcs == {[Usual EXCEPT !["VEOF"] = "^C", !["VINTR"] = "^D"]}
=============================================================================
