-------------------------- MODULE MCNotificationText --------------------------
(* Instance of NotificationText for TLC: every text up to a length. *)
EXTENDS NotificationText

Chars == {"a", "emoji", " ", "&"}

MCTitles    == BoundedSeq(Chars \ {"emoji"}, 2)
MCSummaries == BoundedSeq(Chars, 3)
MCParts     == {<<>>, <<" ">>, <<"a">>}

================================================================================
