--------------------------- MODULE MCHttpHandlers ---------------------------
(* The HTTP origin with the requests it answers, for TLC.  The served root *)
(* holds a file, a directory with another one, a link to that directory,   *)
(* and links that lead outside, to a file and to a directory.              *)
EXTENDS HttpRequest

MCParent ==
    [node \in {"top", "root", "dir", "other", "file", "image", "secret"} |->
        CASE node \in {"top", "root", "other"} -> "top"
          [] node \in {"file", "dir"} -> "root"
          [] node = "image" -> "dir"
          [] node = "secret" -> "other"]

MCTree ==
    LET entries == {<<"top", "root", "root">>, <<"top", "other", "other">>,
                    <<"root", "file", "file">>, <<"root", "dir", "dir">>, <<"dir", "image", "image">>,
                    <<"root", "link", "dir">>, <<"root", "away", "other">>, <<"dir", "back", "root">>,
                    <<"root", "alias", "secret">>, <<"other", "secret", "secret">>}
    IN  [key \in {<<e[1], e[2]>> : e \in entries} |->
            (CHOOSE e \in entries : <<e[1], e[2]>> = key)[3]]

MCLinks ==
    {<<"root", "link">>, <<"root", "away">>, <<"root", "alias">>, <<"dir", "back">>}

MCRegular == {"file", "image", "secret"}
=============================================================================
