------------------------------ MODULE MCBlocks -----------------------------
(* Constants of the finite instance of Blocks that TLC checks: three rows of *)
(* one stream on two days, with different fields; two rows whose streams     *)
(* share a directory, with fields that share a file with each other or with  *)
(* the time column; a row whose stream field has a comma.                    *)
EXTENDS Blocks

CONSTANTS host, service, x, y, z, time2, Slash, Colon

(* A toy hash; six bits of a trigram, some of them shared with others.       *)
MCBitOf(tg, i, n) == (tg[1] + 3 * tg[2] + 9 * tg[3] + 37 * i) % n

E(t, f) == [time |-> t, fields |-> f]
MCRawOf == <<
    E(1, (Msg :> <<1, 2, 3, 1>>) @@ (host :> <<1>>) @@ (service :> <<2>>) @@ (x :> <<1>>)),
    E(2, (Msg :> <<2, 1>>) @@ (host :> <<1>>) @@ (service :> <<2>>) @@ (y :> <<2>>)),
    E(3, (Msg :> <<1, 2, 3>>) @@ (host :> <<1>>) @@ (service :> <<2>>) @@ (x :> <<2>>)
             @@ (y :> <<1>>)),
    E(4, (y :> <<1>>) @@ (z :> <<2>>) @@ (host :> <<Slash>>)),
    E(3, (Msg :> <<2>>) @@ (time2 :> <<2>>) @@ (host :> <<Colon>>)),
    E(1, (Msg :> <<3, 1, 2>>) @@ (host :> <<1, Comma, service, Equals, 1>>) @@ (x :> << >>)
             @@ (Stream :> <<1>>))>>

MCChars == 1..3 \cup {host, service, Slash, Colon, Comma, Equals, Underscore}
MCStreamFields == <<host, service>>
MCMissingMsg   == <<3, 3, 3>>
MCDefault      == <<Underscore>>
MCRankOf == [s \in Streams |-> CHOOSE r \in Rows : StreamOf(r) = s]
MCFileOf == [f \in {Msg, Stream, host, service, x, y, z, time2} |->
                IF f = time2 THEN "_time.col" ELSE IF f = z THEN y ELSE f]

MCQueries == [start : {{}, {2}}, end : {{}, {1}, {2}},
              eq : {<< >>, host :> <<1>>, host :> <<Slash>>, (host :> << >>) @@ (service :> <<1>>)},
              contains : {<< >>, <<2>>, <<1, 2, 3>>, <<2, 3, 1>>, <<3, 1, 2>>}]
=============================================================================
