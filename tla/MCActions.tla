------------------------------ MODULE MCActions ------------------------------
(* A small instance of Actions for TLC.                                    *)
EXTENDS Actions
CONSTANTS ping, reboot
MCEnabled == {Trace, ping}
MCNames == {Trace, ping, reboot}
\* The bounds of the code and one beyond each, every kind of interface and URI, and
\* the two payloads whose fields nobody gets to see.
MCInterfaces == {{}, {"named"}, {"named", "exists"}, {"named", "matches"},
                 {"named", "path", "exists"}}
MCPayloads ==
    [json : {"fields"}, interface : MCInterfaces, uri : {"absent", "other", "http"},
     duration : {-1, 0, 1, 300, 301}, packets : {-1, 0, 1, 2, 10000, 10001}]
    \cup {[json |-> j, interface |-> {}, uri |-> "absent", duration |-> 0, packets |-> 0] :
             j \in {"malformed", "mistyped"}}
MCModes == {"real", "placeholder"}
=============================================================================
