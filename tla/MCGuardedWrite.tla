---------------------------- MODULE MCGuardedWrite ----------------------------
(* GuardedWrite for TLC.  Units differ in one field from a plain unit; the     *)
(* values are the corners of each field (unsupported bits, the last enabled    *)
(* protection, the SuperLearn label with and without a relearn).               *)
EXTENDS GuardedWrite

Plain == [model |-> ControlModel, firmware |-> 29, startup |-> {}, fault |-> {0, 1},
          scpt |-> 3]

MCUnits ==
       {[Plain EXCEPT !.startup = m, !.firmware = f] :
           m \in {{}, {1, 2}, {4}, {0, 3, 4}, {2, 5}}, f \in {28, 29}}
  \cup {[Plain EXCEPT !.fault = m] : m \in {{}, {0}, {0, 7}}}
  \cup {[Plain EXCEPT !.scpt = 0], [Plain EXCEPT !.model = "other"]}

MCRequests ==
       [kind : {"mode"}, mode : StartupMode]
  \cup [kind : {"flag"}, bit : {2, 3}, enabled : BOOLEAN]
  \cup [kind : {"scpt"}, minutes : {0, 1, 250, 251}]
  \cup [kind : {"fault"}, bit : {0, 6}, enabled : BOOLEAN]
===============================================================================
