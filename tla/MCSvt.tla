------------------------------- MODULE MCSvt --------------------------------
EXTENDS Svt, TLC

(* A streamer of everything, for one program or two. *)
MCWants ==
  [o \in Outs |->
     {[funcs |-> [p \in ps |-> FUNC_ALL], hpids |-> IF ps = {} THEN {} ELSE {18}] :
        ps \in {{}, {1}, Pnrs}}]

Video(pid) == [pid |-> pid, kinds |-> {"AUDIO", "VIDEO"}]
Text(pid) == [pid |-> pid, kinds |-> {"VT"}]

(* Program 1 has PMTs of two sections, one and two; streams change pids.   *)
(* Program 2 shares a stream with it.                                      *)
MCStreams ==
  (1 :> << << {Video(101)}, {Text(102)} >>,
           << {Video(101), Text(103)} >>,
           << {Text(102)}, {Video(104)} >> >>)
  @@ (2 :> << << {Video(201), Text(102)} >> >>)
=============================================================================
