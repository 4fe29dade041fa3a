--------------------------- MODULE TailhopperDocs ---------------------------
(***************************************************************************)
(* What the documentation says of the program and the code does not do.    *)
(***************************************************************************)
EXTENDS Tailhopper

\* The user has switched the tailnet off, and it has stopped.
SwitchedOff(t) == t.state = StoppedState /\ t.user = UserDisabled

\* "every request is automatically sent to the right proxy based on the
\* destination hostname" (README.md): also of a tailnet that is switched off, whose
\* suffix the PAC file goes on sending to its port, no other tailnet listens there.
RoutedRight ==
  \A i \in Existing(registered) :
    LET t == objects[registered[i]] IN
    SwitchedOff(t) /\ t.suffix # None =>
      \A o \in Objects \ {registered[i]} :
        objects[o] # None => ~(objects[o].bound /\ objects[o].port = t.port)
=============================================================================
