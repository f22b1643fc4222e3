--------------------------- MODULE SessionLayers ---------------------------
(***************************************************************************)
(* A firmware is built with one session layer: the three for stacks that   *)
(* have no sockets queue of their own stand here side by side, under one   *)
(* promise, Connections, and with the same clients (SparkServer, the       *)
(* fourth, is a module of its own).  The variables of the layers that are  *)
(* not built in stay as they are.                                          *)
(***************************************************************************)
EXTENDS Integers

CONSTANTS MaxSockNum, CountRange,            \* of ArduinoServer
          MaxConn, Remotes, PortsComeAgain, MaxLost, \* of EspServer
          MaxFaults                          \* of LwipSession and ArduinoServer

ASSUME SessionLayersAssumption ==
  /\ MaxSockNum \in Nat \ {0}
  /\ CountRange \in Nat \ {0}
  /\ MaxConn \in Nat
  /\ Remotes # {}
  /\ PortsComeAgain \in BOOLEAN
  /\ MaxLost \in Nat
  /\ MaxFaults \in Nat

Conns == 0..(MaxSockNum - 1)

VARIABLES port,                                        \* the layer that is built in
          wire, sentcb, unacked, faults,               \* of more than one layer
          pcb, hooks, session, leaked,                 \* LwipSession
          link, remote, httpstate, lost,               \* EspServer
          status, rx, next, accepted, pc, turn         \* ArduinoServer

lwip    == <<pcb, hooks, session, leaked>>
esp     == <<link, remote, httpstate, lost>>
arduino == <<status, rx, next, accepted, pc, turn>>
vars    == <<port, wire, sentcb, unacked, faults, lwip, esp, arduino>>

Lwip    == INSTANCE LwipSession
Esp     == INSTANCE EspServer
Arduino == INSTANCE ArduinoServer

Init == /\ port \in {"lwip", "esp", "arduino"}
        /\ Lwip!Init /\ Esp!Init /\ Arduino!Init

LwipOnly    == port = "lwip" /\ UNCHANGED <<port, esp, arduino>>
EspOnly     == port = "esp" /\ UNCHANGED <<port, lwip, arduino, faults>>
ArduinoOnly == port = "arduino" /\ UNCHANGED <<port, lwip, esp, sentcb, unacked>>

Next == \/ LwipOnly /\ Lwip!Next
        \/ EspOnly /\ Esp!Next
        \/ ArduinoOnly /\ Arduino!Next

Spec == Init /\ [][Next]_vars

\* lwIP polls every block, reports acknowledgements and ends what was closed.
LwipFairness ==
  \A c \in Conns : /\ WF_vars(LwipOnly /\ Lwip!Poll(c))
                   /\ WF_vars(LwipOnly /\ Lwip!Freed(c))

\* The SDK reports that a reply was sent, and that a connection is down.
EspFairness ==
  \A c \in Conns : /\ WF_vars(EspOnly /\ Esp!Sent(c))
                   /\ WF_vars(EspOnly /\ link[c] = "leaving" /\ Esp!Disconnect(c))

\* The main loop calls run for ever, however often it calls listen and stop, and the
\* chip ends what was disconnected.
ArduinoFairness ==
  /\ SF_vars(ArduinoOnly /\ Arduino!Run)
  /\ WF_vars(ArduinoOnly /\ Arduino!Server)
  /\ \A h \in Conns : WF_vars(ArduinoOnly /\ Arduino!Ended(h))

FairSpec == Spec /\ LwipFairness /\ EspFairness /\ ArduinoFairness

-----------------------------------------------------------------------------

\* lwIP's callbacks never work on a deleted session (network_lwip.cpp:185), and no
\* session is lost but in a close that failed (network_lwip.cpp:231).
CallbacksAreLive == Lwip!CallbacksAreLive /\ Lwip!LossesAreFaults

\* The map of suspended messages of the ESP8266 holds only messages somebody will
\* resume, each once, or that an error left behind (network_esp8266.cpp:223).
SlotsAreNeeded == Esp!SlotsAreNeeded

\* A suspended message of the ESP8266 is the state of one connection
\* (network_esp8266.cpp:124).
StateOfOneConnection == Esp!StateOfOneConnection

\* A readable socket of the W5100 is served in turn, a closed one listens again
\* (network_arduino.cpp:110).
NoSocketStarves == (port = "arduino") => Arduino!NoSocketStarves

Phase(c) == CASE port = "lwip"    -> Lwip!Phase(c)
              [] port = "esp"     -> Esp!Phase(c)
              [] port = "arduino" -> Arduino!Phase(c)

Abstract == INSTANCE Connections WITH conn <- [c \in Conns |-> Phase(c)]

\* Whichever layer is built in, each connection has a state of its own.
Implements == Abstract!Spec

\* A connection whose last reply is on its way ends, whether the reply is acknowledged,
\* the close fails or the client is silent.
AnsweredConnectionsEnd ==
  \A c \in Conns : (Phase(c) = "ending") ~> (Phase(c) # "ending")
=============================================================================
