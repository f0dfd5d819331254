---------------------------- MODULE MCRemoteOffload ----------------------------
EXTENDS RemoteOffload, TLC

CONSTANTS a, b, wa, wb

MCClients == {a, b}
MCContents == {wa, wb}

\* a offloads the last layers of three, b the two outer ones, so that b's
\* token takes two requests; their models differ in one tensor of layer 0.
MCOffload == (a :> {1, 2}) @@ (b :> {0, 2})
MCWeight == [c \in MCClients |->
  [n \in Names |-> IF c = b /\ n = <<0, NumTensors>> THEN wb ELSE wa]]

===============================================================================
