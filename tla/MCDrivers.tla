------------------------------ MODULE MCDrivers ------------------------------
(* Instances of WifiConnection and Devices for TLC, in one run: a behaviour  *)
(* is one of the connections or one of the devices, and the other module is  *)
(* at rest in it.                                                            *)
EXTENDS WifiConnection, Devices

VARIABLE part

DevicesRest == DevicesOff /\ ready2run = <<>> /\ mpu = [r \in Region |-> NULL]

MCInit ==
  /\ Init
  /\ \/ part = "connection" /\ DevicesRest
     \/ part = "devices" /\ DevicesInit

MCNext ==
  \/ part = "connection" /\ Next /\ UNCHANGED <<devices, part>>
  \/ part = "devices" /\ DevicesNext /\ UNCHANGED <<vars, part>>

\* What is at rest has no action enabled, so that its fairness says nothing.
MCSpec ==
  MCInit /\ [][MCNext]_<<vars, devices, part>> /\ Fairness /\ DevicesFairness
=============================================================================
