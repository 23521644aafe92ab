-------------------------- MODULE MCQuadletRuntime --------------------------
EXTENDS QuadletRuntime, TLC

\* Ports are only compared, with each other and with NoPort.
PortSymmetry == Permutations(Ports)
=============================================================================
