---------------------- MODULE MCWorkloadQualification ----------------------
EXTENDS WorkloadQualification

\* Podman's map swaps two ids, so that a range of both is cut, and has no third one.
TwoRanges == <<Range3(0, 1, 1), Range3(1, 0, 1)>>
=============================================================================
