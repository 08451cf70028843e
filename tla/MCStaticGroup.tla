---------------------------- MODULE MCStaticGroup ----------------------------
EXTENDS StaticGroup

CONSTANTS m1, m2

\* Each member in a pod of its own, which carries its name.
MCHome == [m \in Members |-> m]

\* cap6/read_files_dist_v3.cpp:52-59.
MCReadFiles == <<"collective", "collective", "synchronize">>
==============================================================================
