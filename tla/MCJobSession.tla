---------------------------- MODULE MCJobSession ----------------------------
(* Instance of JobSession for TLC: three jobs, two descriptors of which one *)
(* sets a property and LOG_LEVEL in the environment, one property.          *)
EXTENDS JobSession

CONSTANTS j1, j2, j3, d1, d2, threshold

AllJobs == {j1, j2, j3}
TwoDescriptors == {d1, d2}
OneProp == {threshold}
NoProps == {}
SetByFirst == [d \in TwoDescriptors |-> IF d = d1 THEN {threshold} ELSE {}]
InBoth == [d \in TwoDescriptors |-> {threshold}]
LevelOfFirst == [d \in TwoDescriptors |-> IF d = d1 THEN "ERROR" ELSE None]

SomeRequests ==
    {[verbose |-> v, descriptor |-> d, commandLine |-> c, clientEnv |-> e,
      output |-> o, copiesVideo |-> o = "file"] :
         v \in {0, 2}, d \in TwoDescriptors, c \in SUBSET OneProp, e \in SUBSET OneProp,
         o \in {"stdout", "file"}}

At(frame, confidence) == [frame |-> frame, confidence |-> confidence]
Track(start, locations) == [start |-> start, confidence |-> Len(locations), locations |-> locations]
SomeResults == {<<>>,
                <<Track(1, <<At(3, 2), At(1, 2), At(2, 1)>>), Track(0, <<At(0, 1)>>),
                  Track(0, <<At(4, 2)>>), Track(2, <<>>)>>}

=============================================================================
