---------------------------- MODULE MCUtilities ----------------------------
(***************************************************************************)
(* The parts that share nothing with each other, one of them at work in    *)
(* each behaviour: the fastboot application with its partition cache, the  *)
(* walks over the memory map, the splash and the battery.                  *)
(***************************************************************************)
EXTENDS FastbootApp, MemoryMap, Splash, Energy

VARIABLE part

allVars == <<part, vars, map, splashVars, energyVars>>

\* Platforms of up to three block devices: disks with a GPT, the device of a
\* partition, a card without a GPT.
Used(name) == [type |-> "linux", name |-> name]
Unused(name) == [type |-> "null", name |-> name]

Disk(parts) == [logical |-> FALSE, gpt |-> TRUE, parts |-> parts]
Volume == [logical |-> TRUE, gpt |-> FALSE, parts |-> << >>]
Card == [logical |-> FALSE, gpt |-> FALSE, parts |-> << >>]

Emmc == Disk(<<Used("boot"), Unused("data"), Used("data")>>)
Second == Disk(<<Used("data"), Used("other"), Used("")>>)
Third == Disk(<<Unused("boot"), Used("other")>>)

MCDeviceLists ==
    {<< >>, <<Emmc>>, <<Volume, Emmc, Card>>, <<Emmc, Volume, Second>>,
     <<Second, Third, Emmc>>, <<Card, Third, Second>>}

MCScreens == {<<10, 3>>, <<11, 6>>}
MCOem1Tables == [use : {"CAP", "RUN"}, run : {0, 3}, cap : {0, 2, 7}, freqlmt : {0, 4}]

\* The parts that are not at work wait in one of their initial states.
One(S) == {CHOOSE x \in S : TRUE}

AllInit ==
    /\ part \in {"fastboot", "map", "splash", "energy"}
    /\ AppInit /\ (part = "fastboot" \/ devices = << >>)
    /\ MapInit
    /\ SplashStart(IF part = "splash" THEN Bitmaps ELSE One(Bitmaps))
    /\ IF part = "energy" THEN EnergyInit
       ELSE EnergyStart({Unreachable}, One(Oem1Tables), One(Batteries)) /\ dev = "ok"

AllNext ==
    \/ part = "fastboot" /\ Next /\ UNCHANGED <<part, map, splashVars, energyVars>>
    \/ part = "map" /\ MapNext /\ UNCHANGED <<part, vars, splashVars, energyVars>>
    \/ part = "splash" /\ SplashNext /\ UNCHANGED <<part, vars, map, energyVars>>
    \/ part = "energy" /\ EnergyNext /\ UNCHANGED <<part, vars, map, splashVars>>

AllSpec == AllInit /\ [][AllNext]_allVars
=============================================================================
