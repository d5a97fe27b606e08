------------------------------- MODULE Energy -------------------------------
(***************************************************************************)
(* The energy-management operations of efilinux/uefi_em.c behind           *)
(* em_fallback_target, target_from_inputs and check_vbattfreqlmt, and the  *)
(* ACPI tables they take their thresholds from (efilinux/acpi.c).          *)
(* BootLogic has the answers as inputs; here is where they come from.      *)
(***************************************************************************)
EXTENDS Integers, Sequences

CONSTANTS
    VoltMod,        \* 2^width of BATT_VOLTAGE and ia_apps_run
    CapMod,         \* 2^width of BATT_CAPACITY and ia_apps_cap
    Voltages,       \* voltages of a battery, in mV
    Capacities,     \* charges of a battery, in percent
    Oem1Tables      \* [use, run, cap, freqlmt]: contents of the OEM1 table

ASSUME EnergyAssumption ==
    /\ VoltMod \in Nat /\ CapMod \in Nat
    \* no battery reaches the all-ones value of its width
    /\ Voltages \subseteq 0 .. VoltMod - 2 /\ Capacities \subseteq 0 .. CapMod - 2
    /\ Oem1Tables \subseteq [use : {"CAP", "RUN"}, run : 0 .. VoltMod - 1,
                              cap : 0 .. CapMod - 1, freqlmt : 0 .. VoltMod - 1]

VARIABLES
    tables,     \* signatures the RSDT lists, or where the walk to it ends
    oem1,       \* content of the OEM1 table
    cached,     \* OEM1_table: found before
    dev,        \* DeviceInfoProtocol: "none", "error" or "ok"
    battery,    \* [mv, percent]
    policy,     \* operations chosen by em_set_policy
    asked,      \* the last question, with the battery it was asked of
    reply

energyVars == <<tables, oem1, cached, dev, battery, policy, asked, reply>>

Lists == {<< >>, <<"FACP">>, <<"FACP", "OEM1">>, <<"OEM1", "RSCI">>}

\* No ACPI 2.0 table, or a wrong signature of RSDP or RSDT.
Unreachable == <<"unreachable">>

\* A platform with one of these lists, tables and batteries.
EnergyStart(lists, oems, batteries) ==
    /\ tables \in lists
    /\ oem1 \in oems
    /\ cached = FALSE
    /\ dev \in {"none", "ok"}
    /\ battery \in batteries
    /\ policy = "uefi"
    /\ asked = "none" /\ reply = "none"

Batteries == [mv : Voltages, percent : Capacities]
EnergyInit == EnergyStart(Lists \cup {Unreachable}, Oem1Tables, Batteries)

get_rsdt_table == tables # Unreachable

\* get_acpi_table(sig): the first entry of the RSDT with that signature.
get_acpi_table(sig) ==
    /\ get_rsdt_table
    /\ \E k \in DOMAIN tables : tables[k] = sig

Oem1Found == cached \/ get_acpi_table("OEM1")

\* Mutant: an error is reported as 0.
get_acpi_field_Zero(field, mod) == IF Oem1Found THEN oem1[field] ELSE 0

\* _get_acpi_field returns -1 when there is no such table, and the field's
\* type keeps its low bits.
get_acpi_field(field, mod) == IF Oem1Found THEN oem1[field] ELSE (-1) % mod

\* oem1_get_ia_apps_to_use() == OEM1_USE_IA_APPS_CAP; all ones is neither.
UsesCapacity == Oem1Found /\ oem1.use = "CAP"

get_battery_status == dev = "ok"

get_battery_level ==
    IF policy = "fake" THEN "BOOT_OS"
    ELSE IF ~get_battery_status THEN "ERROR"
    ELSE LET over == IF UsesCapacity
                     THEN battery.percent > get_acpi_field("cap", CapMod)
                     ELSE battery.mv > get_acpi_field("run", VoltMod)
         IN IF over THEN "BOOT_OS" ELSE "BOOT_CHARGING"

is_battery_below_vbattfreqlmt ==
    IF policy = "fake" \/ ~get_battery_status THEN "no"
    ELSE IF battery.mv < get_acpi_field("freqlmt", VoltMod) THEN "yes" ELSE "no"

\* A question that reads the OEM1 table keeps its address.
Reads == policy = "uefi" /\ get_battery_status

Question(question, answer) ==
    /\ asked' = question /\ reply' = answer
    /\ cached' = IF Reads THEN Oem1Found ELSE cached
    /\ UNCHANGED <<tables, oem1, dev, battery, policy>>

AskLevel == Question("level", get_battery_level)
AskLimit == Question("limit", is_battery_below_vbattfreqlmt)

\* The battery drains or is charged, and its driver fails now and then.
BatteryChanges ==
    /\ battery' \in Batteries
    /\ dev' \in IF dev = "none" THEN {"none"} ELSE {"ok", "error"}
    /\ asked' = "none" /\ reply' = "none"
    /\ UNCHANGED <<tables, oem1, cached, policy>>

\* -e fake and -e uefi on the command line.
em_set_policy(name) ==
    /\ policy' = name
    /\ asked' = "none" /\ reply' = "none"
    /\ UNCHANGED <<tables, oem1, cached, dev, battery>>

EnergyNext ==
    \/ AskLevel \/ AskLimit \/ BatteryChanges
    \/ \E name \in {"uefi", "fake"} : em_set_policy(name)

-----------------------------------------------------------------------------
\* With the real operations the level of the battery is answered BOOT_OS only
\* if its status was read and is strictly above the threshold of a table that
\* exists: without the table, the -1 of _get_acpi_field must come out as a
\* threshold no battery reaches, and the limit of the kernel's frequency must
\* be answered yes, in the width of each field.  (What the loader does with the
\* answer is em_fallback_target of BootLogic: BATT_ERROR, the answer of a status
\* that could not be read, leaves the main OS as the target.)
NoTableNoOs ==
    policy = "uefi" =>
        /\ asked = "level" /\ reply = "BOOT_OS" =>
              /\ dev = "ok" /\ "OEM1" \in {tables[k] : k \in DOMAIN tables}
              /\ IF oem1.use = "CAP" THEN battery.percent > oem1.cap ELSE battery.mv > oem1.run
        /\ asked = "limit" /\ dev = "ok" /\ "OEM1" \notin {tables[k] : k \in DOMAIN tables} =>
              reply = "yes"

=============================================================================
