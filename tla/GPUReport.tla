------------------------------- MODULE GPUReport -------------------------------
(* What the attestation agent makes of a GPU's report: ParseReport, Verify    *)
(* and ValidateMeasurements (attestation-agent/internal/attestation) with the *)
(* reference values of the driver and the VBIOS (internal/rim).               *)
(*                                                                            *)
(* A report is its request (the nonce), its measurement blocks and opaque     *)
(* fields in the order of the bytes, whether all lengths add up, and the      *)
(* certificate whose key signed all of it. Fields hold what their bytes say.  *)
EXTENDS Integers, Sequences, FiniteSets

CONSTANTS
  DMTF,             \* measurement specification of the blocks that are read
  DriverVersions,   \* --gpu-driver-versions
  VBIOSVersions     \* --gpu-vbios-versions, as sequences of bytes

\* In Go's maps the last entry of a key stays.
LastOf(keys, k) ==
  CHOOSE n \in DOMAIN keys :
    keys[n] = k /\ \A m \in DOMAIN keys : keys[m] = k => m <= n

-----------------------------------------------------------------------------
(* ParseReport                                                               *)

\* Blocks count from 1, measurements from 0; 0 itself stays 0.
RecordIndex(block) == IF block.index = 0 THEN 0 ELSE block.index - 1

MeasurementRecords(blocks) ==
  LET keys == [n \in DOMAIN blocks |-> RecordIndex(blocks[n])]
  IN [i \in {keys[n] : n \in DOMAIN keys} |-> blocks[LastOf(keys, i)].value]

OpaqueFields(fields) ==
  LET keys == [n \in DOMAIN fields |-> fields[n].type]
  IN [t \in {keys[n] : n \in DOMAIN keys} |-> fields[LastOf(keys, t)].data]

\* Lengths that do not add up are errors, or end the process.
Parses(report) ==
  /\ report.complete
  /\ \A n \in DOMAIN report.blocks : report.blocks[n].spec = DMTF

-----------------------------------------------------------------------------
(* Verify                                                                    *)

\* "driver" and "vbios" are the two fields the policy looks at. An absent field
\* prints as a version no list has, or is an error.
HasVersions(report) ==
  {"driver", "vbios"} \subseteq DOMAIN OpaqueFields(report.fields)

DriverVersion(report) == OpaqueFields(report.fields)["driver"]

\* The bytes are little-endian; the upper half comes last, and of it one byte.
VBIOSVersion(report) ==
  LET bytes == OpaqueFields(report.fields)["vbios"]
      half == Len(bytes) \div 2
  IN [n \in 1..(half + 1) |-> IF n <= half THEN bytes[half + 1 - n]
                                           ELSE bytes[half + 1]]

SignedBy(report, cert) == report.signer = cert

Verifies(report, nonce, chain) ==
  /\ report.nonce = nonce
  /\ HasVersions(report)
  /\ DriverVersion(report) \in DriverVersions
  /\ VBIOSVersion(report) \in VBIOSVersions
  /\ SignedBy(report, chain[1])

-----------------------------------------------------------------------------
(* ValidateMeasurements                                                      *)

Active(resources) == {n \in DOMAIN resources : resources[n].active}
Indices(resources) == {resources[n].index : n \in Active(resources)}

\* Of two active resources with one index in one document the last one stays.
Hashes(resources, i) ==
  LET n == CHOOSE m \in Active(resources) :
             /\ resources[m].index = i
             /\ \A k \in Active(resources) : resources[k].index = i => k <= m
  IN resources[n].hashes

\* An index that both documents have is an error.
GoldenExists(driver, vbios) == Indices(driver) \cap Indices(vbios) = {}

GoldenMeasurements(driver, vbios) ==
  [i \in Indices(driver) \cup Indices(vbios) |->
     IF i \in Indices(driver) THEN Hashes(driver, i) ELSE Hashes(vbios, i)]

\* Mutant: an index the report does not have is passed over.
Matches_present(golden, records) ==
  \A i \in DOMAIN golden \cap DOMAIN records : records[i] \in golden[i]

\* No mismatch is allowed (the third argument is nil, main.go:160).
Matches(golden, records) ==
  \A i \in DOMAIN golden : i \in DOMAIN records /\ records[i] \in golden[i]

ValidMeasurements(report, driver, vbios) ==
  /\ GoldenExists(driver, vbios)
  /\ LET golden == GoldenMeasurements(driver, vbios)
         records == MeasurementRecords(report.blocks)
     IN /\ Cardinality(DOMAIN golden) <= Cardinality(DOMAIN records)
        /\ Matches(golden, records)
=============================================================================
