--------------------------- MODULE MCGPUAttestation ---------------------------
(* An instance of GPUAttestation for TLC: two GPUs of one driver and VBIOS.   *)
EXTENDS GPUAttestation

MCGPUChain == <<<<"leaf1", "device1", "root">>, <<"leaf2", "device2", "root">>>>
MCRegistered == {"device1", "device2", "publisher", "signing"}

\* Bytes of a VBIOS version: 4 and 4 that are printed reversed, and one more.
MCVBIOSVersions == {<<4, 3, 2, 1, 5>>}
Fields(driver) == <<[type |-> "vbios", data |-> <<9, 9, 9, 9>>],
                    [type |-> "driver", data |-> driver],
                    [type |-> "vbios", data |-> <<1, 2, 3, 4, 5, 6, 7, 8>>]>>

Block(i, v) == [index |-> i, spec |-> 1, value |-> v]
Body(blocks) == [nonce |-> 0, blocks |-> blocks, fields |-> Fields("v1"),
                 signer |-> "leaf1", trusted |-> TRUE, complete |-> TRUE]
Sound == Body(<<Block(1, "d"), Block(2, "v"), Block(3, "x")>>)

\* Sound ones of both GPUs, and one for each check that can refuse a report.
MCBodies ==
  {Sound, [Sound EXCEPT !.signer = "leaf2"],
   Body(<<Block(2, "v"), Block(3, "x")>>),
   Body(<<Block(1, "d"), Block(2, "d")>>),
   Body(<<Block(1, "d")>>),
   [Sound EXCEPT !.fields = Fields("v2")],
   [Sound EXCEPT !.complete = FALSE], [Sound EXCEPT !.trusted = FALSE]}

Resource(i, act, hashes) == [index |-> i, active |-> act, hashes |-> hashes]
RIM(resources) == [resources |-> resources, chain |-> <<"publisher", "signing", "root">>,
                   signed |-> TRUE, trusted |-> TRUE]
MCDriverRIMs == {RIM(<<Resource(0, TRUE, {"d", "d2"}), Resource(2, FALSE, {"y"})>>),
                 [RIM(<<>>) EXCEPT !.signed = FALSE]}
\* The second one claims an index of the driver.
MCVBIOSRIMs == {RIM(<<Resource(1, TRUE, {"v"})>>),
                RIM(<<Resource(0, TRUE, {"d"}), Resource(1, TRUE, {"v"})>>)}
=============================================================================
