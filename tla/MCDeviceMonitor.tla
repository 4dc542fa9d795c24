-------------------------- MODULE MCDeviceMonitor --------------------------
(***************************************************************************)
(* Small machines for DeviceMonitor.  A page is two units, a ULONG tells   *)
(* 16 or 32 units apart.                                                   *)
(***************************************************************************)
EXTENDS DeviceMonitor, TLC

R(a) == [addr |-> a, kind |-> "read"]
W(a) == [addr |-> a, kind |-> "write"]
U(a) == [addr |-> a, kind |-> "update"]
X(a) == [addr |-> a, kind |-> "fetch"]

\* Four devices, five BARs: SPI with less than a page in page 8, which the guest
\* may move to page 9 and which reaches beyond all others when it is moved while
\* it is being sized; an Intel ME that the machine does not have; a USB
\* controller above 4 GB, at 36, of which the monitor takes 4 for the place; and
\* a NIC whose Callback2 drops the upper dword, with a BAR of four pages, 4 to 7,
\* and one to which the platform gave no address.
Devices == (1 :> "spi") @@ (2 :> "me") @@ (3 :> "usb") @@ [b \in 4 .. 5 |-> "nic"]
Sizes == (1 :> 1) @@ (2 :> 2) @@ (3 :> 2) @@ (4 :> 8) @@ (5 :> 2)
DeviceBases == (1 :> {<<16, 0>>, <<18, 0>>}) @@ (2 :> {<<18, 0>>}) @@ (3 :> {<<4, 1>>})
               @@ (4 :> {<<8, 0>>}) @@ (5 :> {<<0, 0>>})
\* Reads, writes and read-modify-writes: the SPI BAR, the part of page 8 that
\* is nobody's, the NIC's third page together with RAM, and the RAM at 4, which
\* is fetched from, too.
DeviceInstructions == {{R(16)}, {W(17)}, {U(12), R(0)}, {X(4), R(5)}}

\* Two devices, for liveness: SPI with half of page 4, which the guest may move to
\* page 5, and a USB controller with page 6.  The third instruction writes the
\* half of page 4 that is nobody's.
TwoDevices == (1 :> "spi") @@ (2 :> "usb")
TwoSizes == (1 :> 1) @@ (2 :> 2)
TwoBases == (1 :> {<<8, 0>>, <<10, 0>>}) @@ (2 :> {<<12, 0>>})
TwoInstructions == {{R(8)}, {U(12), R(0)}, {W(9)}}

\* One device and one BAR.
OneDevice == (1 :> "spi")
\* A BAR of four pages, in pages 4 to 7, as xHCI has several.
LongSize == (1 :> 8)
LongBase == (1 :> {<<8, 0>>})
LastPageInstructions == {{R(8)}, {R(14)}}
\* A read across the first page boundary of that BAR.
CrossingInstructions == {{R(9), R(10)}, {R(8)}}
=============================================================================
