---------------------------- MODULE IpResolution ----------------------------
(***************************************************************************)
(* How the resolver turns the addresses a profiler sampled into offsets    *)
(* from the beginning of a kernel (src/ip_resolution.cpp) and back into    *)
(* the canonical runtime addresses its backends expect (src/main.cpp).     *)
(*                                                                         *)
(* An address is a std::uint64_t of which an Intel GPU uses the low 48     *)
(* bits, sign extended.  The two widths are parameters: the low part has   *)
(* 2 * HalfSpace values and there are HighPatterns patterns of high bits,  *)
(* so the code is the instance HalfSpace = 2^47, HighPatterns = 2^16.      *)
(***************************************************************************)
EXTENDS Integers, Sequences

CONSTANTS
  HalfSpace,     \* number of low-bit patterns with a clear sign bit
  HighPatterns   \* number of patterns of the bits above the sign bit

ASSUME WidthAssumption ==
  /\ HalfSpace \in Nat \ {0}
  /\ HighPatterns \in Nat \ {0, 1}

AddressSpace == 2 * HalfSpace
Word == AddressSpace * HighPatterns
Address == 0 .. Word - 1

\* std::nullopt of NormalizedIp::kernel_offset.
NoOffset == -1

\* The 48-bit address with its sign bit copied into the bits above it.
CanonicalizeIntelGpuAddress(address) ==
  LET low == address % AddressSpace
  IN  IF low < HalfSpace THEN low ELSE (Word - AddressSpace) + low

\* A mutant: the address just after the kernel is taken for one in it.
InclusiveOffsetFromBase(address, base, size) ==
  IF address >= base /\ address - base <= size THEN address - base ELSE NoOffset

\* The difference of an address and the kernel's base, when the address is
\* in the kernel; both are canonical by now.
OffsetFromBase(address, base, size) ==
  IF address >= base /\ address - base < size THEN address - base ELSE NoOffset

\* A mutant: a small address is taken for an offset before it is tried as a
\* VTune display address.
RelativeFirstKernelOffset(address, base, size, sectionFileOffset) ==
  IF address < size THEN address
  ELSE IF /\ sectionFileOffset # 0
          /\ address >= sectionFileOffset
          /\ address - sectionFileOffset < size
       THEN address - sectionFileOffset
       ELSE OffsetFromBase(CanonicalizeIntelGpuAddress(address),
                           CanonicalizeIntelGpuAddress(base), size)

\* One iteration of normalize_ip_list.  An address in the section's window of
\* the zebin file is a VTune display address; else an address below the
\* kernel's size is an offset already; else it is a runtime address.
KernelOffset(address, base, size, sectionFileOffset) ==
  IF /\ sectionFileOffset # 0
     /\ address >= sectionFileOffset
     /\ address - sectionFileOffset < size
  THEN address - sectionFileOffset
  ELSE IF address < size THEN address
       ELSE OffsetFromBase(CanonicalizeIntelGpuAddress(address),
                           CanonicalizeIntelGpuAddress(base), size)

\* addr2line_ips_from_normalized, for an address in the kernel: its canonical
\* runtime address, modulo 2^64.
Addr2LineIp(offset, base) ==
  (CanonicalizeIntelGpuAddress(base) + offset) % Word

=============================================================================
