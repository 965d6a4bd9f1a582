----------------------------- MODULE DeviceNumber -----------------------------
(***************************************************************************)
(* The device half of a map key. The discover controller gets st_dev from  *)
(* stat, in the encoding the kernel hands to user space, the eBPF program  *)
(* reads s_dev, the kernel's own dev_t. UserDevToKernelDev converts one    *)
(* into the other; if it were wrong for some device, no lookup for a file  *)
(* on it would ever succeed. Bit masks and shifts are written as division  *)
(* and remainder by powers of two.                                         *)
(***************************************************************************)
EXTENDS Integers, TLAPS

Major == {m \in Nat : m < 4096}     \* 12 bits
Minor == {m \in Nat : m < 1048576}  \* 20 bits

\* dev_t of the kernel: MKDEV(major, minor).
KernelDev(ma, mi) == ma * 1048576 + mi

\* st_dev: the low byte of the minor number, the major number, the rest of the
\* minor number (new_encode_dev in the kernel's kdev_t.h).
StatDev(ma, mi) == (mi % 256) + ma * 256 + (mi \div 256) * 1048576

\* (userdev & 0x00000000000fff00) >> 8 | (userdev & 0xfffff00000000000) >> 32
MajorOf(userdev) == ((userdev \div 256) % 4096)
                    + (userdev \div 17592186044416) * 4096

\* (userdev & 0x00000000000000ff) | (userdev & 0x00000ffffff00000) >> 12
MinorOf(userdev) == (userdev % 256)
                    + ((userdev \div 1048576) % 16777216) * 256

\* uint32((major << 20) | minor). The two do not overlap as long as st_dev has
\* 32 bits, as the encoding below the masks is used for here; then | is +.
UserDevToKernelDev(userdev) ==
    (MajorOf(userdev) * 1048576 + MinorOf(userdev)) % 4294967296

-----------------------------------------------------------------------------
Byte == {b \in Nat : b < 256}

\* Splitting a number into its last byte and the rest.
LEMMA SplitByte ==
    ASSUME NEW mi \in Minor
    PROVE  /\ (mi % 256) \in Byte /\ (mi \div 256) \in Major
           /\ mi = ((mi \div 256) * 256) + (mi % 256)
BY SMT DEF Minor, Byte, Major

\* The fields of st_dev do not overlap: each mask finds its own.
LEMMA Fields ==
    ASSUME NEW lo \in Byte, NEW ma \in Major, NEW hi \in Major,
           NEW u, u = lo + ma * 256 + hi * 1048576
    PROVE  /\ MajorOf(u) = ma
           /\ MinorOf(u) = lo + hi * 256
<1>1. u % 256 = lo /\ u \div 256 = ma + hi * 4096
  BY SMT DEF Major, Byte
<1>2. u \div 1048576 = hi /\ u \div 17592186044416 = 0
  BY SMT DEF Major, Byte
<1>3. (ma + hi * 4096) % 4096 = ma
  BY SMT DEF Major, Byte
<1>4. hi % 16777216 = hi
  BY SMT DEF Major
<1> QED BY SMT, <1>1, <1>2, <1>3, <1>4 DEF MajorOf, MinorOf, Major, Byte

\* UserDevToKernelDev undoes the encoding of st_dev: for every device the key
\* the loader puts into the map is the key the eBPF program looks up.
THEOREM SameDevice ==
    ASSUME NEW ma \in Major, NEW mi \in Minor
    PROVE  UserDevToKernelDev(StatDev(ma, mi)) = KernelDev(ma, mi)
<1> DEFINE u == StatDev(ma, mi)
<1>1. MajorOf(u) = ma /\ MinorOf(u) = (mi % 256) + (mi \div 256) * 256
  BY SMT, SplitByte, Fields DEF StatDev
<1>2. MinorOf(u) = mi
  BY SMT, <1>1, SplitByte DEF Minor
<1>3. ma * 1048576 + mi \in Nat /\ ma * 1048576 + mi < 4294967296
  BY SMT DEF Major, Minor
<1>4. (ma * 1048576 + mi) % 4294967296 = ma * 1048576 + mi
  BY SMT, <1>3
<1> QED BY SMT, <1>1, <1>2, <1>4 DEF UserDevToKernelDev, KernelDev

\* Hence files on different devices never share a key: the conversion maps
\* different devices to different numbers.
THEOREM DistinctDevices ==
    ASSUME NEW ma1 \in Major, NEW mi1 \in Minor, NEW ma2 \in Major, NEW mi2 \in Minor,
           UserDevToKernelDev(StatDev(ma1, mi1)) = UserDevToKernelDev(StatDev(ma2, mi2))
    PROVE  ma1 = ma2 /\ mi1 = mi2
<1>1. KernelDev(ma1, mi1) = KernelDev(ma2, mi2)
  BY SMT, SameDevice
<1> QED BY SMT, <1>1 DEF KernelDev, Major, Minor
=============================================================================
