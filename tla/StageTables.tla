----------------------------- MODULE StageTables -----------------------------
(***************************************************************************)
(* The edits the stage makes to a copy of the firmware, as the data they are *)
(* in scripts/stage.js and scripts/versions/: the base list, the guards that *)
(* go with a DEBUG gate that is off, and each release's own list.            *)
(*                                                                          *)
(* A patch names a file, the targets it is for, and its edits in order.  An  *)
(* edit looks for one line, in one of the spellings releases give it; the    *)
(* first spelling names it.  A line is a name here, short for its text; what *)
(* is kept of a replacement is whether the line looked for is still in it    *)
(* (a guard put above a line, a prototype above a function).                 *)
(***************************************************************************)
EXTENDS SequencesExt

TARGETS == {"node-linux", "node-win32", "android"}

(* patchTargets(): `targets`, or the older `platform`, or every target *)
PatchTargets(p) ==
  CASE p.scope = "targets"  -> p.targets
    [] p.scope = "platform" -> {CASE p.platform = "win32" -> "node-win32"
                                  [] p.platform = "linux" -> "node-linux"}
    [] p.scope = "every"    -> TARGETS

Swap(line) == [from |-> <<line>>, keeps |-> FALSE]
Respelt(old, new) == [from |-> <<old, new>>, keeps |-> FALSE]
Above(line) == [from |-> <<line>>, keeps |-> TRUE]

Patch(file, edits) == [scope |-> "every", file |-> file, edits |-> edits]
For(targets, file, edits) ==
  [scope |-> "targets", targets |-> targets, file |-> file, edits |-> edits]
On(platform, file, edits) ==
  [scope |-> "platform", platform |-> platform, file |-> file, edits |-> edits]

Swaps(lines) == [i \in DOMAIN lines |-> Swap(lines[i])]

okcore == "libraries/onlykey/okcore.cpp"
okcrypto == "libraries/onlykey/okcrypto.cpp"
okpqc == "libraries/onlykey/okpqc.cpp"
okcore_h == "libraries/onlykey/okcore.h"
device == "libraries/fido2/device.cpp"
ok_extension == "libraries/fido2/ok_extension.cpp"
ctap == "libraries/fido2/ctap.cpp"
sketch == "sketch/OnlyKey.ino"
uECC == "libraries/uECC/uECC.c"

-----------------------------------------------------------------------------
(* stage.js *)

(* interrupts that do not exist; the flash array and AIRCR, moved *)
CorePatches == <<
  Patch("core/kinetis.h", Swaps(<<"__disable_irq", "__enable_irq">>)),
  For(TARGETS, okcore_h, Swaps(<<"factorysectoradr", "fwstartadr", "flashstorestart", "flashend">>)),
  Patch(okcore_h, <<Swap("CPU_RESTART_ADDR")>>)>>

(* pointers narrowed to 32 bits; an overload Windows lacks *)
PointerPatches == <<
  Patch(okcrypto, <<Respelt("println &ret", "println &ret 3.1.0")>>),
  Patch("libraries/fido2/ctap_parse.cpp", <<Swap("length = end_byte - start_byte")>>),
  Patch("libraries/ADC/ADC_Module.h", <<Swap("ADC_BITBAND_ADDR")>>),
  Patch("core/avr_emulation.h", Swaps(<<"GPIO_BITBAND_ADDR", "GPIO_SETBIT_ATOMIC", "GPIO_CLRBIT_ATOMIC">>)),
  Patch("core/Print.cpp", Swaps(<<"vdprintf", "vdprintf F">>)),
  Patch("core/Print.h", <<Above("println n"), Above("println n base")>>)>>

(* declarations a C compiler of today wants, or that disagree with their    *)
(* definitions                                                              *)
PrototypePatches == <<
  Patch(uECC, <<Above("include uECC_vli.h")>>),
  Patch(uECC, <<Above("uECC_shared_secret2")>>),
  Patch("libraries/tweetnacl/tweetnacl.c", <<Swap("extern RNG2")>>),
  Patch("libraries/justhashtweetnacl/justhashtweetnacl.c", <<Swap("extern RNG2")>>)>>

(* linkage only the MSVC ABI tells apart, and a symbol libucrt owns *)
LinkagePatches == LET win == {"node-win32"} IN <<
  For(win, okcrypto, <<Swap("extern keyboard_buffer")>>),
  For(win, okcore, <<Swap("extern KeyboardLayout")>>),
  For(win, sketch, <<Swap("extern KeyboardLayout")>>),
  For(win, okpqc, <<Respelt("extern large_buffer_offset", "extern large_buffer_offset 3.1.0"),
                    Respelt("extern CRYPTO_AUTH", "extern CRYPTO_AUTH 3.1.0")>>),
  For(win, sketch, <<Respelt("_write stub", "_write stub 3.1.0")>>)>>

(* okemu_press_take(), above the dispatch: the press hand-over *)
PressPatch == <<
  Patch(okcore, <<[from |-> <<"press dispatch", "press dispatch 3.1.0">>, keeps |-> TRUE]>>)>>

PATCHES == CorePatches \o PointerPatches \o PrototypePatches \o LinkagePatches \o PressPatch

APPID_NULL_GUARD == Patch(device, <<Swap("appid_match2")>>)
DEBUG_OFF_PATCHES == <<Patch(device, <<Above("appid_match1")>>)>>

-----------------------------------------------------------------------------
(* scripts/versions/_shared.js *)
profileOffsetType == Patch("libraries/password/password.cpp", <<Swap("extern Profile_Offset")>>)
okconnectBufferGuard == Patch(device, <<Swap("buffer OKCONNECT")>>)
okconnectBufferGuardWithChallengeMode == Patch(device, <<Swap("buffer OKCONNECT challenge")>>)
nullSetterPointers == <<
  Patch(sketch, Swaps(<<"failedlogins(0)", "sincelastregularlogin(0)", "sincelastregularlogin (0)">>)),
  Patch(okcore, <<Swap("timeout(0)")>>)>>
wipeSlotNullSetters == Patch(okcore, Swaps(<<"2FAtype(0)", "counter(0)">>))
hmacChallengeModeNullSetter == Patch(okcore, <<Swap("hmac_challengemode(0)")>>)
flashWalkStride == Patch(okcore, Swaps(<<"okcore_flashget_common", "okcore_flashset_common">>))
byteprintNullArgument == Patch(okcore, <<Above("byteprint")>>)
pageZeroDebugDump == Patch(okcore, <<Swap("adr = 0x0")>>)
missingReturns == <<
  Patch(okcore, <<Swap("ctap_flash end")>>),
  Patch(device, <<Swap("ctap_atomic_count end")>>),
  Patch(ok_extension, <<Swap("send_stored_response end")>>)>>
hwModelStackBuffer == Patch(okcore, Swaps(<<"char out[strlen]", "out[sizeof-2]", "out[sizeof-1]">>))
droppedTransportResponse == Patch(okcore, <<Swap("send2(resp_buffer, 0)")>>)

-----------------------------------------------------------------------------
(* scripts/versions/<version>.js.  A release that says nothing of a field     *)
(* gets the default versions.load() gives it.                               *)

Release == [patches |-> <<>>, debugOffPatches |-> <<>>, absent |-> {}, debugOffAbsent |-> {},
            pinned |-> TRUE, hasOkpqc |-> FALSE, std |-> "asStaged"]

(* what every release from v2.1.0 to v3.0.4 carries *)
CommonPatches ==
  <<flashWalkStride, droppedTransportResponse, hwModelStackBuffer>> \o missingReturns
  \o <<byteprintNullArgument, pageZeroDebugDump>> \o nullSetterPointers

v210 == [Release EXCEPT !.patches = CommonPatches, !.debugOffPatches = <<okconnectBufferGuard>>]
v212 == [v210 EXCEPT !.patches = @ \o <<wipeSlotNullSetters, hmacChallengeModeNullSetter>>]
v211 == [v212 EXCEPT !.std = "on"]
v300 == [v212 EXCEPT !.patches = @ \o <<profileOffsetType>>]
v301 == v300
v302 == [v300 EXCEPT !.debugOffPatches = <<okconnectBufferGuardWithChallengeMode>>]
v303 == v302
v304 == v302

rngStirsAnAddressNotAValue == Patch(sketch, Swaps(<<"stir analog1", "stir analog2">>))
rngloopStirsAddressesNotValues == Patch(okcore, Swaps(<<"stir analog1 x4", "stir touchread1",
  "stir touchread2", "stir touchread3", "stir touchread4", "stir touchread5", "stir touchread6",
  "stir analog2 x4">>))
flashWalkStride2019 == Patch(okcore, Swaps(<<"onlykey_flashget_common", "onlykey_flashset_common">>))
nullSetterPointers2019 == Patch(sketch, Swaps(<<"onlykey failedlogins(0)",
  "onlykey sincelastregularlogin(0)", "onlykey sincelastregularlogin (0)">>))

v02 == [Release EXCEPT
  !.absent = {"factorysectoradr", "length = end_byte - start_byte", "uECC_shared_secret2"},
  !.patches = <<On("win32", okcrypto, <<Swap("extern setBuffer[8]")>>), flashWalkStride2019,
                nullSetterPointers2019, byteprintNullArgument, missingReturns[3],
                pageZeroDebugDump, rngStirsAnAddressNotAValue, rngloopStirsAddressesNotValues>>]

workingTree == [Release EXCEPT !.pinned = FALSE, !.hasOkpqc = TRUE,
  !.absent = {"appid_match2"}, !.debugOffAbsent = {"appid_match1"}]

(* fixes-3.1.0.js: what gen-fixes.js makes of each patch kept beside it.  One *)
(* folder may give several patches, one per file; one in a HARDKEY folder is *)
(* for no target.                                                           *)
FixFolder(hardKey, files) ==
  [i \in DOMAIN files |-> IF hardKey THEN For({}, files[i][1], Swaps(files[i][2]))
                          ELSE Patch(files[i][1], Swaps(files[i][2]))]
byName == [n \in {"0012", "0013", "0015", "0016", "0017", "0018", "0019", "0020"} |->
  CASE n = "0012" -> FixFolder(FALSE, << <<okcore, <<"0012">> >> >>)
    [] n = "0013" -> FixFolder(FALSE, << <<okcore, <<"0013">> >> >>)
    [] n = "0015" -> FixFolder(FALSE, << <<ctap, <<"0015a", "0015b", "0015c", "0015d">> >> >>)
    [] n = "0016" -> FixFolder(FALSE, << <<ok_extension, <<"0016x">> >>,
                       <<okcore, <<"0016a", "0016b", "0016c", "0016d", "0016e">> >>,
                       <<okcore_h, <<"0016h">> >> >>)
    [] n = "0017" -> FixFolder(FALSE, << <<ok_extension, <<"0017">> >> >>)
    [] n = "0018" -> FixFolder(FALSE, << <<okcore, <<"0018">> >> >>)
    [] n = "0019" -> FixFolder(FALSE, << <<device, <<"0019">> >> >>)
    [] n = "0020" -> FixFolder(TRUE, << <<"OnlyKey-Firmware/usb_dev.c", <<"0020">> >> >>)]

(* v3.1.0.js: the working tree's claims, and the fixes the version_control   *)
(* plugin lists when a build carries it                                     *)
v310(chosen) == [workingTree EXCEPT !.pinned = TRUE,
  !.patches = FlattenSeq([i \in DOMAIN chosen |-> byName[chosen[i]]])]

(* versions.load() of every release that has a script, and plugins/          *)
(* version_control/version.json's list                                      *)
Listed == <<"0012", "0013", "0015", "0016", "0017", "0018", "0019", "0020">>
Releases ==
  [v \in {"v0.2-beta.8", "v2.1.0", "v2.1.1", "v2.1.2", "v3.0.0", "v3.0.1", "v3.0.2", "v3.0.3",
          "v3.0.4", "v3.1.0", "v3.1.01", "working-tree"} |->
     CASE v = "v0.2-beta.8" -> v02
       [] v = "v2.1.0" -> v210
       [] v = "v2.1.1" -> v211
       [] v = "v2.1.2" -> v212
       [] v = "v3.0.0" -> v300
       [] v = "v3.0.1" -> v301
       [] v = "v3.0.2" -> v302
       [] v = "v3.0.3" -> v303
       [] v = "v3.0.4" -> v304
       [] v = "v3.1.0" -> v310(<<>>)
       [] v = "v3.1.01" -> v310(Listed)
       [] v = "working-tree" -> workingTree]
=============================================================================
