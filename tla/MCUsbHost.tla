----------------------------- MODULE MCUsbHost ------------------------------
EXTENDS UsbHost

Both == {"hd", "fd"}

\* A letter and caps lock, two keys at a time.
MCReport == [ctrl : {FALSE}, shift : {FALSE}, keyCode : [1..Slots -> {0, 4, CapsLock}]]

\* Bound: a behaviour uses the keyboard or one of the disks, and the keyboard is
\* polled without news while a disk is used.
KeyboardUsed == \/ report # NoKeys \/ previous # NoKeys \/ got # 0
                \/ ~caps_lock_engaged \/ buffer # [i \in Index |-> 0]
Blank == [l \in Sector |-> 0]
MassStorageUsed == \/ call.dev = "hd" \/ next_tag # 0 \/ pipe # <<>>
                   \/ current_lba["hd"] # 0 \/ media["hd"] # Blank
FloppyUsed == \/ call.dev = "fd" \/ halted # {} \/ sense # 0
              \/ current_lba["fd"] # 0 \/ media["fd"] # Blank
OneAtATime == /\ ~(KeyboardUsed /\ (MassStorageUsed \/ FloppyUsed))
              /\ ~(MassStorageUsed /\ FloppyUsed)
=============================================================================
