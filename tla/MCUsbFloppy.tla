---------------------------- MODULE MCUsbFloppy ----------------------------
EXTENDS UsbDisk
Floppy == {"fd"}
=============================================================================
