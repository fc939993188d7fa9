---------------------------- MODULE MCGalleryBuild ----------------------------
\* Photos of a camera that writes all of them with the same width and height:
\* one of them was taken with the camera turned, and the header of the one
\* that cannot be decoded is intact.
EXTENDS GalleryBuild

CONSTANT Turned

RawSizes == [c \in Image \cup {Damaged} |-> "wide"]
UprightSizes == [c \in Image |-> IF c \in Turned THEN "tall" ELSE "wide"]
=============================================================================
