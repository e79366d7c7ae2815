SPECIFICATION UploadSpec
CONSTANTS
    Kitchen <- KitchenBins
    OtherBin <- OtherBins
    MaxUploads = 2
    MaxShots = 2
INVARIANTS
    UploadTypeOK
    PicturesShowTheirRecord
PROPERTIES
    LightsFollowTheirCamera
CHECK_DEADLOCK FALSE
